--------------------------- MODULE MatchingProofs ---------------------------
(***************************************************************************)
(* What the matching of a batch auction computes, for every book of bids:  *)
(* the sort yields every bid once, the bisection stays within the prices,  *)
(* and the loop over the bids allocates no more than is on offer and       *)
(* charges no bidder more than their matched bids reserved.                *)
(*                                                                         *)
(* Before that, facts about the sums of the model, for any number of       *)
(* terms, and about its numbers, sequences and decimals.  SumTo and        *)
(* SumFunctionOnSet are recursive functions: that they exist, and what     *)
(* they compute, is proved by induction over a set of naturals             *)
(* (InductiveSet).                                                         *)
(***************************************************************************)
EXTENDS Matching, FiniteSetsExt, FiniteSetTheorems, SequenceTheorems,
        WellFoundedInduction, TLAPS

-----------------------------------------------------------------------------
(***************************************************************************)
(* Natural numbers.                                                        *)
(***************************************************************************)

\* Every non-empty set of naturals has a least element.
LEMMA LeastNat ==
  ASSUME NEW T \in SUBSET Nat, T # {}
  PROVE  \E x \in T : \A y \in T : x <= y
<1> DEFINE R == OpToRel(<, Nat)
<1>1. IsWellFoundedOn(R, Nat) BY NatLessThanWellFounded
<1>2. PICK x \in T : \A y \in T : ~(<<y, x>> \in R)
  <2> HIDE DEF R
  <2> QED BY <1>1, WFMin, Zenon
<1>3. \A y \in T : x <= y
  <2> SUFFICES ASSUME NEW y \in T, y < x PROVE FALSE OBVIOUS
  <2>1. <<y, x>> \in R BY DEF OpToRel
  <2> QED BY <2>1, <1>2
<1> QED BY <1>3

\* A set that contains 0 and with every number the next contains all of them.
LEMMA InductiveSet ==
  ASSUME NEW T, 0 \in T, \A n \in Nat : n \in T => n + 1 \in T
  PROVE  Nat \subseteq T
<1> SUFFICES ASSUME Nat \ T # {} PROVE FALSE OBVIOUS
<1> DEFINE U == Nat \ T
<1>1. PICK x \in U : \A y \in U : x <= y
  <2>1. U \in SUBSET Nat /\ U # {} OBVIOUS
  <2> HIDE DEF U
  <2> QED BY <2>1, LeastNat
<1>2. x # 0 /\ x \in Nat OBVIOUS
<1>3. x - 1 \in Nat /\ x - 1 \notin U BY <1>1, <1>2
<1>4. (x - 1) + 1 \in T BY <1>3
<1> QED BY <1>2, <1>4

-----------------------------------------------------------------------------
(***************************************************************************)
(* SumTo(n, f), the sum of f[1], ..., f[n].                                *)
(***************************************************************************)

\* The terms of the sum are numbers.
Summable(n, f) == \A k \in 1..n : f[k] \in Int

\* The function in the definition of SumTo exists.
LEMMA SumExists ==
  ASSUME NEW N \in Nat, NEW f, Summable(N, f)
  PROVE  \E s : /\ s = [k \in 0..N |-> IF k = 0 THEN 0 ELSE s[k - 1] + f[k]]
                /\ \A k \in 0..N : s[k] \in Int
<1> DEFINE P(n, s) == /\ s = [k \in 0..n |-> IF k = 0 THEN 0 ELSE s[k - 1] + f[k]]
                      /\ \A k \in 0..n : s[k] \in Int
           T == {n \in Nat : n <= N => \E s : P(n, s)}
<1>1. 0 \in T
  <2> DEFINE s == [k \in 0..0 |-> 0]
  <2>1. P(0, s) OBVIOUS
  <2> QED BY <2>1
<1>2. ASSUME NEW n \in Nat, n \in T PROVE n + 1 \in T
  <2> SUFFICES ASSUME n + 1 <= N PROVE \E t : P(n + 1, t) OBVIOUS
  <2>1. PICK s : P(n, s) BY <1>2
  <2> DEFINE t == [k \in 0..(n + 1) |-> IF k <= n THEN s[k] ELSE s[n] + f[n + 1]]
  <2>2. f[n + 1] \in Int BY DEF Summable
  <2>3. \A k \in 0..(n + 1) : t[k] \in Int BY <2>1, <2>2
  <2>4. ASSUME NEW k \in 0..(n + 1)
        PROVE  t[k] = IF k = 0 THEN 0 ELSE t[k - 1] + f[k]
    <3>1. CASE k = 0 BY <2>1, <3>1
    <3>2. CASE k # 0 /\ k <= n BY <2>1, <3>2
    <3>3. CASE k = n + 1 BY <2>1, <3>3
    <3> QED BY <3>1, <3>2, <3>3
  <2>5. P(n + 1, t) BY <2>3, <2>4
  <2> QED BY <2>5
<1>3. N \in T
  <2> HIDE DEF T
  <2> QED BY <1>1, <1>2, InductiveSet
<1> QED BY <1>3

\* SumTo is what that function yields.
LEMMA SumIs ==
  ASSUME NEW N \in Nat, NEW f, Summable(N, f)
  PROVE  \E s : /\ s = [k \in 0..N |-> IF k = 0 THEN 0 ELSE s[k - 1] + f[k]]
                /\ \A k \in 0..N : s[k] \in Int
                /\ SumTo(N, f) = s[N]
<1> DEFINE E(s) == s = [k \in 0..N |-> IF k = 0 THEN 0 ELSE s[k - 1] + f[k]]
           s0 == CHOOSE s : E(s)
<1>1. \E s : E(s) BY SumExists
<1>2. E(s0)
  <2> HIDE DEF E
  <2> QED BY <1>1
<1>3. SumTo(N, f) = s0[N] BY DEF SumTo
<1>4. \A k \in 0..N : s0[k] \in Int
  <2> HIDE DEF s0
  <2> DEFINE T == {n \in Nat : n <= N => s0[n] \in Int}
  <2>0. /\ s0[0] = 0
        /\ \A k \in 1..N : s0[k] = s0[k - 1] + f[k]
    <3>1. \A k \in 0..N : s0[k] = IF k = 0 THEN 0 ELSE s0[k - 1] + f[k]
      BY <1>2
    <3> QED BY <3>1
  <2>1. 0 \in T BY <2>0
  <2>2. ASSUME NEW n \in Nat, n \in T PROVE n + 1 \in T
    <3> SUFFICES ASSUME n + 1 <= N PROVE s0[n + 1] \in Int OBVIOUS
    <3>1. s0[n + 1] = s0[(n + 1) - 1] + f[n + 1] BY <2>0
    <3>2. f[n + 1] \in Int BY DEF Summable
    <3>3. (n + 1) - 1 = n /\ s0[n] \in Int BY <2>2
    <3> QED BY <3>1, <3>2, <3>3
  <2>3. Nat \subseteq T
    <3> HIDE DEF T
    <3> QED BY <2>1, <2>2, InductiveSet
  <2> QED BY <2>3
<1> HIDE DEF s0
<1> QED BY <1>2, <1>3, <1>4

\* A sum is its last term more than the sum before it.
LEMMA SumStep ==
  ASSUME NEW N \in Nat, NEW f, Summable(N, f)
  PROVE  /\ SumTo(N, f) \in Int
         /\ SumTo(0, f) = 0
         /\ N > 0 => SumTo(N, f) = SumTo(N - 1, f) + f[N]
<1>1. PICK s : /\ s = [k \in 0..N |-> IF k = 0 THEN 0 ELSE s[k - 1] + f[k]]
               /\ \A k \in 0..N : s[k] \in Int
               /\ SumTo(N, f) = s[N]
  BY SumIs
<1>2. SumTo(N, f) \in Int BY <1>1
<1>3. SumTo(0, f) = 0
  <2>1. Summable(0, f) BY DEF Summable
  <2>2. PICK t : /\ t = [k \in 0..0 |-> IF k = 0 THEN 0 ELSE t[k - 1] + f[k]]
                 /\ SumTo(0, f) = t[0]
    BY <2>1, SumIs
  <2> QED BY <2>2
<1>4. ASSUME N > 0 PROVE SumTo(N, f) = SumTo(N - 1, f) + f[N]
  <2>1. N - 1 \in Nat /\ Summable(N - 1, f) BY <1>4 DEF Summable
  <2>2. PICK t : /\ t = [k \in 0..(N - 1) |->
                           IF k = 0 THEN 0 ELSE t[k - 1] + f[k]]
                 /\ SumTo(N - 1, f) = t[N - 1]
    BY <2>1, SumIs
  <2>3. \A k \in 0..N : s[k] = IF k = 0 THEN 0 ELSE s[k - 1] + f[k] BY <1>1
  <2>4. \A k \in 0..(N - 1) : t[k] = IF k = 0 THEN 0 ELSE t[k - 1] + f[k]
    BY <2>2
  <2> DEFINE T == {n \in Nat : n <= N - 1 => s[n] = t[n]}
  <2>5. 0 \in T BY <2>1, <2>3, <2>4
  <2>6. ASSUME NEW n \in Nat, n \in T PROVE n + 1 \in T
    <3> SUFFICES ASSUME n + 1 <= N - 1 PROVE s[n + 1] = t[n + 1] OBVIOUS
    <3>1. s[n + 1] = s[(n + 1) - 1] + f[n + 1] BY <2>3
    <3>2. t[n + 1] = t[(n + 1) - 1] + f[n + 1] BY <2>4
    <3>3. (n + 1) - 1 = n /\ s[n] = t[n] BY <2>6
    <3> QED BY <3>1, <3>2, <3>3
  <2>7. N - 1 \in T
    <3> HIDE DEF T
    <3> QED BY <2>1, <2>5, <2>6, InductiveSet
  <2>8. s[N] = s[N - 1] + f[N] BY <1>4, <2>3
  <2> QED BY <1>1, <2>1, <2>2, <2>7, <2>8
<1> QED BY <1>2, <1>3, <1>4

\* The sums before the last are sums of numbers, too.
LEMMA SummablePrefix ==
  ASSUME NEW N \in Nat, NEW f, Summable(N, f), NEW n \in 0..N
  PROVE  n \in Nat /\ Summable(n, f)
BY DEF Summable

\* The sum of the sums of two sequences of terms.
LEMMA SumPlus ==
  ASSUME NEW N \in Nat, NEW f, NEW g, NEW h, Summable(N, f), Summable(N, g),
         \A k \in 1..N : h[k] = f[k] + g[k]
  PROVE  /\ Summable(N, h)
         /\ SumTo(N, h) = SumTo(N, f) + SumTo(N, g)
<1>1. Summable(N, h) BY DEF Summable
<1> DEFINE T == {n \in Nat : n <= N => SumTo(n, h) = SumTo(n, f) + SumTo(n, g)}
<1>2. 0 \in T BY <1>1, SumStep
<1>3. ASSUME NEW n \in Nat, n \in T PROVE n + 1 \in T
  <2> SUFFICES ASSUME n + 1 <= N
               PROVE  SumTo(n + 1, h) = SumTo(n + 1, f) + SumTo(n + 1, g)
    OBVIOUS
  <2>1. /\ Summable(n, f) /\ Summable(n, g) /\ Summable(n, h)
        /\ Summable(n + 1, f) /\ Summable(n + 1, g) /\ Summable(n + 1, h)
    BY <1>1, SummablePrefix
  <2>2. /\ SumTo(n + 1, f) = SumTo(n, f) + f[n + 1]
        /\ SumTo(n + 1, g) = SumTo(n, g) + g[n + 1]
        /\ SumTo(n + 1, h) = SumTo(n, h) + h[n + 1]
    <3>1. n + 1 \in Nat /\ n + 1 > 0 /\ (n + 1) - 1 = n OBVIOUS
    <3>2. /\ SumTo(n + 1, f) = SumTo((n + 1) - 1, f) + f[n + 1]
          /\ SumTo(n + 1, g) = SumTo((n + 1) - 1, g) + g[n + 1]
          /\ SumTo(n + 1, h) = SumTo((n + 1) - 1, h) + h[n + 1]
      BY <2>1, <3>1, SumStep
    <3> QED BY <3>1, <3>2
  <2>3. SumTo(n, f) \in Int /\ SumTo(n, g) \in Int BY <2>1, SumStep
  <2>4. h[n + 1] = f[n + 1] + g[n + 1] /\ f[n + 1] \in Int /\ g[n + 1] \in Int
    BY DEF Summable
  <2>5. SumTo(n, h) = SumTo(n, f) + SumTo(n, g) BY <1>3
  <2> QED BY <2>2, <2>3, <2>4, <2>5
<1>4. N \in T
  <2> HIDE DEF T
  <2> QED BY <1>2, <1>3, InductiveSet
<1> QED BY <1>1, <1>4

\* A sum of larger terms is larger.
LEMMA SumMonotone ==
  ASSUME NEW N \in Nat, NEW f, NEW g, Summable(N, f), Summable(N, g),
         \A k \in 1..N : f[k] <= g[k]
  PROVE  SumTo(N, f) <= SumTo(N, g)
<1> DEFINE T == {n \in Nat : n <= N => SumTo(n, f) <= SumTo(n, g)}
<1>2. 0 \in T BY SumStep
<1>3. ASSUME NEW n \in Nat, n \in T PROVE n + 1 \in T
  <2> SUFFICES ASSUME n + 1 <= N
               PROVE  SumTo(n + 1, f) <= SumTo(n + 1, g)
    OBVIOUS
  <2>1. /\ Summable(n, f) /\ Summable(n, g)
        /\ Summable(n + 1, f) /\ Summable(n + 1, g)
    BY SummablePrefix
  <2>2. /\ SumTo(n + 1, f) = SumTo(n, f) + f[n + 1]
        /\ SumTo(n + 1, g) = SumTo(n, g) + g[n + 1]
    <3>1. n + 1 \in Nat /\ n + 1 > 0 /\ (n + 1) - 1 = n OBVIOUS
    <3>2. /\ SumTo(n + 1, f) = SumTo((n + 1) - 1, f) + f[n + 1]
          /\ SumTo(n + 1, g) = SumTo((n + 1) - 1, g) + g[n + 1]
      BY <2>1, <3>1, SumStep
    <3> QED BY <3>1, <3>2
  <2>3. SumTo(n, f) \in Int /\ SumTo(n, g) \in Int BY <2>1, SumStep
  <2>4. f[n + 1] <= g[n + 1] /\ f[n + 1] \in Int /\ g[n + 1] \in Int
    BY DEF Summable
  <2>5. SumTo(n, f) <= SumTo(n, g) BY <1>3
  <2> QED BY <2>2, <2>3, <2>4, <2>5
<1>4. N \in T
  <2> HIDE DEF T
  <2> QED BY <1>2, <1>3, InductiveSet
<1> QED BY <1>4

\* Sums of the same terms are the same.
LEMMA SumSame ==
  ASSUME NEW N \in Nat, NEW f, NEW g, Summable(N, f),
         \A k \in 1..N : f[k] = g[k]
  PROVE  Summable(N, g) /\ SumTo(N, f) = SumTo(N, g)
<1>1. Summable(N, g) BY DEF Summable
<1>2. \A k \in 1..N : f[k] <= g[k] /\ g[k] <= f[k] BY DEF Summable
<1>3. SumTo(N, f) <= SumTo(N, g) /\ SumTo(N, g) <= SumTo(N, f)
  BY <1>1, <1>2, SumMonotone
<1>4. SumTo(N, f) \in Int /\ SumTo(N, g) \in Int BY <1>1, SumStep
<1> QED BY <1>1, <1>3, <1>4

\* A sum of zeros is zero.
LEMMA SumZero ==
  ASSUME NEW N \in Nat, NEW f, \A k \in 1..N : f[k] = 0
  PROVE  Summable(N, f) /\ SumTo(N, f) = 0
<1>1. Summable(N, f) BY DEF Summable
<1> DEFINE T == {n \in Nat : n <= N => SumTo(n, f) = 0}
<1>2. 0 \in T BY <1>1, SumStep
<1>3. ASSUME NEW n \in Nat, n \in T PROVE n + 1 \in T
  <2> SUFFICES ASSUME n + 1 <= N PROVE SumTo(n + 1, f) = 0 OBVIOUS
  <2>1. n + 1 \in 0..N /\ n + 1 > 0 /\ (n + 1) - 1 = n OBVIOUS
  <2>2. n + 1 \in Nat /\ Summable(n + 1, f) BY <1>1, <2>1, SummablePrefix
  <2>3. SumTo(n + 1, f) = SumTo((n + 1) - 1, f) + f[n + 1]
    BY <2>1, <2>2, SumStep
  <2> QED BY <1>3, <2>1, <2>3
<1>4. N \in T
  <2> HIDE DEF T
  <2> QED BY <1>2, <1>3, InductiveSet
<1> QED BY <1>1, <1>4

\* A sum of natural numbers is a natural number.
LEMMA SumNat ==
  ASSUME NEW N \in Nat, NEW f, \A k \in 1..N : f[k] \in Nat
  PROVE  Summable(N, f) /\ SumTo(N, f) \in Nat
<1> DEFINE z == [k \in 1..N |-> 0]
<1>1. Summable(N, f) BY DEF Summable
<1>2. \A k \in 1..N : z[k] = 0 /\ z[k] <= f[k] OBVIOUS
<1> HIDE DEF z
<1>3. Summable(N, z) /\ SumTo(N, z) = 0 BY <1>2, SumZero
<1>4. SumTo(N, z) <= SumTo(N, f) BY <1>1, <1>2, <1>3, SumMonotone
<1>5. SumTo(N, f) \in Int BY <1>1, SumStep
<1> QED BY <1>1, <1>3, <1>4, <1>5

\* A sum with one non-zero term is that term.
LEMMA SumOfOne ==
  ASSUME NEW N \in Nat, NEW f, NEW j \in 1..N, f[j] \in Int,
         \A k \in (1..N) \ {j} : f[k] = 0
  PROVE  Summable(N, f) /\ SumTo(N, f) = f[j]
<1>1. Summable(N, f) BY DEF Summable
<1> DEFINE T == {n \in Nat : n <= N => SumTo(n, f) = IF j <= n THEN f[j] ELSE 0}
<1>3. 0 \in T BY <1>1, SumStep
<1>4. ASSUME NEW n \in Nat, n \in T PROVE n + 1 \in T
  <2> SUFFICES ASSUME n + 1 <= N
               PROVE  SumTo(n + 1, f) = IF j <= n + 1 THEN f[j] ELSE 0
    OBVIOUS
  <2>1. n + 1 \in 0..N /\ n + 1 > 0 /\ (n + 1) - 1 = n OBVIOUS
  <2>2. n + 1 \in Nat /\ Summable(n + 1, f) BY <1>1, <2>1, SummablePrefix
  <2>3. SumTo(n + 1, f) = SumTo((n + 1) - 1, f) + f[n + 1]
    BY <2>1, <2>2, SumStep
  <2>4. f[n + 1] = IF n + 1 = j THEN f[j] ELSE 0 OBVIOUS
  <2>5. SumTo(n, f) = IF j <= n THEN f[j] ELSE 0 BY <1>4
  <2> QED BY <2>1, <2>3, <2>4, <2>5
<1>5. N \in T
  <2> HIDE DEF T
  <2> QED BY <1>3, <1>4, InductiveSet
<1> QED BY <1>1, <1>5

\* When one term changes, the sum changes by as much.
LEMMA SumChange ==
  ASSUME NEW N \in Nat, NEW f, NEW g, Summable(N, f), Summable(N, g),
         NEW j \in 1..N, \A k \in (1..N) \ {j} : g[k] = f[k]
  PROVE  SumTo(N, g) = SumTo(N, f) + (g[j] - f[j])
<1> DEFINE e == [k \in 1..N |-> IF k = j THEN g[j] - f[j] ELSE 0]
<1>1. f[j] \in Int /\ g[j] \in Int BY DEF Summable
<1>2. /\ e[j] = g[j] - f[j]
      /\ \A k \in (1..N) \ {j} : e[k] = 0
  OBVIOUS
<1> HIDE DEF e
<1>3. ASSUME NEW k \in 1..N PROVE g[k] = f[k] + e[k]
  <2>1. f[k] \in Int BY DEF Summable
  <2>2. CASE k = j BY <1>1, <1>2, <2>2
  <2>3. CASE k # j BY <1>2, <2>1, <2>3
  <2> QED BY <2>2, <2>3
<1>4. Summable(N, e) /\ SumTo(N, e) = e[j] BY <1>1, <1>2, SumOfOne
<1>5. SumTo(N, g) = SumTo(N, f) + SumTo(N, e) BY <1>3, <1>4, SumPlus
<1> QED BY <1>2, <1>4, <1>5

-----------------------------------------------------------------------------
(***************************************************************************)
(* SumFunctionOnSet(f, S), the sum of f[x] over a finite set S: the        *)
(* elements are added one by one, in the order in which Pick yields them.  *)
(***************************************************************************)
Pick(s) == CHOOSE x \in s : TRUE

\* The terms of the sum are numbers.
SummableOn(S, f) == \A x \in S : f[x] \in Int

\* One element of a non-empty finite set is taken away.
LEMMA PickFacts ==
  ASSUME NEW S, IsFiniteSet(S), S # {}
  PROVE  /\ Pick(S) \in S
         /\ IsFiniteSet(S \ {Pick(S)})
         /\ Cardinality(S) \in Nat \ {0}
         /\ Cardinality(S \ {Pick(S)}) = Cardinality(S) - 1
<1>1. Pick(S) \in S BY DEF Pick
<1>2. Cardinality(S) \in Nat /\ Cardinality(S) # 0
  BY FS_CardinalityType, FS_EmptySet
<1> QED BY <1>1, <1>2, FS_RemoveElement

\* A collection of sets that contains the empty set, and every set that it
\* contains without the element that Pick yields, contains every finite set.
LEMMA InductiveSets ==
  ASSUME NEW S, IsFiniteSet(S), NEW T, {} \in T,
         \A s \in SUBSET S : s # {} /\ s \ {Pick(s)} \in T => s \in T
  PROVE  \A s \in SUBSET S : s \in T
<1> DEFINE N == {n \in Nat : \A s \in SUBSET S : Cardinality(s) = n => s \in T}
<1>1. \A s \in SUBSET S : IsFiniteSet(s) /\ Cardinality(s) \in Nat
  BY FS_Subset, FS_CardinalityType
<1>2. 0 \in N BY <1>1, FS_EmptySet
<1>3. ASSUME NEW n \in Nat, n \in N PROVE n + 1 \in N
  <2> SUFFICES ASSUME NEW s \in SUBSET S, Cardinality(s) = n + 1 PROVE s \in T
    OBVIOUS
  <2>1. s # {} BY FS_EmptySet
  <2>2. Cardinality(s \ {Pick(s)}) = n BY <1>1, <2>1, PickFacts
  <2>3. s \ {Pick(s)} \in SUBSET S OBVIOUS
  <2>4. s \ {Pick(s)} \in T BY <1>3, <2>2, <2>3
  <2> QED BY <2>1, <2>4
<1>4. Nat \subseteq N
  <2> HIDE DEF N
  <2> QED BY <1>2, <1>3, InductiveSet
<1> QED BY <1>1, <1>4

\* The recursive function in the definition of the sum.
IsSetSum(S, f, g) ==
  g = [s \in SUBSET S |->
         IF s = {} THEN 0 ELSE f[Pick(s)] + g[s \ {Pick(s)}]]

\* That function exists.
LEMMA SetSumExists ==
  ASSUME NEW S, IsFiniteSet(S), NEW f, SummableOn(S, f)
  PROVE  \E g : IsSetSum(S, f, g)
<1> DEFINE E(g, s) == g[s] = IF s = {} THEN 0 ELSE f[Pick(s)] + g[s \ {Pick(s)}]
           T == {n \in Nat : \E g \in [SUBSET S -> Int] :
                   \A s \in SUBSET S : Cardinality(s) <= n => E(g, s)}
<1>1. \A s \in SUBSET S : IsFiniteSet(s) /\ Cardinality(s) \in Nat
  BY FS_Subset, FS_CardinalityType
<1>2. 0 \in T
  <2> DEFINE g == [s \in SUBSET S |-> 0]
  <2>1. \A s \in SUBSET S : Cardinality(s) <= 0 => E(g, s)
    BY <1>1, FS_EmptySet
  <2>2. g \in [SUBSET S -> Int] OBVIOUS
  <2> HIDE DEF g, E
  <2> QED BY <2>1, <2>2
<1>3. ASSUME NEW n \in Nat, n \in T PROVE n + 1 \in T
  <2>1. PICK g \in [SUBSET S -> Int] :
          \A s \in SUBSET S : Cardinality(s) <= n => E(g, s)
    BY <1>3
  <2> DEFINE h == [s \in SUBSET S |->
                     IF Cardinality(s) <= n THEN g[s]
                     ELSE f[Pick(s)] + g[s \ {Pick(s)}]]
  <2>2. ASSUME NEW s \in SUBSET S, s # {}
        PROVE  /\ Pick(s) \in S
               /\ f[Pick(s)] \in Int
               /\ s \ {Pick(s)} \in SUBSET S
               /\ Cardinality(s \ {Pick(s)}) = Cardinality(s) - 1
    BY <1>1, <2>2, PickFacts DEF SummableOn
  <2>3. \A s \in SUBSET S : Cardinality(s) > n => s # {} BY FS_EmptySet
  <2>4. h \in [SUBSET S -> Int]
    <3>1. ASSUME NEW s \in SUBSET S PROVE h[s] \in Int
      <4>1. CASE Cardinality(s) <= n BY <4>1
      <4>2. CASE Cardinality(s) > n
        <5>1. f[Pick(s)] \in Int /\ g[s \ {Pick(s)}] \in Int
          BY <2>2, <2>3, <4>2
        <5> QED BY <1>1, <4>2, <5>1
      <4> QED BY <1>1, <4>1, <4>2
    <3> QED BY <3>1
  <2>5. ASSUME NEW s \in SUBSET S, Cardinality(s) <= n + 1 PROVE E(h, s)
    <3>1. CASE s = {}
      <4>1. Cardinality(s) <= n BY <3>1, FS_EmptySet
      <4>2. h[s] = g[s] BY <4>1
      <4> QED BY <2>1, <3>1, <4>1, <4>2
    <3>2. CASE s # {}
      <4>1. /\ s \ {Pick(s)} \in SUBSET S
            /\ Cardinality(s \ {Pick(s)}) <= n
        BY <1>1, <2>2, <2>5, <3>2
      <4>2. h[s \ {Pick(s)}] = g[s \ {Pick(s)}] BY <4>1
      <4>3. h[s] = f[Pick(s)] + g[s \ {Pick(s)}]
        <5>1. CASE Cardinality(s) <= n
          <6>1. h[s] = g[s] BY <5>1
          <6>2. E(g, s) BY <2>1, <5>1
          <6> QED BY <3>2, <6>1, <6>2
        <5>2. CASE ~(Cardinality(s) <= n) BY <5>2
        <5> QED BY <5>1, <5>2
      <4> QED BY <3>2, <4>2, <4>3
    <3> QED BY <3>1, <3>2
  <2> HIDE DEF h
  <2>6. \A s \in SUBSET S : Cardinality(s) <= n + 1 => E(h, s) BY <2>5
  <2> QED BY <2>4, <2>6
<1>4. Cardinality(S) \in T
  <2> HIDE DEF T
  <2> QED BY <1>1, <1>2, <1>3, InductiveSet
<1>5. PICK g \in [SUBSET S -> Int] :
        \A s \in SUBSET S : Cardinality(s) <= Cardinality(S) => E(g, s)
  BY <1>4
<1>6. \A s \in SUBSET S : E(g, s) BY <1>5, FS_Subset
<1>7. IsSetSum(S, f, g) BY <1>6 DEF IsSetSum
<1> QED BY <1>7

\* A sum over a set is the term of the element that Pick yields more than the
\* sum over the others.
LEMMA SetSumPick ==
  ASSUME NEW S, IsFiniteSet(S), NEW f, SummableOn(S, f)
  PROVE  /\ SumFunctionOnSet(f, {}) = 0
         /\ S # {} => SumFunctionOnSet(f, S) =
                        f[Pick(S)] + SumFunctionOnSet(f, S \ {Pick(S)})
<1> DEFINE sum(U) == CHOOSE g : IsSetSum(U, f, g)
<1>1. ASSUME NEW U, IsFiniteSet(U), SummableOn(U, f)
      PROVE  /\ IsSetSum(U, f, sum(U))
             /\ SumFunctionOnSet(f, U) = sum(U)[U]
  <2>1. \E g : IsSetSum(U, f, g) BY <1>1, SetSumExists
  <2>2. IsSetSum(U, f, sum(U)) BY <2>1
  <2>3. SumFunctionOnSet(f, U) = sum(U)[U]
    BY DEF SumFunctionOnSet, FoldFunctionOnSet, MapThenFoldSet, Pick, IsSetSum
  <2> QED BY <2>2, <2>3
<1> HIDE DEF sum
<1>2. SumFunctionOnSet(f, {}) = 0
  <2>1. SummableOn({}, f) BY DEF SummableOn
  <2>2. IsSetSum({}, f, sum({})) /\ SumFunctionOnSet(f, {}) = sum({})[{}]
    BY <1>1, <2>1, FS_EmptySet
  <2> QED BY <2>2 DEF IsSetSum
<1>3. ASSUME S # {}
      PROVE  SumFunctionOnSet(f, S) =
               f[Pick(S)] + SumFunctionOnSet(f, S \ {Pick(S)})
  <2> DEFINE R == S \ {Pick(S)}
  <2>1. IsFiniteSet(R) /\ SummableOn(R, f) /\ R \in SUBSET S
    BY <1>3, PickFacts DEF SummableOn
  <2>2. /\ IsSetSum(S, f, sum(S)) /\ SumFunctionOnSet(f, S) = sum(S)[S]
        /\ IsSetSum(R, f, sum(R)) /\ SumFunctionOnSet(f, R) = sum(R)[R]
    BY <1>1, <2>1
  <2>3. \A s \in SUBSET S : sum(S)[s] =
          IF s = {} THEN 0 ELSE f[Pick(s)] + sum(S)[s \ {Pick(s)}]
    BY <2>2 DEF IsSetSum
  <2>4. \A s \in SUBSET R : sum(R)[s] =
          IF s = {} THEN 0 ELSE f[Pick(s)] + sum(R)[s \ {Pick(s)}]
    BY <2>2 DEF IsSetSum
  <2> HIDE DEF R
  <2> DEFINE T == {s \in SUBSET R : sum(S)[s] = sum(R)[s]}
  <2>5. {} \in T BY <2>3, <2>4
  <2>6. ASSUME NEW s \in SUBSET R, s # {}, s \ {Pick(s)} \in T PROVE s \in T
    BY <2>1, <2>3, <2>4, <2>6
  <2>7. \A s \in SUBSET R : s \in T
    <3> HIDE DEF T
    <3> QED BY <2>1, <2>5, <2>6, InductiveSets
  <2>8. sum(S)[R] = sum(R)[R] BY <2>7
  <2>9. sum(S)[S] = f[Pick(S)] + sum(S)[R] BY <1>3, <2>3 DEF R
  <2> QED BY <2>2, <2>8, <2>9 DEF R
<1> QED BY <1>2, <1>3

\* The sum over no elements.
LEMMA SetSumEmpty ==
  ASSUME NEW f
  PROVE  SumFunctionOnSet(f, {}) = 0
<1>1. IsFiniteSet({}) /\ SummableOn({}, f) BY FS_EmptySet DEF SummableOn
<1> QED BY <1>1, SetSumPick

\* The sums over the subsets are sums of numbers, too.
LEMMA SummableSubset ==
  ASSUME NEW S, IsFiniteSet(S), NEW f, SummableOn(S, f), NEW s \in SUBSET S
  PROVE  IsFiniteSet(s) /\ SummableOn(s, f)
BY FS_Subset DEF SummableOn

\* A sum of numbers is a number.
LEMMA SetSumInt ==
  ASSUME NEW S, IsFiniteSet(S), NEW f, SummableOn(S, f)
  PROVE  SumFunctionOnSet(f, S) \in Int
<1> DEFINE T == {s \in SUBSET S : SumFunctionOnSet(f, s) \in Int}
<1>1. {} \in T BY SetSumEmpty
<1>2. ASSUME NEW s \in SUBSET S, s # {}, s \ {Pick(s)} \in T PROVE s \in T
  <2>1. IsFiniteSet(s) /\ SummableOn(s, f) BY SummableSubset
  <2>2. f[Pick(s)] \in Int BY <1>2, <2>1, PickFacts DEF SummableOn
  <2>3. SumFunctionOnSet(f, s) = f[Pick(s)] + SumFunctionOnSet(f, s \ {Pick(s)})
    BY <1>2, <2>1, SetSumPick
  <2> QED BY <1>2, <2>2, <2>3
<1>3. \A s \in SUBSET S : s \in T
  <2> HIDE DEF T
  <2> QED BY <1>1, <1>2, InductiveSets
<1> QED BY <1>3

\* The sum of the sums of two families of terms.
LEMMA SetSumPlus ==
  ASSUME NEW S, IsFiniteSet(S), NEW f, NEW g, NEW h, SummableOn(S, f),
         SummableOn(S, g), \A x \in S : h[x] = f[x] + g[x]
  PROVE  /\ SummableOn(S, h)
         /\ SumFunctionOnSet(h, S) =
              SumFunctionOnSet(f, S) + SumFunctionOnSet(g, S)
<1>1. SummableOn(S, h) BY DEF SummableOn
<1> DEFINE T == {s \in SUBSET S : SumFunctionOnSet(h, s) =
                   SumFunctionOnSet(f, s) + SumFunctionOnSet(g, s)}
<1>2. {} \in T BY SetSumEmpty
<1>3. ASSUME NEW s \in SUBSET S, s # {}, s \ {Pick(s)} \in T PROVE s \in T
  <2> DEFINE x == Pick(s)
             r == s \ {x}
  <2>1. /\ IsFiniteSet(s) /\ IsFiniteSet(r)
        /\ SummableOn(s, f) /\ SummableOn(s, g) /\ SummableOn(s, h)
        /\ SummableOn(r, f) /\ SummableOn(r, g)
    BY <1>1, SummableSubset
  <2>2. x \in S BY <1>3, <2>1, PickFacts
  <2>3. f[x] \in Int /\ g[x] \in Int /\ h[x] = f[x] + g[x]
    BY <2>2 DEF SummableOn
  <2>4. /\ SumFunctionOnSet(f, s) = f[x] + SumFunctionOnSet(f, r)
        /\ SumFunctionOnSet(g, s) = g[x] + SumFunctionOnSet(g, r)
        /\ SumFunctionOnSet(h, s) = h[x] + SumFunctionOnSet(h, r)
    BY <1>3, <2>1, SetSumPick
  <2>5. SumFunctionOnSet(f, r) \in Int /\ SumFunctionOnSet(g, r) \in Int
    BY <2>1, SetSumInt
  <2>6. SumFunctionOnSet(h, r) = SumFunctionOnSet(f, r) + SumFunctionOnSet(g, r)
    BY <1>3
  <2>7. SumFunctionOnSet(h, s) = SumFunctionOnSet(f, s) + SumFunctionOnSet(g, s)
    BY <2>3, <2>4, <2>5, <2>6
  <2> QED BY <2>7
<1>4. \A s \in SUBSET S : s \in T
  <2> HIDE DEF T
  <2> QED BY <1>2, <1>3, InductiveSets
<1> QED BY <1>1, <1>4

\* A sum of larger terms is larger.
LEMMA SetSumMonotone ==
  ASSUME NEW S, IsFiniteSet(S), NEW f, NEW g, SummableOn(S, f),
         SummableOn(S, g), \A x \in S : f[x] <= g[x]
  PROVE  SumFunctionOnSet(f, S) <= SumFunctionOnSet(g, S)
<1> DEFINE T == {s \in SUBSET S :
                   SumFunctionOnSet(f, s) <= SumFunctionOnSet(g, s)}
<1>2. {} \in T BY SetSumEmpty
<1>3. ASSUME NEW s \in SUBSET S, s # {}, s \ {Pick(s)} \in T PROVE s \in T
  <2> DEFINE x == Pick(s)
             r == s \ {x}
  <2>1. /\ IsFiniteSet(s) /\ IsFiniteSet(r)
        /\ SummableOn(s, f) /\ SummableOn(s, g)
        /\ SummableOn(r, f) /\ SummableOn(r, g)
    BY SummableSubset
  <2>2. x \in S BY <1>3, <2>1, PickFacts
  <2>3. f[x] \in Int /\ g[x] \in Int /\ f[x] <= g[x]
    BY <2>2 DEF SummableOn
  <2>4. /\ SumFunctionOnSet(f, s) = f[x] + SumFunctionOnSet(f, r)
        /\ SumFunctionOnSet(g, s) = g[x] + SumFunctionOnSet(g, r)
    BY <1>3, <2>1, SetSumPick
  <2>5. SumFunctionOnSet(f, r) \in Int /\ SumFunctionOnSet(g, r) \in Int
    BY <2>1, SetSumInt
  <2>6. SumFunctionOnSet(f, r) <= SumFunctionOnSet(g, r) BY <1>3
  <2>7. SumFunctionOnSet(f, s) <= SumFunctionOnSet(g, s)
    BY <2>3, <2>4, <2>5, <2>6
  <2> QED BY <2>7
<1>4. \A s \in SUBSET S : s \in T
  <2> HIDE DEF T
  <2> QED BY <1>2, <1>3, InductiveSets
<1> QED BY <1>4

\* Sums of the same terms are the same.
LEMMA SetSumSame ==
  ASSUME NEW S, IsFiniteSet(S), NEW f, NEW g, SummableOn(S, f),
         \A x \in S : f[x] = g[x]
  PROVE  /\ SummableOn(S, g)
         /\ SumFunctionOnSet(f, S) = SumFunctionOnSet(g, S)
<1>1. SummableOn(S, g) BY DEF SummableOn
<1>2. \A x \in S : f[x] <= g[x] /\ g[x] <= f[x] BY DEF SummableOn
<1>3. /\ SumFunctionOnSet(f, S) <= SumFunctionOnSet(g, S)
      /\ SumFunctionOnSet(g, S) <= SumFunctionOnSet(f, S)
  BY <1>1, <1>2, SetSumMonotone
<1>4. SumFunctionOnSet(f, S) \in Int /\ SumFunctionOnSet(g, S) \in Int
  BY <1>1, SetSumInt
<1> QED BY <1>1, <1>3, <1>4

\* A sum of zeros is zero.
LEMMA SetSumZero ==
  ASSUME NEW S, IsFiniteSet(S), NEW f, \A x \in S : f[x] = 0
  PROVE  SummableOn(S, f) /\ SumFunctionOnSet(f, S) = 0
<1>1. SummableOn(S, f) BY DEF SummableOn
<1>2. SumFunctionOnSet(f, S) = SumFunctionOnSet(f, S) + SumFunctionOnSet(f, S)
  BY <1>1, SetSumPlus
<1>3. SumFunctionOnSet(f, S) \in Int BY <1>1, SetSumInt
<1>4. ASSUME NEW x \in Int, x = x + x PROVE x = 0 BY <1>4
<1> QED BY <1>1, <1>2, <1>3, <1>4

\* A sum of natural numbers is a natural number.
LEMMA SetSumNat ==
  ASSUME NEW S, IsFiniteSet(S), NEW f, \A x \in S : f[x] \in Nat
  PROVE  SummableOn(S, f) /\ SumFunctionOnSet(f, S) \in Nat
<1> DEFINE z == [x \in S |-> 0]
<1>1. SummableOn(S, f) BY DEF SummableOn
<1>2. \A x \in S : z[x] = 0 /\ z[x] <= f[x] OBVIOUS
<1> HIDE DEF z
<1>3. SummableOn(S, z) /\ SumFunctionOnSet(z, S) = 0 BY <1>2, SetSumZero
<1>4. SumFunctionOnSet(z, S) <= SumFunctionOnSet(f, S)
  BY <1>1, <1>2, <1>3, SetSumMonotone
<1>5. SumFunctionOnSet(f, S) \in Int BY <1>1, SetSumInt
<1> QED BY <1>1, <1>3, <1>4, <1>5

\* The elements may be added in any order: a sum over a set is the term of any
\* element more than the sum over the others.
LEMMA SetSumRemove ==
  ASSUME NEW S, IsFiniteSet(S), NEW f, SummableOn(S, f), NEW e \in S
  PROVE  SumFunctionOnSet(f, S) = f[e] + SumFunctionOnSet(f, S \ {e})
<1> DEFINE Any(s) == \A x \in s :
             SumFunctionOnSet(f, s) = f[x] + SumFunctionOnSet(f, s \ {x})
           N == {n \in Nat : \A s \in SUBSET S : Cardinality(s) = n => Any(s)}
<1>1. \A s \in SUBSET S :
        IsFiniteSet(s) /\ Cardinality(s) \in Nat /\ SummableOn(s, f)
  BY FS_CardinalityType, SummableSubset
<1>2. 0 \in N BY <1>1, FS_EmptySet
<1>3. ASSUME NEW n \in Nat, n \in N PROVE n + 1 \in N
  <2> SUFFICES ASSUME NEW s \in SUBSET S, Cardinality(s) = n + 1, NEW x \in s
               PROVE  SumFunctionOnSet(f, s) = f[x] + SumFunctionOnSet(f, s \ {x})
    OBVIOUS
  <2> DEFINE p == Pick(s)
  <2>1. p \in s /\ IsFiniteSet(s) /\ SummableOn(s, f) BY <1>1, PickFacts
  <2>2. SumFunctionOnSet(f, s) = f[p] + SumFunctionOnSet(f, s \ {p})
    BY <1>1, SetSumPick
  <2> HIDE DEF p
  <2>3. CASE x = p BY <2>2, <2>3
  <2>4. CASE x # p
    <3>1. /\ Cardinality(s \ {p}) = n /\ s \ {p} \in SUBSET S
          /\ Cardinality(s \ {x}) = n /\ s \ {x} \in SUBSET S
      <4>1. /\ Cardinality(s \ {p}) = Cardinality(s) - 1
            /\ Cardinality(s \ {x}) = Cardinality(s) - 1
        BY <2>1, FS_RemoveElement
      <4>2. Cardinality(s) - 1 = n OBVIOUS
      <4> QED BY <4>1, <4>2, Zenon
    <3>2. Any(s \ {p}) /\ Any(s \ {x}) BY <1>3, <3>1
    <3>3. x \in s \ {p} /\ p \in s \ {x} BY <2>1, <2>4
    <3> DEFINE r == (s \ {p}) \ {x}
    <3>4. (s \ {x}) \ {p} = r OBVIOUS
    <3>5. /\ SumFunctionOnSet(f, s \ {p}) = f[x] + SumFunctionOnSet(f, r)
          /\ SumFunctionOnSet(f, s \ {x}) = f[p] + SumFunctionOnSet(f, r)
      <4>1. /\ SumFunctionOnSet(f, s \ {p}) = f[x] + SumFunctionOnSet(f, r)
            /\ SumFunctionOnSet(f, s \ {x}) =
                 f[p] + SumFunctionOnSet(f, (s \ {x}) \ {p})
        BY <3>2, <3>3
      <4> HIDE DEF r
      <4> QED BY <3>4, <4>1, Zenon
    <3>6. f[x] \in Int /\ f[p] \in Int BY <2>1 DEF SummableOn
    <3>7. SumFunctionOnSet(f, r) \in Int
      <4>1. r \in SUBSET S OBVIOUS
      <4> QED BY <1>1, <4>1, SetSumInt
    <3> DEFINE a == SumFunctionOnSet(f, s \ {p})
               b == SumFunctionOnSet(f, s \ {x})
               c == SumFunctionOnSet(f, r)
    <3>8. a = f[x] + c /\ b = f[p] + c /\ c \in Int BY <3>5, <3>7
    <3>9. f[p] + a = f[x] + b
      <4> HIDE DEF a, b, c
      <4> QED BY <3>6, <3>8
    <3> QED BY <2>2, <3>9
  <2> QED BY <2>3, <2>4
<1>4. Cardinality(S) \in N
  <2> HIDE DEF N
  <2> QED BY <1>1, <1>2, <1>3, InductiveSet
<1> QED BY <1>4

\* When one term changes, the sum changes by as much.
LEMMA SetSumChange ==
  ASSUME NEW S, IsFiniteSet(S), NEW f, NEW g, SummableOn(S, f), NEW e \in S,
         g[e] \in Int, \A x \in S \ {e} : g[x] = f[x]
  PROVE  /\ SummableOn(S, g)
         /\ SumFunctionOnSet(g, S) = SumFunctionOnSet(f, S) + (g[e] - f[e])
<1> DEFINE r == S \ {e}
<1>1. SummableOn(S, g) BY DEF SummableOn
<1>2. IsFiniteSet(r) /\ SummableOn(r, f) BY SummableSubset
<1>3. SumFunctionOnSet(f, r) = SumFunctionOnSet(g, r) BY <1>2, SetSumSame
<1>4. /\ SumFunctionOnSet(f, S) = f[e] + SumFunctionOnSet(f, r)
      /\ SumFunctionOnSet(g, S) = g[e] + SumFunctionOnSet(g, r)
  BY <1>1, SetSumRemove
<1>5. SumFunctionOnSet(f, r) \in Int /\ f[e] \in Int
  BY <1>2, SetSumInt DEF SummableOn
<1> HIDE DEF r
<1> QED BY <1>1, <1>3, <1>4, <1>5

\* A new element adds its term.
LEMMA SetSumAdd ==
  ASSUME NEW S, IsFiniteSet(S), NEW f, SummableOn(S, f), NEW e, e \notin S,
         f[e] \in Int
  PROVE  /\ SummableOn(S \cup {e}, f)
         /\ SumFunctionOnSet(f, S \cup {e}) = SumFunctionOnSet(f, S) + f[e]
<1>1. SummableOn(S \cup {e}, f) BY DEF SummableOn
<1>2. IsFiniteSet(S \cup {e}) BY FS_AddElement
<1>3. (S \cup {e}) \ {e} = S OBVIOUS
<1>4. SumFunctionOnSet(f, S \cup {e}) =
        f[e] + SumFunctionOnSet(f, (S \cup {e}) \ {e})
  BY <1>1, <1>2, SetSumRemove
<1>5. SumFunctionOnSet(f, S) \in Int BY SetSumInt
<1>6. SumFunctionOnSet(f, S \cup {e}) = f[e] + SumFunctionOnSet(f, S)
  BY <1>3, <1>4, Zenon
<1> DEFINE a == SumFunctionOnSet(f, S \cup {e})
           b == SumFunctionOnSet(f, S)
<1>7. a = b + f[e]
  <2>1. a = f[e] + b /\ b \in Int BY <1>5, <1>6
  <2> HIDE DEF a, b
  <2> QED BY <2>1
<1> QED BY <1>1, <1>7

\* One term is no larger than a sum of natural numbers.
LEMMA SetSumMember ==
  ASSUME NEW S, IsFiniteSet(S), NEW f, \A x \in S : f[x] \in Nat, NEW e \in S
  PROVE  f[e] <= SumFunctionOnSet(f, S)
<1> DEFINE r == S \ {e}
<1>1. IsFiniteSet(r) /\ \A x \in r : f[x] \in Nat BY FS_Subset
<1>2. SummableOn(S, f) BY DEF SummableOn
<1>3. SumFunctionOnSet(f, S) = f[e] + SumFunctionOnSet(f, r)
  BY <1>2, SetSumRemove
<1>4. SumFunctionOnSet(f, r) \in Nat
  <2> HIDE DEF r
  <2> QED BY <1>1, SetSumNat
<1> HIDE DEF r
<1> QED BY <1>3, <1>4

\* The terms of f that belong to the indices in S.
Selected(N, f, S) == [k \in 1..N |-> IF k \in S THEN f[k] ELSE 0]

\* Adding the terms one after the other and adding them as a set is the same.
LEMMA SumIsSetSum ==
  ASSUME NEW N \in Nat, NEW f, Summable(N, f), NEW S \in SUBSET (1..N)
  PROVE  SumTo(N, Selected(N, f, S)) = SumFunctionOnSet(f, S)
<1> DEFINE g(s) == Selected(N, f, s)
           T == {s \in SUBSET (1..N) : SumTo(N, g(s)) = SumFunctionOnSet(f, s)}
<1>1. IsFiniteSet(1..N) /\ SummableOn(1..N, f)
  BY FS_Interval DEF Summable, SummableOn
<1>2. ASSUME NEW s PROVE Summable(N, g(s)) BY DEF Summable, Selected
<1>3. {} \in T
  <2>1. \A k \in 1..N : g({})[k] = 0 BY DEF Selected
  <2> HIDE DEF g
  <2> QED BY <2>1, SumZero, SetSumEmpty
<1>4. ASSUME NEW s \in SUBSET (1..N), s # {}, s \ {Pick(s)} \in T PROVE s \in T
  <2> DEFINE x == Pick(s)
             r == s \ {x}
  <2>1. IsFiniteSet(s) /\ x \in s /\ IsFiniteSet(r) /\ SummableOn(r, f)
    BY <1>1, <1>4, FS_Subset, PickFacts DEF SummableOn
  <2>2. r \in T BY <1>4
  <2>3. s = r \cup {x} /\ x \notin r /\ x \in 1..N BY <2>1
  <2> HIDE DEF x, r
  <2>4. f[x] \in Int BY <2>3 DEF Summable
  <2>5. SumFunctionOnSet(f, s) = SumFunctionOnSet(f, r) + f[x]
    BY <2>1, <2>3, <2>4, SetSumAdd
  <2> DEFINE a == g(s)
             b == g(r)
  <2>6. /\ \A k \in (1..N) \ {x} : a[k] = b[k]
        /\ a[x] = f[x] /\ b[x] = 0
    BY <2>3 DEF Selected
  <2>7. Summable(N, a) /\ Summable(N, b) BY <1>2
  <2> HIDE DEF g, a, b
  <2>8. SumTo(N, a) = SumTo(N, b) + (a[x] - b[x])
    BY <2>3, <2>6, <2>7, SumChange
  <2>9. SumTo(N, a) = SumTo(N, b) + f[x]
    BY <2>4, <2>6, <2>8
  <2> QED BY <2>2, <2>5, <2>9 DEF a, b
<1> HIDE DEF T
<1>5. \A s \in SUBSET (1..N) : s # {} /\ s \ {Pick(s)} \in T => s \in T BY <1>4
<1>6. \A s \in SUBSET (1..N) : s \in T BY <1>1, <1>3, <1>5, InductiveSets
<1> QED BY <1>6 DEF T

-----------------------------------------------------------------------------
(***************************************************************************)
(* Facts about numbers, sequences and decimals.                            *)
(***************************************************************************)

\* Integer division of naturals is a natural.
LEMMA DivIsNat ==
  ASSUME NEW a \in Nat, NEW b \in Nat \ {0}
  PROVE  a \div b \in Nat
OBVIOUS

\* The two conversions of amounts (types/bid.go) yield natural numbers.
LEMMA DecTypes ==
  ASSUME NEW amt \in Nat, NEW price \in Nat
  PROVE  /\ price > 0 => QuoTruncateInt(amt, price) \in Nat
         /\ MulCeilInt(amt, price) \in Nat
<1>1. amt * ONE \in Nat /\ amt * price \in Nat
  BY OneAssumption
<1>2. amt * price + ONE - 1 \in Nat
  <2> DEFINE x == amt * price
  <2>1. x \in Nat BY <1>1
  <2> HIDE DEF x
  <2>2. x + ONE - 1 \in Nat BY <2>1, OneAssumption
  <2> QED BY <2>2 DEF x
<1>3. price > 0 => (amt * ONE) \div price \in Nat
  <2> DEFINE x == amt * ONE
  <2> HIDE DEF x
  <2>1. x \in Nat BY <1>1 DEF x
  <2>2. price > 0 => x \div price \in Nat BY <2>1, DivIsNat
  <2> QED BY <2>2 DEF x
<1>4. (amt * price + ONE - 1) \div ONE \in Nat
  <2> DEFINE x == amt * price + ONE - 1
  <2> HIDE DEF x
  <2>1. x \in Nat BY <1>2 DEF x
  <2>2. x \div ONE \in Nat BY <2>1, DivIsNat, OneAssumption
  <2> QED BY <2>2 DEF x
<1> QED BY <1>3, <1>4 DEF QuoTruncateInt, MulCeilInt

\* A function on an initial interval of the positive naturals is a sequence.
LEMMA FcnIsSeq ==
  ASSUME NEW S, NEW n \in Nat, NEW f \in [1..n -> S]
  PROVE  f \in Seq(S) /\ Len(f) = n
<1>1. f \in Seq(S) BY SeqDef
<1>2. DOMAIN f = 1..Len(f) /\ Len(f) \in Nat BY <1>1, LenProperties
<1> QED BY <1>1, <1>2

\* Every non-empty set of naturals with an upper bound has a greatest element.
LEMMA GreatestNat ==
  ASSUME NEW T \in SUBSET Nat, T # {}, NEW b \in Nat, \A y \in T : y <= b
  PROVE  \E x \in T : \A y \in T : y <= x
<1> DEFINE U == {u \in Nat : \A y \in T : y <= u}
<1>1. PICK u \in U : \A v \in U : u <= v
  <2>1. U \in SUBSET Nat /\ b \in U OBVIOUS
  <2> HIDE DEF U
  <2> QED BY <2>1, LeastNat
<1>2. u \in T
  <2> SUFFICES ASSUME u \notin T PROVE FALSE OBVIOUS
  <2>1. \A y \in T : y <= u - 1 BY <1>1
  <2>2. u - 1 \in Nat
    <3>1. PICK y \in T : TRUE OBVIOUS
    <3> QED BY <2>1, <3>1
  <2>3. u - 1 \in U BY <2>1, <2>2
  <2> QED BY <2>3, <1>1
<1> QED BY <1>1, <1>2

\* Rounding up is monotone: raising the price or the amount of a bid never
\* lowers what is reserved for it.
LEMMA MulCeilMonotone ==
  ASSUME NEW a \in Nat, NEW b \in Nat, NEW p \in Nat, NEW q \in Nat,
         a <= b, p <= q
  PROVE  MulCeilInt(a, p) <= MulCeilInt(b, q)
<1>1. a * p \in Nat /\ b * q \in Nat /\ b * p \in Nat OBVIOUS
<1>2. a * p <= b * p
  <2>1. PICK d \in Nat : b = a + d
    <3>1. b - a \in Nat /\ b = a + (b - a) OBVIOUS
    <3> QED BY <3>1
  <2>2. b * p = a * p + d * p /\ d * p \in Nat BY <2>1
  <2> QED BY <1>1, <2>2
<1>3. b * p <= b * q
  <2>1. PICK d \in Nat : q = p + d
    <3>1. q - p \in Nat /\ q = p + (q - p) OBVIOUS
    <3> QED BY <3>1
  <2>2. b * q = b * p + b * d /\ b * d \in Nat BY <2>1
  <2> QED BY <1>1, <2>2
<1> DEFINE x == a * p
           y == b * q
<1>4. x \in Nat /\ y \in Nat /\ x <= y BY <1>1, <1>2, <1>3
<1> HIDE DEF x, y
<1>5. (x + ONE - 1) \div ONE <= (y + ONE - 1) \div ONE BY <1>4, OneAssumption
<1> QED BY <1>5 DEF MulCeilInt, x, y

-----------------------------------------------------------------------------
(***************************************************************************)
(* SortBids and BidsByPrice (types/utils.go) reorder the bids: they lose   *)
(* and repeat none.                                                        *)
(***************************************************************************)

\* order lists numbers up to n without repetition.
IsOrder(n, order) ==
  /\ order \in [1..n -> 1..n]
  /\ \A i, j \in 1..n : order[i] = order[j] => i = j

\* The first pass of sort.Slice only swaps bids.
LEMMA ShellPassOrder ==
  ASSUME NEW bids, Len(bids) \in 0..12
  PROVE  IsOrder(Len(bids), ShellPass(bids))
<1> DEFINE n == Len(bids)
           f == ShellPass(bids)
           swaps(i) == Less(bids, i + 6, i)
<1>1. n \in 0..12 OBVIOUS
<1>2. f = [i \in 1..n |-> IF i + 6 <= n /\ swaps(i) THEN i + 6
                          ELSE IF i > 6 /\ Less(bids, i, i - 6) THEN i - 6
                          ELSE i]
  BY DEF ShellPass
<1>3. \A i \in 1..n : i > 6 => (Less(bids, i, i - 6) <=> swaps(i - 6))
  <2> SUFFICES ASSUME NEW i \in 1..n, i > 6
               PROVE  Less(bids, i, i - 6) <=> Less(bids, (i - 6) + 6, i - 6)
    OBVIOUS
  <2>1. (i - 6) + 6 = i BY <1>1
  <2> QED BY <2>1
<1> HIDE DEF n, f, swaps
<1>4. ASSUME NEW i \in 1..n
      PROVE  /\ f[i] \in 1..n
             /\ f[f[i]] = i
  <2>1. CASE i + 6 <= n /\ swaps(i)
    <3>1. f[i] = i + 6 /\ i + 6 \in 1..n /\ i + 6 > 6 /\ ~(i + 6 + 6 <= n)
      BY <1>1, <1>2, <2>1
    <3>2. (i + 6) - 6 = i BY <1>1
    <3>3. Less(bids, i + 6, (i + 6) - 6) BY <1>3, <2>1, <3>1, <3>2
    <3>4. f[i + 6] = (i + 6) - 6 BY <1>2, <3>1, <3>3
    <3> QED BY <3>1, <3>2, <3>4
  <2>2. CASE ~(i + 6 <= n /\ swaps(i)) /\ i > 6 /\ Less(bids, i, i - 6)
    <3>1. f[i] = i - 6 /\ i - 6 \in 1..n /\ (i - 6) + 6 <= n
      BY <1>1, <1>2, <2>2
    <3>2. swaps(i - 6) BY <1>3, <2>2
    <3>3. f[i - 6] = (i - 6) + 6 BY <1>2, <3>1, <3>2
    <3>4. (i - 6) + 6 = i BY <1>1
    <3> QED BY <3>1, <3>3, <3>4
  <2>3. CASE ~(i + 6 <= n /\ swaps(i)) /\ ~(i > 6 /\ Less(bids, i, i - 6))
    BY <1>2, <2>3
  <2> QED BY <2>1, <2>2, <2>3
<1>5. f \in [1..n -> 1..n] BY <1>2, <1>4
<1>6. ASSUME NEW i \in 1..n, NEW j \in 1..n, f[i] = f[j] PROVE i = j
  BY <1>4, <1>6
<1>7. IsOrder(n, f) BY <1>5, <1>6 DEF IsOrder
<1> QED BY <1>7 DEF n, f

\* The list of m elements s, with k after its p-th element.
Spliced(s, m, p, k) ==
  [i \in 1..(m + 1) |-> IF i <= p THEN s[i]
                        ELSE IF i = p + 1 THEN k ELSE s[i - 1]]

\* Inserting an element moves the later ones by one place.
LEMMA InsertFacts ==
  ASSUME NEW S, NEW m \in Nat, NEW s \in [1..m -> S], NEW p \in 0..m, NEW k \in S
  PROVE  InsertAfter(s, p, k) = Spliced(s, m, p, k)
<1>1. s \in Seq(S) /\ Len(s) = m BY FcnIsSeq
<1> DEFINE a == SubSeq(s, 1, p)
           b == SubSeq(s, p + 1, m)
           t == (a \o <<k>>) \o b
<1>2. a \in Seq(S) /\ Len(a) = p /\ \A i \in 1..p : a[i] = s[i]
  BY <1>1
<1>3. b \in Seq(S) /\ Len(b) = m - p /\ \A i \in 1..(m - p) : b[i] = s[p + i]
  BY <1>1
<1>4. <<k>> \in Seq(S) /\ Len(<<k>>) = 1 /\ <<k>>[1] = k OBVIOUS
<1>5. InsertAfter(s, p, k) = t BY <1>1 DEF InsertAfter
<1> HIDE DEF a, b
<1>6. /\ a \o <<k>> \in Seq(S) /\ Len(a \o <<k>>) = p + 1
      /\ \A i \in 1..p : (a \o <<k>>)[i] = s[i]
      /\ (a \o <<k>>)[p + 1] = k
  BY <1>2, <1>4
<1> DEFINE c == a \o <<k>>
<1> HIDE DEF c
<1>7. c \in Seq(S) /\ Len(c) = p + 1
      /\ (\A i \in 1..p : c[i] = s[i]) /\ c[p + 1] = k
  BY <1>6 DEF c
<1>8. t = c \o b BY DEF c
<1> HIDE DEF t
<1>9. t \in Seq(S) /\ Len(t) = m + 1 BY <1>3, <1>7, <1>8
<1>10. ASSUME NEW i \in 1..(m + 1)
       PROVE  t[i] = IF i <= p THEN s[i] ELSE IF i = p + 1 THEN k ELSE s[i - 1]
  <2>1. CASE i <= p + 1 BY <1>3, <1>7, <1>8, <2>1
  <2>2. CASE i > p + 1
    <3>1. t[i] = b[i - (p + 1)] BY <1>3, <1>7, <1>8, <2>2
    <3>2. i - (p + 1) \in 1..(m - p) /\ p + (i - (p + 1)) = i - 1 BY <2>2
    <3> DEFINE j == i - (p + 1)
    <3>3. b[j] = s[p + j] BY <1>3, <3>2
    <3>4. t[i] = s[i - 1] BY <3>1, <3>2, <3>3
    <3>5. ~(i <= p) /\ i # p + 1 BY <2>2
    <3> QED BY <3>4, <3>5
  <2> QED BY <2>1, <2>2
<1> QED BY <1>5, <1>9, <1>10 DEF Spliced

\* The place at which a bid is inserted is one of the places of the list.
LEMMA PlaceType ==
  ASSUME NEW before, NEW s, Len(s) \in Nat, NEW k
  PROVE  Place(before, s, k) \in 0..Len(s)
<1> DEFINE n == Len(s)
           T == {p \in 0..n : p > 0 => s[p] \notin before[k]}
           Q(p) == /\ p > 0 => s[p] \notin before[k]
                   /\ \A q \in (p + 1)..n : s[q] \in before[k]
<1>1. n \in Nat OBVIOUS
<1>2. PICK p \in T : \A q \in T : q <= p
  <2>1. T \in SUBSET Nat /\ 0 \in T /\ \A q \in T : q <= n BY <1>1
  <2> HIDE DEF T
  <2> QED BY <1>1, <2>1, GreatestNat
<1>3. ASSUME NEW q \in (p + 1)..n PROVE s[q] \in before[k]
  <2>1. q \in 0..n /\ ~(q <= p) BY <1>1
  <2> QED BY <1>2, <2>1
<1>4. \E x \in 0..n : Q(x) BY <1>3
<1>5. Place(before, s, k) = CHOOSE x \in 0..n : Q(x) BY DEF Place
<1> HIDE DEF Q, n
<1>6. Place(before, s, k) \in 0..n BY <1>4, <1>5
<1> QED BY <1>6 DEF n

\* Inserting the bids one by one yields each of them once.
LEMMA InsertionSortOrder ==
  ASSUME NEW before, NEW n \in Nat, NEW ids, IsOrder(n, ids)
  PROVE  IsOrder(n, InsertionSort(before, ids))
<1> DEFINE B(m, s) == InsertAfter(s, Place(before, s, ids[m]), ids[m])
           E(s, N) == s = [m \in 0..N |-> IF m = 0 THEN <<>> ELSE B(m, s[m - 1])]
           sorted == CHOOSE s : E(s, n)
<1>1. ids \in [1..n -> 1..n] /\ Len(ids) = n
  <2>1. ids \in [1..n -> 1..n] BY DEF IsOrder
  <2> QED BY <2>1, FcnIsSeq
<1>2. InsertionSort(before, ids) = sorted[n] BY <1>1 DEF InsertionSort
<1>3. \E s : E(s, n)
  <2> DEFINE T == {N \in Nat : \E s : E(s, N)}
  <2> HIDE DEF B
  <2>1. 0 \in T
    <3> DEFINE s == [m \in 0..0 |-> <<>>]
    <3>1. E(s, 0) OBVIOUS
    <3> QED BY <3>1
  <2>2. ASSUME NEW N \in Nat, N \in T PROVE N + 1 \in T
    <3>1. PICK s : E(s, N) BY <2>2
    <3> DEFINE t == [m \in 0..(N + 1) |-> IF m <= N THEN s[m] ELSE B(N + 1, s[N])]
    <3>2. ASSUME NEW m \in 0..(N + 1)
          PROVE  t[m] = IF m = 0 THEN <<>> ELSE B(m, t[m - 1])
      <4>1. CASE m = 0 BY <3>1, <4>1
      <4>2. CASE m # 0 /\ m <= N BY <3>1, <4>2
      <4>3. CASE m = N + 1 BY <3>1, <4>3
      <4> QED BY <4>1, <4>2, <4>3
    <3>3. E(t, N + 1) BY <3>2
    <3> HIDE DEF E
    <3> QED BY <3>3
  <2> HIDE DEF T
  <2>3. n \in T BY <2>1, <2>2, InductiveSet
  <2> QED BY <2>3 DEF T
<1>4. E(sorted, n)
  <2> HIDE DEF E
  <2> QED BY <1>3
<1> HIDE DEF sorted, B
<1>5. sorted[0] = <<>> /\ \A m \in 1..n : sorted[m] = B(m, sorted[m - 1])
  <2>1. \A m \in 0..n : sorted[m] = IF m = 0 THEN <<>> ELSE B(m, sorted[m - 1])
    BY <1>4
  <2> QED BY <2>1
<1> DEFINE Ok(s, m) == /\ s \in [1..m -> 1..n]
                       /\ \A i \in 1..m : \E j \in 1..m : s[i] = ids[j]
                       /\ \A i, j \in 1..m : s[i] = s[j] => i = j
           T == {m \in Nat : m <= n => Ok(sorted[m], m)}
<1>6. 0 \in T
  <2>1. Ok(<<>>, 0) OBVIOUS
  <2> HIDE DEF Ok
  <2> QED BY <1>5, <2>1
<1>7. ASSUME NEW m \in Nat, m \in T PROVE m + 1 \in T
  <2> SUFFICES ASSUME m + 1 <= n PROVE Ok(sorted[m + 1], m + 1)
    <3> HIDE DEF Ok
    <3> QED OBVIOUS
  <2> DEFINE s == sorted[m]
             k == ids[m + 1]
             p == Place(before, s, k)
             t == sorted[m + 1]
  <2>0. Ok(s, m)
    <3> HIDE DEF Ok
    <3> QED BY <1>7
  <2> HIDE DEF s
  <2>1. /\ s \in [1..m -> 1..n]
        /\ \A i \in 1..m : \E j \in 1..m : s[i] = ids[j]
        /\ \A i, j \in 1..m : s[i] = s[j] => i = j
    BY <2>0
  <2> HIDE DEF Ok
  <2>2. k \in 1..n /\ \A x \in 1..m : s[x] # k
    <3>1. m + 1 \in 1..n OBVIOUS
    <3>2. k \in 1..n BY <1>1, <3>1
    <3>3. \A j \in 1..m : ids[j] # k BY <3>1 DEF IsOrder
    <3> QED BY <2>1, <3>2, <3>3
  <2>3. t = B(m + 1, s)
    <3>1. m + 1 \in 1..n /\ (m + 1) - 1 = m OBVIOUS
    <3> QED BY <1>5, <3>1 DEF s
  <2>4. t = InsertAfter(s, p, k) BY <2>3 DEF B
  <2>6. p \in 0..m
    <3>1. Len(s) = m BY <2>1, FcnIsSeq
    <3> QED BY <3>1, PlaceType DEF p
  <2> HIDE DEF p, t
  <2>k. k = ids[m + 1] OBVIOUS
  <2> HIDE DEF k
  <2>7. t = [i \in 1..(m + 1) |-> IF i <= p THEN s[i]
                                  ELSE IF i = p + 1 THEN k ELSE s[i - 1]]
    <3>1. InsertAfter(s, p, k) = Spliced(s, m, p, k)
      <4> DEFINE S == 1..n
      <4>1. s \in [1..m -> S] /\ k \in S BY <2>1, <2>2
      <4> HIDE DEF S
      <4> QED BY <2>6, <4>1, InsertFacts
    <3> QED BY <2>4, <3>1 DEF Spliced
  <2>8. ASSUME NEW i \in 1..(m + 1)
        PROVE  \/ i = p + 1 /\ t[i] = k
               \/ \E x \in 1..m : /\ t[i] = s[x]
                                  /\ (x = i /\ i <= p) \/ (x = i - 1 /\ i > p + 1)
    <3>1. t[i] = IF i <= p THEN s[i] ELSE IF i = p + 1 THEN k ELSE s[i - 1]
      BY <2>7
    <3>2. CASE i <= p
      <4>1. i \in 1..m BY <2>6, <3>2
      <4> QED BY <3>1, <3>2, <4>1
    <3>3. CASE i = p + 1 BY <2>6, <3>1, <3>3
    <3>4. CASE i > p + 1
      <4>1. i - 1 \in 1..m /\ t[i] = s[i - 1] BY <2>6, <3>1, <3>4
      <4> QED BY <3>4, <4>1
    <3> QED BY <2>6, <3>2, <3>3, <3>4
  <2>9. t \in [1..(m + 1) -> 1..n]
    <3>1. \A i \in 1..(m + 1) : t[i] \in 1..n BY <2>1, <2>2, <2>8
    <3> QED BY <2>7, <3>1
  <2>10. ASSUME NEW i \in 1..(m + 1) PROVE \E j \in 1..(m + 1) : t[i] = ids[j]
    <3>1. CASE t[i] = k BY <2>k, <3>1
    <3>2. CASE \E x \in 1..m : t[i] = s[x]
      <4>1. PICK x \in 1..m : t[i] = s[x] BY <3>2
      <4>2. PICK j \in 1..m : s[x] = ids[j] BY <2>1
      <4> QED BY <4>1, <4>2
    <3> QED BY <2>8, <3>1, <3>2
  <2>11. ASSUME NEW i \in 1..(m + 1), NEW j \in 1..(m + 1), t[i] = t[j] PROVE i = j
    <3>1. CASE i = p + 1 /\ t[i] = k BY <2>2, <2>6, <2>8, <2>11, <3>1
    <3>2. CASE j = p + 1 /\ t[j] = k BY <2>2, <2>6, <2>8, <2>11, <3>2
    <3>3. CASE \E x, y \in 1..m :
                 /\ t[i] = s[x] /\ ((x = i /\ i <= p) \/ (x = i - 1 /\ i > p + 1))
                 /\ t[j] = s[y] /\ ((y = j /\ j <= p) \/ (y = j - 1 /\ j > p + 1))
      <4>1. PICK x \in 1..m, y \in 1..m :
              /\ t[i] = s[x] /\ ((x = i /\ i <= p) \/ (x = i - 1 /\ i > p + 1))
              /\ t[j] = s[y] /\ ((y = j /\ j <= p) \/ (y = j - 1 /\ j > p + 1))
        BY <3>3
      <4>2. x = y BY <2>1, <2>11, <4>1
      <4> QED BY <2>6, <4>1, <4>2
    <3> QED BY <2>8, <3>1, <3>2, <3>3
  <2>12. Ok(t, m + 1) BY <2>9, <2>10, <2>11 DEF Ok
  <2> QED BY <2>12 DEF t
<1>8. Ok(sorted[n], n)
  <2> HIDE DEF Ok
  <2>1. n \in T
    <3> HIDE DEF T
    <3> QED BY <1>6, <1>7, InductiveSet
  <2> QED BY <2>1
<1>9. IsOrder(n, sorted[n])
  <2> DEFINE s == sorted[n]
  <2> HIDE DEF s
  <2>1. Ok(s, n) BY <1>8 DEF s
  <2>2. IsOrder(n, s) BY <2>1 DEF IsOrder
  <2> QED BY <2>2 DEF s
<1> QED BY <1>2, <1>9

\* SortBids lists every bid of the book once.
LEMMA SortBidsOrder ==
  ASSUME NEW bids, Len(bids) \in Nat
  PROVE  IsOrder(Len(bids), SortBids(bids))
<1> DEFINE n == Len(bids)
           S == Bijection(1..n, 1..n)
<1>0. n \in Nat OBVIOUS
<1>1. CASE n <= 12
  <2>1. n \in 0..12
    <3> HIDE DEF n
    <3> QED BY <1>0, <1>1
  <2>2. IsOrder(n, ShellPass(bids)) BY <2>1, ShellPassOrder
  <2> QED BY <1>1, <2>2, InsertionSortOrder DEF SortBids
<1>2. CASE ~(n <= 12)
  <2>2. SortBids(bids) = CHOOSE order \in S : TRUE BY <1>2 DEF SortBids
  <2> HIDE DEF n
  <2>1. \E order \in S : TRUE
    <3> DEFINE id == [i \in 1..n |-> i]
    <3>1. id \in [1..n -> 1..n] /\ DOMAIN id = 1..n /\ \A i \in 1..n : id[i] = i
      OBVIOUS
    <3> HIDE DEF id
    <3>2. IsInjective(id) BY <3>1 DEF IsInjective
    <3>3. \A i \in 1..n : \E j \in 1..n : id[j] = i BY <3>1
    <3>4. id \in Injection(1..n, 1..n) BY <3>1, <3>2 DEF Injection
    <3>5. id \in Surjection(1..n, 1..n) BY <3>1, <3>3 DEF Surjection
    <3> QED BY <3>4, <3>5 DEF Bijection
  <2>3. SortBids(bids) \in S
    <3> HIDE DEF S
    <3> QED BY <2>1, <2>2
  <2> DEFINE s == SortBids(bids)
  <2> HIDE DEF s
  <2>4. s \in S BY <2>3 DEF s
  <2>5. s \in [1..n -> 1..n] /\ IsInjective(s)
    BY <2>4 DEF Bijection, Injection
  <2>6. IsOrder(n, s) BY <2>5 DEF IsInjective, IsOrder
  <2> QED BY <2>6 DEF s, n
<1> QED BY <1>1, <1>2

\* BidsByPrice lists every bid of the book once.
LEMMA BidsByPriceOrder ==
  ASSUME NEW bids, Len(bids) \in Nat
  PROVE  IsOrder(Len(bids), BidsByPrice(bids))
BY SortBidsOrder, InsertionSortOrder DEF BidsByPrice

-----------------------------------------------------------------------------
(***************************************************************************)
(* The prices of the book, and the bisection over them (keeper/match.go).  *)
(***************************************************************************)

Below(prices, p) == {q \in prices : q < p}

\* Among n prices, there is an i-th lowest one for every i below n.
LEMMA LowestPriceExists ==
  ASSUME NEW prices \in SUBSET Nat, IsFiniteSet(prices),
         NEW i \in Nat, i < Cardinality(prices)
  PROVE  \E p \in prices : Cardinality(Below(prices, p)) = i
<1> DEFINE Ok(P) == \A j \in Nat : j < Cardinality(P) =>
                      \E p \in P : Cardinality(Below(P, p)) = j
           T == {n \in Nat : \A P \in SUBSET prices : Cardinality(P) = n => Ok(P)}
<1>1. \A P \in SUBSET prices : IsFiniteSet(P) /\ Cardinality(P) \in Nat
  BY FS_Subset, FS_CardinalityType
<1>2. 0 \in T
  <2>1. \A P : Cardinality(P) = 0 => Ok(P) OBVIOUS
  <2> HIDE DEF Ok
  <2> QED BY <2>1
<1>3. ASSUME NEW n \in Nat, n \in T PROVE n + 1 \in T
  <2> SUFFICES ASSUME NEW P \in SUBSET prices, Cardinality(P) = n + 1 PROVE Ok(P)
    <3> HIDE DEF Ok
    <3> QED OBVIOUS
  <2>1. P \in SUBSET Nat /\ IsFiniteSet(P) /\ P # {}
    BY <1>1, FS_EmptySet
  <2>2. PICK m \in P : \A q \in P : m <= q BY <2>1, LeastNat
  <2> DEFINE R == P \ {m}
  <2>3. R \in SUBSET prices /\ IsFiniteSet(R) /\ Cardinality(R) = n
    <3>1. Cardinality(R) = Cardinality(P) - 1 BY <2>1, FS_RemoveElement
    <3>2. (n + 1) - 1 = n OBVIOUS
    <3> QED BY <1>1, <3>1, <3>2
  <2>4. Ok(R)
    <3> HIDE DEF Ok, R
    <3> QED BY <1>3, <2>3
  <2> SUFFICES ASSUME NEW j \in Nat, j < Cardinality(P)
               PROVE  \E p \in P : Cardinality(Below(P, p)) = j
    OBVIOUS
  <2>5. CASE j = 0
    <3>1. Below(P, m) = {}
      <4>1. \A q \in P : ~(q < m) BY <2>1, <2>2
      <4> QED BY <4>1 DEF Below
    <3> QED BY <2>2, <2>5, <3>1, FS_EmptySet
  <2>6. CASE j # 0
    <3>1. j - 1 \in Nat /\ j - 1 < Cardinality(R) BY <2>3, <2>6
    <3>2. PICK p \in R : Cardinality(Below(R, p)) = j - 1 BY <2>4, <3>1
    <3>3. Below(P, p) = Below(R, p) \cup {m} /\ m \notin Below(R, p)
      BY <2>1, <2>2, <3>2 DEF Below
    <3>4. IsFiniteSet(Below(R, p))
      <4>1. Below(R, p) \in SUBSET R BY DEF Below
      <4> QED BY <2>3, <4>1, FS_Subset
    <3>5. Cardinality(Below(P, p)) = Cardinality(Below(R, p)) + 1
      BY <3>3, <3>4, FS_AddElement
    <3> QED BY <3>2, <3>5
  <2> QED BY <2>5, <2>6
<1>4. Cardinality(prices) \in T
  <2>1. Cardinality(prices) \in Nat BY <1>1
  <2> HIDE DEF T
  <2> QED BY <1>2, <1>3, <2>1, InductiveSet
<1>5. Ok(prices)
  <2> HIDE DEF Ok
  <2> QED BY <1>4
<1> QED BY <1>5

\* The i-th lowest price is one of the prices.
LEMMA LowestPriceType ==
  ASSUME NEW prices \in SUBSET Nat, IsFiniteSet(prices),
         NEW i \in Nat, i < Cardinality(prices)
  PROVE  /\ LowestPrice(prices, i) \in prices
         /\ Cardinality(Below(prices, LowestPrice(prices, i))) = i
<1> DEFINE Q(p) == Cardinality(Below(prices, p)) = i
<1>1. \E p \in prices : Q(p) BY LowestPriceExists
<1>2. LowestPrice(prices, i) = CHOOSE p \in prices : Q(p)
  BY DEF LowestPrice, Below
<1>3. LowestPrice(prices, i) \in prices /\ Q(LowestPrice(prices, i))
  <2> HIDE DEF Q
  <2> QED BY <1>1, <1>2
<1> QED BY <1>3

\* The prices of a book are finitely many.
LEMMA BidPricesType ==
  ASSUME NEW bids, Len(bids) \in Nat, \A k \in 1..Len(bids) : bids[k].price \in Nat
  PROVE  /\ BidPrices(bids) \in SUBSET Nat
         /\ IsFiniteSet(BidPrices(bids))
         /\ Cardinality(BidPrices(bids)) \in Nat
         /\ \A p \in BidPrices(bids) : \E k \in 1..Len(bids) : p = bids[k].price
<1> DEFINE n == Len(bids)
           f == [k \in 1..n |-> bids[k].price]
           P == BidPrices(bids)
<1>1. P \in SUBSET Nat BY DEF BidPrices
<1>2. \A p \in P : \E k \in 1..n : p = bids[k].price BY DEF BidPrices
<1>3. f \in Surjection(1..n, P)
  <2>1. f \in [1..n -> P] BY DEF BidPrices
  <2>2. \A p \in P : \E k \in 1..n : f[k] = p BY <1>2
  <2> QED BY <2>1, <2>2 DEF Surjection
<1>4. IsFiniteSet(1..n) BY FS_Interval
<1>5. IsFiniteSet(P)
  <2> HIDE DEF P, f
  <2> QED BY <1>3, <1>4, FS_Surjection
<1> QED BY <1>1, <1>2, <1>5, FS_CardinalityType

\* The range of indices that the bisection of n indices has left: the index before
\* it is false, the index at its end is true, and m iterations make it smaller.
RangeOK(n, ok, r, m) ==
  /\ r \in [i : 0..n, j : 0..n]
  /\ r.i <= r.j
  /\ r.i > 0 => ~ok[r.i - 1]
  /\ r.j < n => ok[r.j]
  /\ r.j - r.i <= m

\* One iteration of sort.Search.
LEMMA HalveFacts ==
  ASSUME NEW n \in Nat, NEW ok, NEW r, NEW m \in Nat, RangeOK(n, ok, r, m)
  PROVE  RangeOK(n, ok, Halve(r, ok), IF m > 0 THEN m - 1 ELSE 0)
<1> DEFINE h == (r.i + r.j) \div 2
           s == Halve(r, ok)
<1>1. /\ r \in [i : 0..n, j : 0..n] /\ r.i <= r.j /\ r.j - r.i <= m
      /\ r.i > 0 => ~ok[r.i - 1]
      /\ r.j < n => ok[r.j]
  BY DEF RangeOK
<1>2. CASE r.i >= r.j
  <2>1. s = r BY <1>2 DEF Halve
  <2>2. r.j - r.i <= 0 BY <1>1, <1>2
  <2> QED BY <1>1, <2>1, <2>2 DEF RangeOK
<1>3. CASE ~(r.i >= r.j)
  <2>1. h \in r.i..(r.j - 1) BY <1>1, <1>3
  <2> HIDE DEF h
  <2>2. CASE ok[h]
    <3>1. s = [r EXCEPT !.j = h] BY <1>3, <2>2 DEF Halve, h
    <3>2. s \in [i : 0..n, j : 0..n] /\ s.i = r.i /\ s.j = h BY <1>1, <2>1, <3>1
    <3> HIDE DEF s
    <3>3. s.i <= s.j /\ s.j - s.i <= (IF m > 0 THEN m - 1 ELSE 0)
      BY <1>1, <2>1, <3>2
    <3>4. (s.i > 0 => ~ok[s.i - 1]) /\ (s.j < n => ok[s.j]) BY <1>1, <2>2, <3>2
    <3> QED BY <3>2, <3>3, <3>4 DEF RangeOK, s
  <2>3. CASE ~ok[h]
    <3>1. s = [r EXCEPT !.i = h + 1] BY <1>3, <2>3 DEF Halve, h
    <3>2. s \in [i : 0..n, j : 0..n] /\ s.i = h + 1 /\ s.j = r.j
      BY <1>1, <2>1, <3>1
    <3> HIDE DEF s
    <3>3. s.i <= s.j /\ s.j - s.i <= (IF m > 0 THEN m - 1 ELSE 0)
      BY <1>1, <2>1, <3>2
    <3>4. s.i - 1 = h BY <2>1, <3>2
    <3>5. (s.i > 0 => ~ok[s.i - 1]) /\ (s.j < n => ok[s.j])
      BY <1>1, <2>3, <3>2, <3>4
    <3> QED BY <3>2, <3>3, <3>5 DEF RangeOK, s
  <2> QED BY <2>2, <2>3
<1> QED BY <1>2, <1>3

\* sort.Search: the index that the bisection finds is true unless it is past the
\* last, and the index before it is false, whether or not ok is monotone.
LEMMA SearchFacts ==
  ASSUME NEW n \in Nat, NEW ok
  PROVE  /\ Search(n, ok) \in 0..n
         /\ Search(n, ok) < n => ok[Search(n, ok)]
         /\ Search(n, ok) > 0 => ~ok[Search(n, ok) - 1]
<1> DEFINE r0 == [i |-> 0, j |-> n]
           E(s, N) == s = [k \in 0..N |-> IF k = 0 THEN r0 ELSE Halve(s[k - 1], ok)]
           range == CHOOSE s : E(s, n)
<1>1. Search(n, ok) = range[n].i BY DEF Search
<1>2. RangeOK(n, ok, r0, n) BY DEF RangeOK
<1> HIDE DEF r0
<1>3. \E s : E(s, n)
  <2> DEFINE T == {N \in Nat : \E s : E(s, N)}
  <2>1. 0 \in T
    <3> DEFINE s == [k \in 0..0 |-> r0]
    <3>1. E(s, 0) OBVIOUS
    <3> QED BY <3>1
  <2>2. ASSUME NEW N \in Nat, N \in T PROVE N + 1 \in T
    <3>1. PICK s : E(s, N) BY <2>2
    <3> DEFINE t == [k \in 0..(N + 1) |-> IF k <= N THEN s[k] ELSE Halve(s[N], ok)]
    <3>2. ASSUME NEW k \in 0..(N + 1)
          PROVE  t[k] = IF k = 0 THEN r0 ELSE Halve(t[k - 1], ok)
      <4>1. CASE k = 0 BY <3>1, <4>1
      <4>2. CASE k # 0 /\ k <= N BY <3>1, <4>2
      <4>3. CASE k = N + 1 BY <3>1, <4>3
      <4> QED BY <4>1, <4>2, <4>3
    <3>3. E(t, N + 1) BY <3>2
    <3> HIDE DEF E
    <3> QED BY <3>3
  <2> HIDE DEF T
  <2>3. n \in T BY <2>1, <2>2, InductiveSet
  <2> QED BY <2>3 DEF T
<1>4. E(range, n)
  <2> HIDE DEF E
  <2> QED BY <1>3
<1> HIDE DEF range
<1>5. range[0] = r0 /\ \A k \in 1..n : range[k] = Halve(range[k - 1], ok)
  <2>1. \A k \in 0..n : range[k] = IF k = 0 THEN r0 ELSE Halve(range[k - 1], ok)
    BY <1>4
  <2> QED BY <2>1
<1> DEFINE T == {k \in Nat : k <= n => RangeOK(n, ok, range[k], n - k)}
<1>6. 0 \in T
  <2>1. n - 0 = n OBVIOUS
  <2> QED BY <1>2, <1>5, <2>1
<1>7. ASSUME NEW k \in Nat, k \in T PROVE k + 1 \in T
  <2> SUFFICES ASSUME k + 1 <= n PROVE RangeOK(n, ok, range[k + 1], n - (k + 1))
    OBVIOUS
  <2>1. RangeOK(n, ok, range[k], n - k) /\ n - k \in Nat /\ n - k > 0 BY <1>7
  <2>2. RangeOK(n, ok, Halve(range[k], ok),
                IF n - k > 0 THEN (n - k) - 1 ELSE 0)
    BY <2>1, HalveFacts
  <2>3. range[k + 1] = Halve(range[k], ok)
    <3>1. k + 1 \in 1..n /\ (k + 1) - 1 = k OBVIOUS
    <3> QED BY <1>5, <3>1
  <2>4. (IF n - k > 0 THEN (n - k) - 1 ELSE 0) = n - (k + 1) BY <2>1
  <2> QED BY <2>2, <2>3, <2>4
<1>8. n \in T
  <2> HIDE DEF T
  <2> QED BY <1>6, <1>7, InductiveSet
<1> DEFINE r == range[n]
<1>9. RangeOK(n, ok, r, 0)
  <2>1. n - n = 0 OBVIOUS
  <2> QED BY <1>8, <2>1
<1>10. Search(n, ok) = r.i BY <1>1
<1> HIDE DEF r
<1>11. r.i \in 0..n /\ r.j = r.i BY <1>9 DEF RangeOK
<1>12. (r.i < n => ok[r.i]) /\ (r.i > 0 => ~ok[r.i - 1])
  BY <1>9, <1>11 DEF RangeOK
<1> QED BY <1>10, <1>11, <1>12

-----------------------------------------------------------------------------
(***************************************************************************)
(* One bid of the loop: what it is given and what it is charged.           *)
(***************************************************************************)

\* A bid as the handlers store it: a worth bid is in paying coin.
ValidBid(bid, U, denom) ==
  /\ bid.bidder \in U
  /\ bid.price \in Nat \ {0}
  /\ bid.amount \in Nat
  /\ bid.type = "BatchWorth" <=> bid.denom = denom

\* Quotient and product.
LEMMA DivBounds ==
  ASSUME NEW a \in Nat, NEW b \in Nat \ {0}
  PROVE  /\ a \div b \in Nat
         /\ (a \div b) * b <= a
         /\ a <= (a \div b) * b + (b - 1)
<1> DEFINE q == a \div b
           r == a % b
<1>1. q \in Nat BY DivIsNat
<1>2. a = b * q + r /\ r \in 0..(b - 1) OBVIOUS
<1> HIDE DEF q, r
<1>3. b * q = q * b /\ q * b \in Nat BY <1>1
<1> DEFINE x == q * b
<1>4. a = x + r /\ x \in Nat BY <1>2, <1>3
<1>5. x <= a /\ a <= x + (b - 1)
  <2> HIDE DEF x
  <2> QED BY <1>2, <1>4
<1> QED BY <1>1, <1>5 DEF q

\* Products keep the order.
LEMMA ProductMonotone ==
  ASSUME NEW a \in Nat, NEW b \in Nat, NEW c \in Nat, a <= b
  PROVE  a * c <= b * c /\ a * c \in Nat /\ b * c \in Nat
<1>1. PICK d \in Nat : b = a + d
  <2>1. b - a \in Nat /\ b = a + (b - a) OBVIOUS
  <2> QED BY <2>1
<1>2. b * c = a * c + d * c /\ d * c \in Nat /\ a * c \in Nat BY <1>1
<1> DEFINE x == a * c
           y == b * c
           z == d * c
<1>3. y = x + z /\ z \in Nat /\ x \in Nat BY <1>2
<1>4. x <= y /\ x \in Nat /\ y \in Nat
  <2> HIDE DEF x, y, z
  <2> QED BY <1>3
<1> QED BY <1>4

\* A payment covers the price of what is bought, to less than one coin
\* (types/match.go: payingAmt), and nothing is paid for nothing.
LEMMA PaymentBounds ==
  ASSUME NEW m \in Nat, NEW p \in Nat
  PROVE  /\ PayingAmount(m, p) \in Nat
         /\ m * p <= PayingAmount(m, p) * ONE
         /\ PayingAmount(m, p) * ONE <= m * p + (ONE - 1)
         /\ m = 0 => PayingAmount(m, p) = 0
<1> DEFINE x == m * p
           y == PayingAmount(m, p)
<1>1. x \in Nat /\ ONE \in Nat \ {0} BY OneAssumption
<1>2. y = (x + ONE - 1) \div ONE BY DEF PayingAmount, MulCeilInt
<1>5. m = 0 => x = 0 OBVIOUS
<1> HIDE DEF x, y
<1>3. x + ONE - 1 \in Nat BY <1>1
<1>4. y \in Nat /\ y * ONE <= x + ONE - 1 /\ x + ONE - 1 <= y * ONE + (ONE - 1)
  BY <1>1, <1>2, <1>3, DivBounds
<1> DEFINE z == y * ONE
<1>6. z \in Nat BY <1>1, <1>4
<1>7. z <= x + ONE - 1 /\ x + ONE - 1 <= z + (ONE - 1) BY <1>4
<1>8. x <= z /\ z <= x + (ONE - 1)
  <2> HIDE DEF z
  <2> QED BY <1>1, <1>6, <1>7
<1>9. m = 0 => y = 0 BY <1>1, <1>2, <1>5
<1> QED BY <1>4, <1>8, <1>9 DEF x, y

\* What a bid can be given at the matching price.
LEMMA MatchAmountFacts ==
  ASSUME NEW U, NEW denom, NEW bid, ValidBid(bid, U, denom),
         NEW p \in Nat \ {0}, NEW acc, NEW maxBid,
         acc.allocation[bid.bidder] \in Nat, maxBid[bid.bidder] \in Nat,
         acc.allocation[bid.bidder] <= maxBid[bid.bidder]
  PROVE  /\ BidAmount(bid, p) \in Nat
         /\ MatchAmount(acc, bid, p, maxBid) \in Nat
         /\ MatchAmount(acc, bid, p, maxBid) <= BidAmount(bid, p)
         /\ acc.allocation[bid.bidder] + MatchAmount(acc, bid, p, maxBid)
              <= maxBid[bid.bidder]
         /\ MatchAmount(acc, bid, p, maxBid) < BidAmount(bid, p) =>
              acc.allocation[bid.bidder] + MatchAmount(acc, bid, p, maxBid)
                = maxBid[bid.bidder]
<1> DEFINE a == acc.allocation[bid.bidder]
           c == maxBid[bid.bidder]
           b == BidAmount(bid, p)
           m == MatchAmount(acc, bid, p, maxBid)
<1>1. b \in Nat
  <2>1. bid.amount \in Nat BY DEF ValidBid
  <2>p. p \in Nat /\ p > 0 OBVIOUS
  <2>2. QuoTruncateInt(bid.amount, p) \in Nat BY <2>1, <2>p, DecTypes
  <2> QED BY <2>1, <2>2 DEF BidAmount
<1>2. m = IF b < c - a THEN b ELSE c - a BY DEF MatchAmount, MinInt
<1>3. a \in Nat /\ c \in Nat /\ a <= c OBVIOUS
<1> HIDE DEF a, b, c, m
<1>4. m \in Nat /\ m <= b /\ a + m <= c /\ (m < b => a + m = c) BY <1>1, <1>2, <1>3
<1> QED BY <1>1, <1>4 DEF a, b, c, m

\* A bidder is charged no more for a bid than it reserved, because the matching
\* price is not above the price of the bid.
LEMMA PaymentIsReserved ==
  ASSUME NEW U, NEW denom, NEW bid, ValidBid(bid, U, denom),
         NEW p \in Nat \ {0}, p <= bid.price,
         NEW m \in Nat, m <= BidAmount(bid, p)
  PROVE  /\ ConvertToPayingAmount(bid, denom) \in Nat
         /\ PayingAmount(m, p) <= ConvertToPayingAmount(bid, denom)
<1>0. bid.amount \in Nat /\ bid.price \in Nat BY DEF ValidBid
<1>1. CASE bid.denom = denom
  <2> DEFINE a == bid.amount
             q == BidAmount(bid, p)
             y == PayingAmount(m, p)
  <2>1. q = (a * ONE) \div p BY <1>1 DEF ValidBid, BidAmount, QuoTruncateInt
  <2>2. a * ONE \in Nat BY <1>0, OneAssumption
  <2>3. q \in Nat /\ q * p <= a * ONE
    <3> DEFINE x == a * ONE
    <3>1. x \in Nat /\ q = x \div p BY <2>1, <2>2
    <3> HIDE DEF x, q
    <3>2. q \in Nat /\ q * p <= x BY <3>1, DivBounds
    <3> QED BY <3>2 DEF x
  <2>4. m <= q OBVIOUS
  <2> HIDE DEF q
  <2>5. m * p <= q * p /\ m * p \in Nat /\ q * p \in Nat
    BY <2>3, <2>4, ProductMonotone
  <2>6. y \in Nat /\ y * ONE <= m * p + (ONE - 1) BY PaymentBounds
  <2>7. y <= a
    <3> SUFFICES ASSUME a + 1 <= y PROVE FALSE BY <1>0, <2>6
    <3>1. (a + 1) * ONE <= y * ONE /\ (a + 1) * ONE \in Nat /\ y * ONE \in Nat
      BY <1>0, <2>6, OneAssumption, ProductMonotone
    <3>2. (a + 1) * ONE = a * ONE + ONE BY <1>0, OneAssumption
    <3> DEFINE x1 == a * ONE
               x2 == m * p
               x3 == q * p
               x4 == y * ONE
    <3>3. /\ x1 \in Nat /\ x2 \in Nat /\ x3 \in Nat /\ x4 \in Nat
          /\ x1 + ONE <= x4 /\ x4 <= x2 + (ONE - 1) /\ x2 <= x3 /\ x3 <= x1
      BY <2>2, <2>3, <2>5, <2>6, <3>1, <3>2
    <3> HIDE DEF x1, x2, x3, x4
    <3> QED BY <3>3, OneAssumption
  <2>8. ConvertToPayingAmount(bid, denom) = a BY <1>1 DEF ConvertToPayingAmount
  <2> QED BY <1>0, <2>7, <2>8
<1>2. CASE bid.denom # denom
  <2>1. BidAmount(bid, p) = bid.amount BY <1>2 DEF ValidBid, BidAmount
  <2>2. ConvertToPayingAmount(bid, denom) = MulCeilInt(bid.amount, bid.price)
    BY <1>2 DEF ConvertToPayingAmount
  <2>3. MulCeilInt(m, p) <= MulCeilInt(bid.amount, bid.price)
    BY <1>0, <2>1, MulCeilMonotone
  <2>4. MulCeilInt(bid.amount, bid.price) \in Nat BY <1>0, DecTypes
  <2> QED BY <2>2, <2>3, <2>4 DEF PayingAmount
<1> QED BY <1>1, <1>2

-----------------------------------------------------------------------------
(***************************************************************************)
(* The loop of Match (types/match.go).                                     *)
(***************************************************************************)

\* What Match is given.
MatchInput(bids, denom, sellingAmt, maxBid) ==
  /\ Len(bids) \in Nat
  /\ IsFiniteSet(DOMAIN maxBid)
  /\ maxBid \in [DOMAIN maxBid -> Nat]
  /\ \A k \in 1..Len(bids) : ValidBid(bids[k], DOMAIN maxBid, denom)
  /\ sellingAmt \in Nat

Accumulator(n, U) ==
  [fits : BOOLEAN, price : Nat, amount : Nat, matchedBids : SUBSET (1..n),
   allocation : [U -> Nat], paying : [U -> Nat]]

MatchedOf(bids, M, u) == {k \in M : bids[k].bidder = u}

\* What the bids of u in M reserved, one by one and together.
CostsOf(bids, M, u, denom) ==
  [k \in 1..Len(bids) |->
     IF bids[k].bidder = u /\ k \in M
       THEN ConvertToPayingAmount(bids[k], denom) ELSE 0]

MatchedCost(bids, M, u, denom) == SumTo(Len(bids), CostsOf(bids, M, u, denom))

\* What the loop keeps for every bidder: the allocation respects MaxBidAmount, the
\* payment is covered by what the matched bids reserved and differs from the
\* price of the allocation by less than one coin per matched bid.
BidderOK(acc, u, p, bids, denom, maxBid) ==
  /\ acc.allocation[u] <= maxBid[u]
  /\ acc.paying[u] <= MatchedCost(bids, acc.matchedBids, u, denom)
  /\ acc.allocation[u] * p <= acc.paying[u] * ONE
  /\ acc.paying[u] * ONE <=
       acc.allocation[u] * p
         + Cardinality(MatchedOf(bids, acc.matchedBids, u)) * (ONE - 1)

\* What the loop keeps: all allocations together are the matched amount, which is
\* within the selling amount.
AccOK(acc, p, bids, denom, sellingAmt, maxBid) ==
  /\ acc \in Accumulator(Len(bids), DOMAIN maxBid)
  /\ acc.price = p
  /\ acc.amount <= sellingAmt
  /\ SumFunctionOnSet(acc.allocation, DOMAIN maxBid) = acc.amount
  /\ acc.matchedBids # {} => acc.amount > 0
  /\ \A u \in DOMAIN maxBid : BidderOK(acc, u, p, bids, denom, maxBid)

\* The reserved coin of the matched bids is a number.
LEMMA MatchedCostType ==
  ASSUME NEW bids, NEW denom, NEW sellingAmt, NEW maxBid,
         MatchInput(bids, denom, sellingAmt, maxBid), NEW M, NEW u
  PROVE  /\ Summable(Len(bids), CostsOf(bids, M, u, denom))
         /\ MatchedCost(bids, M, u, denom) \in Nat
<1> DEFINE n == Len(bids)
           f == CostsOf(bids, M, u, denom)
<1>1. ASSUME NEW k \in 1..n PROVE f[k] \in Nat
  <2>1. bids[k].price \in Nat /\ bids[k].amount \in Nat
    BY DEF MatchInput, ValidBid
  <2>2. ConvertToPayingAmount(bids[k], denom) \in Nat
    BY <2>1, DecTypes DEF ConvertToPayingAmount
  <2> QED BY <2>2 DEF CostsOf
<1>2. n \in Nat BY DEF MatchInput
<1> HIDE DEF f
<1>3. Summable(n, f) /\ SumTo(n, f) \in Nat BY <1>1, <1>2, SumNat
<1> QED BY <1>3 DEF MatchedCost, f

\* One more matched bid adds what it reserved, to its bidder only.
LEMMA MatchedCostAdd ==
  ASSUME NEW bids, NEW denom, NEW sellingAmt, NEW maxBid,
         MatchInput(bids, denom, sellingAmt, maxBid),
         NEW M, NEW u, NEW k \in 1..Len(bids), k \notin M
  PROVE  MatchedCost(bids, M \cup {k}, u, denom) =
           MatchedCost(bids, M, u, denom)
             + (IF bids[k].bidder = u THEN ConvertToPayingAmount(bids[k], denom)
                ELSE 0)
<1> DEFINE n == Len(bids)
           f == CostsOf(bids, M, u, denom)
           g == CostsOf(bids, M \cup {k}, u, denom)
<1>1. Summable(n, f) /\ Summable(n, g) BY MatchedCostType
<1>2. \A j \in (1..n) \ {k} : g[j] = f[j] BY DEF CostsOf
<1>3. /\ f[k] = 0
      /\ g[k] = IF bids[k].bidder = u THEN ConvertToPayingAmount(bids[k], denom)
                ELSE 0
  BY DEF CostsOf
<1>4. n \in Nat BY DEF MatchInput
<1>5. SumTo(n, f) = MatchedCost(bids, M, u, denom)
      /\ SumTo(n, g) = MatchedCost(bids, M \cup {k}, u, denom)
  BY DEF MatchedCost
<1>6. g[k] \in Int BY <1>1 DEF Summable
<1> HIDE DEF f, g
<1>7. SumTo(n, g) = SumTo(n, f) + (g[k] - f[k]) BY <1>1, <1>2, <1>4, SumChange
<1>8. g[k] - f[k] = g[k] BY <1>3, <1>6
<1> QED BY <1>3, <1>5, <1>7, <1>8

\* Nothing is allocated and nothing is paid.
NothingMatched(acc, n, U) ==
  /\ acc \in Accumulator(n, U)
  /\ acc.amount = 0
  /\ acc.matchedBids = {}
  /\ \A u \in U : acc.allocation[u] = 0 /\ acc.paying[u] = 0

\* The loop starts with nothing.
LEMMA AccInit ==
  ASSUME NEW bids, NEW denom, NEW sellingAmt, NEW maxBid,
         MatchInput(bids, denom, sellingAmt, maxBid), NEW p \in Nat, NEW acc,
         NothingMatched(acc, Len(bids), DOMAIN maxBid), acc.price = p
  PROVE  AccOK(acc, p, bids, denom, sellingAmt, maxBid)
<1> DEFINE U == DOMAIN maxBid
<1>1. /\ acc \in Accumulator(Len(bids), U)
      /\ acc.price = p
      /\ acc.amount = 0
      /\ acc.matchedBids = {}
      /\ \A u \in U : acc.allocation[u] = 0 /\ acc.paying[u] = 0
  BY DEF NothingMatched
<1>2. SumFunctionOnSet(acc.allocation, U) = 0
  BY <1>1, SetSumZero DEF MatchInput
<1>3. ASSUME NEW u \in U PROVE BidderOK(acc, u, p, bids, denom, maxBid)
  <2>1. MatchedCost(bids, acc.matchedBids, u, denom) \in Nat BY MatchedCostType
  <2>2. MatchedOf(bids, acc.matchedBids, u) = {} BY <1>1 DEF MatchedOf
  <2>3. Cardinality(MatchedOf(bids, acc.matchedBids, u)) = 0
    BY <2>2, FS_EmptySet
  <2>4. maxBid[u] \in Nat BY DEF MatchInput
  <2>5. 0 * p = 0 /\ 0 * ONE = 0 /\ 0 * (ONE - 1) = 0 BY OneAssumption
  <2> QED BY <1>1, <2>1, <2>3, <2>4, <2>5 DEF BidderOK
<1> QED BY <1>1, <1>2, <1>3 DEF AccOK, MatchInput

\* The map f in which the entry of w has grown by m.
Added(f, w, m) == [f EXCEPT ![w] = f[w] + m]

\* The accumulator new is acc with the bid k of w, which is given m.
Takes(acc, new, n, U, k, w, m, p) ==
  /\ new \in Accumulator(n, U)
  /\ new.fits /\ new.price = acc.price
  /\ new.amount = acc.amount + m
  /\ new.allocation = Added(acc.allocation, w, m)
  /\ new.paying = Added(acc.paying, w, PayingAmount(m, p))
  /\ new.matchedBids = IF m > 0 THEN acc.matchedBids \cup {k}
                       ELSE acc.matchedBids

\* The fields that one iteration changes when the bid fits.
LEMMA MatchStepFields ==
  ASSUME NEW n \in Nat, NEW U, NEW acc \in Accumulator(n, U), NEW k \in 1..n,
         NEW w \in U, NEW m \in Nat, NEW p \in Nat, NEW sellingAmt \in Nat,
         NEW new, new = MatchStep(acc, k, w, m, p, sellingAmt),
         acc.fits, acc.amount + m <= sellingAmt
  PROVE  Takes(acc, new, n, U, k, w, m, p)
<1> DEFINE pay == PayingAmount(m, p)
           a == [acc.allocation EXCEPT ![w] = acc.allocation[w] + m]
           y == [acc.paying EXCEPT ![w] = acc.paying[w] + pay]
           M == IF m > 0 THEN acc.matchedBids \cup {k} ELSE acc.matchedBids
<1>1. pay \in Nat BY PaymentBounds
<1>2. acc.amount \in Nat BY DEF Accumulator
<1>3. ~Exceeds(acc, m, sellingAmt) BY <1>2 DEF Exceeds
<1>4. new = [acc EXCEPT !.amount = acc.amount + m, !.allocation = a,
                        !.paying = y, !.matchedBids = M]
  BY <1>3 DEF MatchStep, Accumulator
<1> HIDE DEF pay
<1>5. /\ a \in [U -> Nat] /\ y \in [U -> Nat] /\ M \in SUBSET (1..n)
      /\ acc.amount + m \in Nat
  BY <1>1, <1>2 DEF Accumulator
<1> HIDE DEF a, y, M
<1>6. /\ new \in Accumulator(n, U)
      /\ new.fits /\ new.price = acc.price
      /\ new.amount = acc.amount + m
      /\ new.allocation = a /\ new.paying = y /\ new.matchedBids = M
  BY <1>4, <1>5 DEF Accumulator
<1> QED BY <1>6 DEF a, y, M, pay, Added, Takes

\* The bidder of a matched bid, after the iteration that matched it.
LEMMA BidderStep ==
  ASSUME NEW alloc \in Nat, NEW paid \in Nat, NEW count \in Nat,
         NEW p \in Nat, NEW m \in Nat,
         alloc * p <= paid * ONE,
         paid * ONE <= alloc * p + count * (ONE - 1)
  PROVE  /\ (alloc + m) * p <= (paid + PayingAmount(m, p)) * ONE
         /\ (paid + PayingAmount(m, p)) * ONE <=
              (alloc + m) * p + (IF m > 0 THEN count + 1 ELSE count) * (ONE - 1)
<1> DEFINE pay == PayingAmount(m, p)
           o == ONE - 1
           c == IF m > 0 THEN count + 1 ELSE count
<1>1. /\ pay \in Nat /\ m * p <= pay * ONE /\ pay * ONE <= m * p + o
      /\ m = 0 => pay = 0
  BY PaymentBounds
<1>2. ONE \in Nat /\ o \in Nat /\ c \in Nat BY OneAssumption
<1>o. ONE - 1 = o OBVIOUS
<1> HIDE DEF pay, o
<1>3. /\ (alloc + m) * p = alloc * p + m * p
      /\ (paid + pay) * ONE = paid * ONE + pay * ONE
  BY <1>1, <1>2
<1>4. (count + 1) * o = count * o + o BY <1>2
<1> DEFINE x1 == alloc * p
           x2 == m * p
           x3 == paid * ONE
           x4 == pay * ONE
           x5 == count * o
<1>5. x1 \in Nat /\ x2 \in Nat /\ x3 \in Nat /\ x4 \in Nat /\ x5 \in Nat
  BY <1>1, <1>2
<1>6. x1 <= x3 /\ x3 <= x1 + x5 /\ x2 <= x4 /\ x4 <= x2 + o BY <1>1, <1>o
<1>7. m = 0 => x2 = 0 /\ x4 = 0 BY <1>1, <1>2
<1> HIDE DEF x1, x2, x3, x4, x5
<1>8. x1 + x2 <= x3 + x4 BY <1>5, <1>6
<1>9. m > 0 => x3 + x4 <= x1 + x2 + (x5 + o) BY <1>2, <1>5, <1>6
<1>10. ~(m > 0) => x3 + x4 <= x1 + x2 + x5 BY <1>5, <1>6, <1>7
<1>11. c * o = IF m > 0 THEN x5 + o ELSE x5 BY <1>4 DEF x5
<1>12. x3 + x4 <= x1 + x2 + c * o
  <2> HIDE DEF c
  <2>1. CASE m > 0 BY <1>9, <1>11, <2>1
  <2>2. CASE ~(m > 0) BY <1>10, <1>11, <2>2
  <2> QED BY <2>1, <2>2
<1> QED BY <1>3, <1>8, <1>12, <1>o DEF pay, x1, x2, x3, x4

\* An iteration keeps what the loop keeps.
LEMMA AccStep ==
  ASSUME NEW bids, NEW denom, NEW sellingAmt, NEW maxBid,
         MatchInput(bids, denom, sellingAmt, maxBid),
         NEW p \in Nat \ {0}, NEW acc,
         AccOK(acc, p, bids, denom, sellingAmt, maxBid),
         NEW k \in 1..Len(bids), k \notin acc.matchedBids, p <= bids[k].price,
         NEW new, new = MatchStep(acc, k, bids[k].bidder,
                                  MatchAmount(acc, bids[k], p, maxBid), p,
                                  sellingAmt)
  PROVE  /\ AccOK(new, p, bids, denom, sellingAmt, maxBid)
         /\ new.matchedBids \subseteq acc.matchedBids \cup {k}
<1> DEFINE n == Len(bids)
           U == DOMAIN maxBid
           w == bids[k].bidder
           m == MatchAmount(acc, bids[k], p, maxBid)
           pay == PayingAmount(m, p)
           M == acc.matchedBids
<1>1. /\ n \in Nat /\ IsFiniteSet(U) /\ maxBid \in [U -> Nat]
      /\ sellingAmt \in Nat /\ ValidBid(bids[k], U, denom) /\ w \in U
  BY DEF MatchInput, ValidBid
<1>2. /\ acc \in Accumulator(n, U) /\ acc.price = p /\ acc.amount <= sellingAmt
      /\ SumFunctionOnSet(acc.allocation, U) = acc.amount
      /\ M # {} => acc.amount > 0
      /\ \A u \in U : BidderOK(acc, u, p, bids, denom, maxBid)
  BY DEF AccOK
<1>3. acc.amount \in Nat /\ acc.allocation \in [U -> Nat] /\ acc.paying \in [U -> Nat]
      /\ acc.fits \in BOOLEAN /\ M \in SUBSET (1..n)
  BY <1>2 DEF Accumulator
<1>4. /\ m \in Nat /\ m <= BidAmount(bids[k], p)
      /\ acc.allocation[w] + m <= maxBid[w]
  <2>1. acc.allocation[w] \in Nat /\ maxBid[w] \in Nat /\ acc.allocation[w] <= maxBid[w]
    BY <1>1, <1>2, <1>3 DEF BidderOK
  <2> QED BY <1>1, <2>1, MatchAmountFacts
<1>5. CASE ~acc.fits \/ Exceeds(acc, m, sellingAmt)
  <2>1. new = [acc EXCEPT !.fits = FALSE] BY <1>5 DEF MatchStep
  <2>2. /\ new \in Accumulator(n, U) /\ new.price = acc.price
        /\ new.amount = acc.amount /\ new.matchedBids = M
        /\ new.allocation = acc.allocation /\ new.paying = acc.paying
    BY <1>2, <2>1 DEF Accumulator
  <2>3. \A u \in U : BidderOK(new, u, p, bids, denom, maxBid)
    BY <1>2, <2>2 DEF BidderOK
  <2> QED BY <1>2, <2>2, <2>3 DEF AccOK
<1>6. CASE acc.fits /\ ~Exceeds(acc, m, sellingAmt)
  <2>1. acc.amount + m <= sellingAmt BY <1>1, <1>3, <1>4, <1>6 DEF Exceeds
  <2>2. /\ new \in Accumulator(n, U)
        /\ new.price = acc.price
        /\ new.amount = acc.amount + m
        /\ new.allocation = [acc.allocation EXCEPT ![w] = acc.allocation[w] + m]
        /\ new.paying = [acc.paying EXCEPT ![w] = acc.paying[w] + pay]
        /\ new.matchedBids = IF m > 0 THEN M \cup {k} ELSE M
    <3>1. new = MatchStep(acc, k, w, m, p, sellingAmt) OBVIOUS
    <3>2. p \in Nat /\ k \in 1..n OBVIOUS
    <3> HIDE DEF m, w, n, U
    <3>f. acc.fits BY <1>6
    <3>3. Takes(acc, new, n, U, k, w, m, p)
      BY <1>1, <1>2, <1>4, <2>1, <3>1, <3>2, <3>f, MatchStepFields
    <3> QED BY <3>3 DEF Added, Takes
  <2>3. pay \in Nat /\ (m = 0 => pay = 0) /\ pay <= ConvertToPayingAmount(bids[k], denom)
        /\ ConvertToPayingAmount(bids[k], denom) \in Nat
    <3>1. p \in Nat OBVIOUS
    <3>2. pay \in Nat /\ (m = 0 => pay = 0) BY <1>4, <3>1, PaymentBounds
    <3> QED BY <1>1, <1>4, <3>2, PaymentIsReserved
  <2> HIDE DEF m, w, n, U, M, pay
  <2>4. SumFunctionOnSet(new.allocation, U) = new.amount
    <3> DEFINE f == acc.allocation
               g == new.allocation
    <3>1. SummableOn(U, f) BY <1>3 DEF SummableOn
    <3>2. g[w] = f[w] + m /\ f[w] \in Nat /\ \A x \in U \ {w} : g[x] = f[x]
      BY <1>1, <1>3, <2>2
    <3> HIDE DEF f, g
    <3>3. SumFunctionOnSet(g, U) = SumFunctionOnSet(f, U) + (g[w] - f[w])
      <4>1. g[w] \in Int BY <1>4, <3>2
      <4>2. /\ IsFiniteSet(U) /\ SummableOn(U, f) /\ w \in U
            /\ \A x \in U \ {w} : g[x] = f[x]
        BY <1>1, <3>1, <3>2
      <4> QED BY <4>1, <4>2, SetSumChange
    <3>4. g[w] - f[w] = m BY <1>4, <3>2
    <3> QED BY <1>2, <2>2, <3>3, <3>4 DEF f, g
  <2>5. new.matchedBids # {} => new.amount > 0 BY <1>2, <1>3, <1>4, <2>2
  <2>6. ASSUME NEW u \in U PROVE BidderOK(new, u, p, bids, denom, maxBid)
    <3>0. BidderOK(acc, u, p, bids, denom, maxBid) BY <1>2
    <3>1. /\ MatchedCost(bids, M \cup {k}, u, denom) =
               MatchedCost(bids, M, u, denom)
                 + (IF w = u THEN ConvertToPayingAmount(bids[k], denom) ELSE 0)
          /\ MatchedCost(bids, M, u, denom) \in Nat
      BY MatchedCostAdd, MatchedCostType DEF M, w
    <3>2. CASE u # w
      <4>1. new.allocation[u] = acc.allocation[u] /\ new.paying[u] = acc.paying[u]
        BY <1>1, <1>3, <2>2, <3>2
      <4>2. MatchedCost(bids, new.matchedBids, u, denom) =
              MatchedCost(bids, M, u, denom)
        BY <2>2, <3>1, <3>2
      <4>3. MatchedOf(bids, new.matchedBids, u) = MatchedOf(bids, M, u)
        BY <2>2, <3>2 DEF MatchedOf, w
      <4> QED BY <3>0, <4>1, <4>2, <4>3 DEF BidderOK, M
    <3>3. CASE u = w
      <4> DEFINE count == Cardinality(MatchedOf(bids, M, w))
      <4>1. new.allocation[u] = acc.allocation[u] + m
            /\ new.paying[u] = acc.paying[u] + pay
        BY <1>1, <1>3, <2>2, <3>3
      <4>2. acc.paying[u] + pay <= MatchedCost(bids, new.matchedBids, u, denom)
        <5>1. acc.paying[u] <= MatchedCost(bids, M, u, denom) /\ acc.paying[u] \in Nat
          BY <1>3, <3>0 DEF BidderOK, M
        <5>2. CASE m > 0
          <6>1. MatchedCost(bids, new.matchedBids, u, denom) =
                  MatchedCost(bids, M, u, denom) + ConvertToPayingAmount(bids[k], denom)
            BY <2>2, <3>1, <3>3, <5>2
          <6> QED BY <2>3, <3>1, <5>1, <6>1
        <5>3. CASE m = 0
          <6>1. new.matchedBids = M BY <2>2, <5>3
          <6> QED BY <2>3, <5>1, <5>3, <6>1
        <5> QED BY <1>4, <5>2, <5>3
      <4>3. /\ count \in Nat
            /\ Cardinality(MatchedOf(bids, new.matchedBids, w)) =
                 IF m > 0 THEN count + 1 ELSE count
        <5>1. IsFiniteSet(MatchedOf(bids, M, w))
          <6>1. IsFiniteSet(1..n) BY <1>1, FS_Interval
          <6>2. MatchedOf(bids, M, w) \in SUBSET (1..n) BY <1>3 DEF MatchedOf, M
          <6> QED BY <6>1, <6>2, FS_Subset
        <5>2. count \in Nat BY <5>1, FS_CardinalityType
        <5>3. CASE m > 0
          <6>1. MatchedOf(bids, new.matchedBids, w) = MatchedOf(bids, M, w) \cup {k}
            BY <2>2, <5>3 DEF MatchedOf, w
          <6>2. k \notin MatchedOf(bids, M, w) BY DEF MatchedOf, M
          <6> QED BY <5>1, <5>2, <5>3, <6>1, <6>2, FS_AddElement
        <5>4. CASE ~(m > 0) BY <2>2, <5>2, <5>4
        <5> QED BY <5>3, <5>4
      <4>4. /\ acc.allocation[w] * p <= acc.paying[w] * ONE
            /\ acc.paying[w] * ONE <= acc.allocation[w] * p + count * (ONE - 1)
        BY <3>0, <3>3 DEF BidderOK, M
      <4>5. acc.allocation[w] \in Nat /\ acc.paying[w] \in Nat /\ p \in Nat
        BY <1>1, <1>3
      <4> HIDE DEF count
      <4>6. /\ (acc.allocation[w] + m) * p <= (acc.paying[w] + pay) * ONE
            /\ (acc.paying[w] + pay) * ONE <=
                 (acc.allocation[w] + m) * p
                   + (IF m > 0 THEN count + 1 ELSE count) * (ONE - 1)
        BY <1>4, <4>3, <4>4, <4>5, BidderStep DEF pay
      <4> QED BY <1>4, <3>3, <4>1, <4>2, <4>3, <4>6 DEF BidderOK
    <3> QED BY <3>2, <3>3
  <2>7. new.price = p /\ new.amount <= sellingAmt BY <1>2, <2>1, <2>2
  <2>8. AccOK(new, p, bids, denom, sellingAmt, maxBid)
    BY <2>2, <2>4, <2>5, <2>6, <2>7 DEF AccOK, U, n
  <2> QED BY <2>2, <2>8 DEF M
<1> QED BY <1>3, <1>5, <1>6

\* One iteration of the loop, whether or not the bid is below the price.
Visit(acc, k, p, bids, sellingAmt, maxBid) ==
  IF Outbid(bids[k], p) THEN acc
  ELSE MatchStep(acc, k, bids[k].bidder, MatchAmount(acc, bids[k], p, maxBid), p,
                 sellingAmt)

Start(p, maxBid) == [NoMatch(DOMAIN maxBid) EXCEPT !.price = p]

\* acc[n] is the accumulator after n iterations.
IsLoop(acc, p, bids, order, sellingAmt, maxBid) ==
  /\ acc[0] = Start(p, maxBid)
  /\ \A n \in 1..Len(bids) :
       acc[n] = Visit(acc[n - 1], order[n], p, bids, sellingAmt, maxBid)

\* The loop of Match ends with the result.
LEMMA MatchLoop ==
  ASSUME NEW p, NEW bids, NEW order, NEW sellingAmt, NEW maxBid, Len(bids) \in Nat
  PROVE  \E acc : /\ IsLoop(acc, p, bids, order, sellingAmt, maxBid)
                  /\ Match(p, bids, order, sellingAmt, maxBid) = acc[Len(bids)]
<1> DEFINE N == Len(bids)
           x0 == Start(p, maxBid)
           B(n, x) == Visit(x, order[n], p, bids, sellingAmt, maxBid)
           E(s, M) == s = [n \in 0..M |-> IF n = 0 THEN x0 ELSE B(n, s[n - 1])]
           acc == CHOOSE s : E(s, N)
<1>1. Match(p, bids, order, sellingAmt, maxBid) = acc[N]
  BY DEF Match, Visit, Start
<1>2. N \in Nat OBVIOUS
<1> HIDE DEF N, x0, B
<1>3. \E s : E(s, N)
  <2> DEFINE T == {M \in Nat : \E s : E(s, M)}
  <2>1. 0 \in T
    <3> DEFINE s == [n \in 0..0 |-> x0]
    <3>1. E(s, 0) OBVIOUS
    <3> QED BY <3>1
  <2>2. ASSUME NEW M \in Nat, M \in T PROVE M + 1 \in T
    <3>1. PICK s : E(s, M) BY <2>2
    <3> DEFINE t == [n \in 0..(M + 1) |-> IF n <= M THEN s[n] ELSE B(M + 1, s[M])]
    <3>2. ASSUME NEW n \in 0..(M + 1)
          PROVE  t[n] = IF n = 0 THEN x0 ELSE B(n, t[n - 1])
      <4>1. CASE n = 0 BY <3>1, <4>1
      <4>2. CASE n # 0 /\ n <= M BY <3>1, <4>2
      <4>3. CASE n = M + 1 BY <3>1, <4>3
      <4> QED BY <4>1, <4>2, <4>3
    <3>3. E(t, M + 1) BY <3>2
    <3> HIDE DEF E
    <3> QED BY <3>3
  <2> HIDE DEF T
  <2>3. N \in T BY <1>2, <2>1, <2>2, InductiveSet
  <2> QED BY <2>3 DEF T
<1>4. E(acc, N)
  <2> HIDE DEF E
  <2> QED BY <1>3
<1> HIDE DEF acc
<1>5. acc[0] = x0 /\ \A n \in 1..N : acc[n] = B(n, acc[n - 1])
  <2>1. \A n \in 0..N : acc[n] = IF n = 0 THEN x0 ELSE B(n, acc[n - 1])
    BY <1>2, <1>4
  <2> QED BY <1>2, <2>1
<1>6. \A n \in 1..N : acc[n] = Visit(acc[n - 1], order[n], p, bids, sellingAmt, maxBid)
  BY <1>5 DEF B
<1> QED BY <1>1, <1>5, <1>6 DEF x0, N, IsLoop

\* No bid of M comes later than at the n-th place of order.
Among(M, order, n) == \A k \in M : \E i \in 1..n : k = order[i]

\* What the loop keeps holds at its end, and at every moment before.
LEMMA MatchSound ==
  ASSUME NEW bids, NEW denom, NEW sellingAmt, NEW maxBid,
         MatchInput(bids, denom, sellingAmt, maxBid),
         NEW order, IsOrder(Len(bids), order), NEW p \in Nat \ {0}, NEW acc,
         IsLoop(acc, p, bids, order, sellingAmt, maxBid)
  PROVE  \A n \in 0..Len(bids) :
           /\ AccOK(acc[n], p, bids, denom, sellingAmt, maxBid)
           /\ Among(acc[n].matchedBids, order, n)
<1> DEFINE N == Len(bids)
           Ok(n) == /\ AccOK(acc[n], p, bids, denom, sellingAmt, maxBid)
                    /\ Among(acc[n].matchedBids, order, n)
           T == {n \in Nat : n <= N => Ok(n)}
<1>0. N \in Nat BY DEF MatchInput
<1>1. Ok(0)
  <2>0. acc[0] = Start(p, maxBid) BY DEF IsLoop
  <2>1. NothingMatched(acc[0], N, DOMAIN maxBid) /\ acc[0].price = p
    <3> DEFINE a == acc[0]
               U == DOMAIN maxBid
               z == [u \in U |-> 0]
    <3>1. a = [fits |-> TRUE, price |-> p, amount |-> 0, matchedBids |-> {},
               allocation |-> z, paying |-> z]
      BY <2>0 DEF Start, NoMatch
    <3>2. z \in [U -> Nat] /\ \A u \in U : z[u] = 0 OBVIOUS
    <3> HIDE DEF a, z, U
    <3>3. a \in Accumulator(N, U) BY <3>1, <3>2 DEF Accumulator
    <3>4. NothingMatched(a, N, U) /\ a.price = p BY <3>1, <3>2, <3>3 DEF NothingMatched
    <3> QED BY <3>4 DEF a, U
  <2>3. AccOK(acc[0], p, bids, denom, sellingAmt, maxBid) BY <2>1, AccInit
  <2>2. acc[0].matchedBids = {} BY <2>1 DEF NothingMatched
  <2> QED BY <2>2, <2>3 DEF Among
<1>2. ASSUME NEW n \in Nat, n + 1 <= N, Ok(n) PROVE Ok(n + 1)
  <2> DEFINE k == order[n + 1]
             a == acc[n]
             b == acc[n + 1]
  <2>1. n + 1 \in 1..N /\ (n + 1) - 1 = n BY <1>0, <1>2
  <2>2. b = Visit(a, k, p, bids, sellingAmt, maxBid)
    <3>1. acc[n + 1] =
            Visit(acc[(n + 1) - 1], order[n + 1], p, bids, sellingAmt, maxBid)
      BY <2>1 DEF IsLoop
    <3> QED BY <2>1, <3>1
  <2>3. k \in 1..N /\ \A i \in 1..n : order[i] # k
    BY <1>0, <2>1 DEF IsOrder
  <2>4. k \notin a.matchedBids BY <1>2, <2>3 DEF Among
  <2>5. AccOK(a, p, bids, denom, sellingAmt, maxBid) /\ Among(a.matchedBids, order, n)
    BY <1>2
  <2>6. k = order[n + 1] OBVIOUS
  <2> HIDE DEF a, b, k
  <2>7. CASE Outbid(bids[k], p)
    <3>1. b = a BY <2>2, <2>7 DEF Visit
    <3>2. Among(b.matchedBids, order, n + 1) BY <2>5, <3>1 DEF Among
    <3> QED BY <2>5, <3>1, <3>2 DEF b
  <2>8. CASE ~Outbid(bids[k], p)
    <3>1. b = MatchStep(a, k, bids[k].bidder, MatchAmount(a, bids[k], p, maxBid), p,
                        sellingAmt)
      BY <2>2, <2>8 DEF Visit
    <3>2. p <= bids[k].price
      <4>1. bids[k].price \in Nat BY <2>3 DEF MatchInput, ValidBid
      <4> QED BY <2>8, <4>1 DEF Outbid
    <3>3. /\ AccOK(b, p, bids, denom, sellingAmt, maxBid)
          /\ b.matchedBids \subseteq a.matchedBids \cup {k}
      BY <2>3, <2>4, <2>5, <3>1, <3>2, AccStep
    <3>4. Among(b.matchedBids, order, n + 1) BY <2>5, <2>6, <3>3 DEF Among
    <3> QED BY <3>3, <3>4 DEF b
  <2> QED BY <2>7, <2>8
<1> HIDE DEF Ok
<1>3. 0 \in T BY <1>1
<1>4. \A n \in Nat : n \in T => n + 1 \in T BY <1>0, <1>2
<1>5. Nat \subseteq T
  <2> HIDE DEF T
  <2> QED BY <1>3, <1>4, InductiveSet
<1>6. \A n \in 0..N : Ok(n) BY <1>0, <1>5
<1> QED BY <1>6 DEF Ok

\* What Match returns.
LEMMA MatchFacts ==
  ASSUME NEW bids, NEW denom, NEW sellingAmt, NEW maxBid,
         MatchInput(bids, denom, sellingAmt, maxBid),
         NEW order, IsOrder(Len(bids), order), NEW p \in Nat \ {0}
  PROVE  AccOK(Match(p, bids, order, sellingAmt, maxBid), p, bids, denom,
               sellingAmt, maxBid)
<1>1. Len(bids) \in Nat BY DEF MatchInput
<1>2. PICK acc : /\ IsLoop(acc, p, bids, order, sellingAmt, maxBid)
                 /\ Match(p, bids, order, sellingAmt, maxBid) = acc[Len(bids)]
  BY <1>1, MatchLoop
<1>3. AccOK(acc[Len(bids)], p, bids, denom, sellingAmt, maxBid)
  <2>1. Len(bids) \in 0..Len(bids) BY <1>1
  <2> QED BY <1>2, <2>1, MatchSound
<1> QED BY <1>2, <1>3

-----------------------------------------------------------------------------
(***************************************************************************)
(* CalculateBatchAllocation and CalculateFixedPriceAllocation              *)
(* (keeper/match.go).                                                      *)
(***************************************************************************)

\* The match that the keeper uses: none, or what Match returns for one of the
\* prices of the book, when it matched there.
LEMMA FindMatchFacts ==
  ASSUME NEW bids, NEW denom, NEW sellingAmt, NEW maxBid,
         MatchInput(bids, denom, sellingAmt, maxBid),
         NEW order, IsOrder(Len(bids), order), NEW res,
         res = FindMatch(bids, BidPrices(bids), order, sellingAmt, maxBid)
  PROVE  /\ AccOK(res, res.price, bids, denom, sellingAmt, maxBid)
         /\ \/ res = NoMatch(DOMAIN maxBid)
            \/ \E p \in BidPrices(bids) :
                 /\ res = Match(p, bids, order, sellingAmt, maxBid)
                 /\ Matched(res)
<1> DEFINE P == BidPrices(bids)
           n == Cardinality(P)
           R == [i \in 0..(n - 1) |->
                   Match(LowestPrice(P, i), bids, order, sellingAmt, maxBid)]
           ok == [i \in 0..(n - 1) |-> Matched(R[i])]
           found == Search(n, ok)
<1>1. /\ P \in SUBSET Nat /\ IsFiniteSet(P) /\ n \in Nat
      /\ \A p \in P : p \in Nat \ {0}
  <2>1. /\ Len(bids) \in Nat
        /\ \A k \in 1..Len(bids) : bids[k].price \in Nat \ {0}
    BY DEF MatchInput, ValidBid
  <2>2. \A k \in 1..Len(bids) : bids[k].price \in Nat BY <2>1
  <2>3. /\ P \in SUBSET Nat /\ IsFiniteSet(P) /\ n \in Nat
        /\ \A p \in P : \E k \in 1..Len(bids) : p = bids[k].price
    BY <2>1, <2>2, BidPricesType
  <2> QED BY <2>1, <2>3
<1>2. res = IF found < n THEN R[found] ELSE NoMatch(DOMAIN maxBid)
  BY DEF FindMatch, LastMatched
<1>3. found \in 0..n /\ (found < n => ok[found])
  <2> HIDE DEF P, n, ok
  <2> QED BY <1>1, SearchFacts
<1>4. CASE found < n
  <2> DEFINE p == LowestPrice(P, found)
  <2>1. found \in Nat /\ found \in 0..(n - 1)
    <3> HIDE DEF n, found
    <3> QED BY <1>1, <1>3, <1>4
  <2>2. p \in P
    <3> HIDE DEF P, found
    <3> QED BY <1>1, <1>4, <2>1, LowestPriceType DEF n
  <2>3. res = Match(p, bids, order, sellingAmt, maxBid)
    <3> HIDE DEF found, n, P
    <3> QED BY <1>2, <1>4, <2>1
  <2>4. Matched(res)
    <3>1. R[found] = res BY <1>2, <1>4
    <3> HIDE DEF found, n, R
    <3> QED BY <1>3, <1>4, <2>1, <3>1
  <2> HIDE DEF p, P, n, R, ok, found
  <2>5. AccOK(res, p, bids, denom, sellingAmt, maxBid)
    BY <1>1, <2>2, <2>3, MatchFacts
  <2>6. res.price = p BY <2>5 DEF AccOK
  <2> QED BY <2>2, <2>3, <2>4, <2>5, <2>6 DEF P
<1>5. CASE ~(found < n)
  <2>1. res = NoMatch(DOMAIN maxBid) BY <1>2, <1>5
  <2>2. res.price = 0 /\ NothingMatched(res, Len(bids), DOMAIN maxBid)
    BY <2>1 DEF NoMatch, NothingMatched, Accumulator
  <2>3. AccOK(res, 0, bids, denom, sellingAmt, maxBid) BY <2>2, AccInit
  <2> QED BY <2>1, <2>2, <2>3
<1> QED BY <1>4, <1>5

\* What the bids that are not in M reserved for u.
UnmatchedCost(bids, M, u, denom) ==
  SumTo(Len(bids), [k \in 1..Len(bids) |->
    IF bids[k].bidder = u /\ k \notin M
      THEN ConvertToPayingAmount(bids[k], denom) ELSE 0])

\* What a bidder reserved is for matched or for unmatched bids.
LEMMA CostsSplit ==
  ASSUME NEW bids, NEW denom, NEW sellingAmt, NEW maxBid,
         MatchInput(bids, denom, sellingAmt, maxBid), NEW M, NEW u
  PROVE  /\ TotalPayingAmount(bids, u, denom) =
              MatchedCost(bids, M, u, denom) + UnmatchedCost(bids, M, u, denom)
         /\ MatchedCost(bids, M, u, denom) \in Nat
         /\ UnmatchedCost(bids, M, u, denom) \in Nat
         /\ TotalPayingAmount(bids, u, denom) \in Nat
<1> DEFINE n == Len(bids)
           R == (1..n) \ M
           f == CostsOf(bids, M, u, denom)
           g == CostsOf(bids, R, u, denom)
           h == [k \in 1..n |-> IF bids[k].bidder = u
                                  THEN ConvertToPayingAmount(bids[k], denom) ELSE 0]
<1>1. /\ Summable(n, f) /\ MatchedCost(bids, M, u, denom) \in Nat
      /\ Summable(n, g) /\ MatchedCost(bids, R, u, denom) \in Nat
  BY MatchedCostType
<1>2. n \in Nat BY DEF MatchInput
<1>3. SumTo(n, f) = MatchedCost(bids, M, u, denom)
  BY DEF MatchedCost
<1>4. UnmatchedCost(bids, M, u, denom) = MatchedCost(bids, R, u, denom)
  <2>1. g = [k \in 1..n |->
               IF bids[k].bidder = u /\ k \notin M
                 THEN ConvertToPayingAmount(bids[k], denom) ELSE 0]
    BY DEF CostsOf
  <2>2. MatchedCost(bids, R, u, denom) = SumTo(n, g) BY DEF MatchedCost
  <2> HIDE DEF g, R
  <2> QED BY <2>1, <2>2 DEF UnmatchedCost
<1>5. SumTo(n, g) = UnmatchedCost(bids, M, u, denom) BY <1>4 DEF MatchedCost
<1>6. SumTo(n, h) = TotalPayingAmount(bids, u, denom) BY DEF TotalPayingAmount
<1>7. \A k \in 1..n : h[k] = f[k] + g[k]
  <2> SUFFICES ASSUME NEW k \in 1..n PROVE h[k] = f[k] + g[k] OBVIOUS
  <2>1. f[k] \in Int /\ g[k] \in Int BY <1>1 DEF Summable
  <2>2. CASE k \in M
    <3>1. h[k] = f[k] /\ g[k] = 0 BY <2>2 DEF CostsOf
    <3> HIDE DEF f, g, h
    <3> QED BY <2>1, <3>1
  <2>3. CASE k \notin M
    <3>1. h[k] = g[k] /\ f[k] = 0 BY <2>3 DEF CostsOf
    <3> HIDE DEF f, g, h
    <3> QED BY <2>1, <3>1
  <2> QED BY <2>2, <2>3
<1> HIDE DEF f, g, h, R
<1>8. SumTo(n, h) = SumTo(n, f) + SumTo(n, g) BY <1>1, <1>2, <1>7, SumPlus
<1> QED BY <1>1, <1>3, <1>4, <1>5, <1>6, <1>8

\* The fair match of a book: no bidder is given more than MaxBidAmount, all of them
\* together no more than the selling amount, and what is refunded to a bidder is
\* between what their unmatched bids and what all their bids reserved.
FairMatch(info, bids, denom, sellingAmt, maxBid) ==
  /\ info.allocation \in [DOMAIN maxBid -> Nat]
  /\ SumFunctionOnSet(info.allocation, DOMAIN maxBid) \in 0..sellingAmt
  /\ info.refund \in [DOMAIN maxBid -> Nat]
  /\ info.matchedBids \in SUBSET (1..Len(bids))
  /\ info.matchedLen = Cardinality(info.matchedBids)
  /\ \A u \in DOMAIN maxBid :
       /\ info.allocation[u] <= maxBid[u]
       /\ info.refund[u] <= TotalPayingAmount(bids, u, denom)
       /\ info.refund[u] >= UnmatchedCost(bids, info.matchedBids, u, denom)

\* What the keeper keeps of a match, whatever the order of the bids: in particular
\* no refund is negative (keeper/match.go: reservedAmt.Sub).
LEMMA MatchingInfoFair ==
  ASSUME NEW bids, NEW denom, NEW sellingAmt, NEW maxBid,
         MatchInput(bids, denom, sellingAmt, maxBid), NEW res,
         AccOK(res, res.price, bids, denom, sellingAmt, maxBid), NEW info,
         info = MatchingInfo(res, bids, denom, DOMAIN maxBid)
  PROVE  /\ FairMatch(info, bids, denom, sellingAmt, maxBid)
         /\ info.matchedBids = res.matchedBids
         /\ info.matchedPrice = res.price
         /\ info.allocation = res.allocation
         /\ info.reservedMatched = res.paying
<1> DEFINE U == DOMAIN maxBid
           n == Len(bids)
           M == res.matchedBids
           refund == [u \in U |-> TotalPayingAmount(bids, u, denom) - res.paying[u]]
<1>1. /\ res \in Accumulator(n, U) /\ res.amount <= sellingAmt
      /\ SumFunctionOnSet(res.allocation, U) = res.amount
      /\ \A u \in U : BidderOK(res, u, res.price, bids, denom, maxBid)
  BY DEF AccOK
<1>2. /\ M \in SUBSET (1..n) /\ res.amount \in Nat
      /\ res.allocation \in [U -> Nat] /\ res.paying \in [U -> Nat]
  BY <1>1 DEF Accumulator
<1>3. {k \in 1..n : k \in M} = M BY <1>2
<1>4. info = [matchedLen |-> Cardinality(M), matchedPrice |-> res.price,
              matchedBids |-> M, allocation |-> res.allocation,
              reservedMatched |-> res.paying, refund |-> refund]
  BY <1>3 DEF MatchingInfo
<1>5. ASSUME NEW u \in U
      PROVE  /\ refund[u] \in Nat
             /\ refund[u] <= TotalPayingAmount(bids, u, denom)
             /\ refund[u] >= UnmatchedCost(bids, M, u, denom)
             /\ res.allocation[u] <= maxBid[u]
  <2> DEFINE t == TotalPayingAmount(bids, u, denom)
             x == MatchedCost(bids, M, u, denom)
             y == UnmatchedCost(bids, M, u, denom)
             z == res.paying[u]
  <2>1. t = x + y /\ x \in Nat /\ y \in Nat /\ t \in Nat BY CostsSplit
  <2>2. z \in Nat /\ z <= x /\ res.allocation[u] <= maxBid[u]
    BY <1>1, <1>2 DEF BidderOK
  <2>3. refund[u] = t - z OBVIOUS
  <2> HIDE DEF t, x, y, z, refund
  <2>4. refund[u] \in Nat /\ refund[u] <= t /\ refund[u] >= y BY <2>1, <2>2, <2>3
  <2> QED BY <2>2, <2>4 DEF t, y
<1>6. refund \in [U -> Nat] BY <1>5
<1> HIDE DEF refund, M, n, U
<1>7. /\ info.allocation = res.allocation /\ info.refund = refund
      /\ info.matchedBids = M /\ info.matchedPrice = res.price
      /\ info.reservedMatched = res.paying
      /\ info.matchedLen = Cardinality(M)
  BY <1>4
<1>8. SumFunctionOnSet(info.allocation, U) \in 0..sellingAmt
  <2>1. sellingAmt \in Nat BY DEF MatchInput
  <2> QED BY <1>1, <1>2, <1>7, <2>1
<1>9. FairMatch(info, bids, denom, sellingAmt, maxBid)
  BY <1>2, <1>5, <1>6, <1>7, <1>8 DEF FairMatch, U, n
<1> QED BY <1>7, <1>9 DEF M

\* CalculateBatchAllocation yields a fair match.
LEMMA BatchAllocationFair ==
  ASSUME NEW bids, NEW denom, NEW sellingAmt, NEW maxBid,
         MatchInput(bids, denom, sellingAmt, maxBid)
  PROVE  FairMatch(CalculateBatchAllocation(bids, denom, sellingAmt, maxBid),
                   bids, denom, sellingAmt, maxBid)
<1> DEFINE order == BidsByPrice(bids)
           res == FindMatch(bids, BidPrices(bids), order, sellingAmt, maxBid)
           info == CalculateBatchAllocation(bids, denom, sellingAmt, maxBid)
<1>1. IsOrder(Len(bids), order) BY BidsByPriceOrder DEF MatchInput
<1>2. info = MatchingInfo(res, bids, denom, DOMAIN maxBid)
  BY DEF CalculateBatchAllocation
<1>3. AccOK(res, res.price, bids, denom, sellingAmt, maxBid)
  <2> HIDE DEF order
  <2> QED BY <1>1, FindMatchFacts
<1> HIDE DEF res, info
<1>4. FairMatch(info, bids, denom, sellingAmt, maxBid)
  BY <1>2, <1>3, MatchingInfoFair
<1> QED BY <1>4 DEF info

\* The terms of f that belong to u.
ShareOf(N, f, owner, u) == [k \in 1..N |-> IF owner[k] = u THEN f[k] ELSE 0]

\* Adding up what every owner has yields what all have.
LEMMA SumByOwner ==
  ASSUME NEW N \in Nat, NEW f, Summable(N, f), NEW U, IsFiniteSet(U), NEW owner,
         \A k \in 1..N : owner[k] \in U, NEW h,
         \A u \in U : h[u] = SumTo(N, ShareOf(N, f, owner, u))
  PROVE  SumFunctionOnSet(h, U) = SumTo(N, f)
<1> DEFINE g(n) == [u \in U |-> SumTo(n, ShareOf(N, f, owner, u))]
           Ok(n) == SumFunctionOnSet(g(n), U) = SumTo(n, f)
           T == {n \in Nat : n <= N => Ok(n)}
<1>1. ASSUME NEW u PROVE Summable(N, ShareOf(N, f, owner, u))
  BY DEF Summable, ShareOf
<1>2. ASSUME NEW n \in 0..N PROVE SummableOn(U, g(n))
  <2> SUFFICES ASSUME NEW u \in U PROVE SumTo(n, ShareOf(N, f, owner, u)) \in Int
    BY DEF SummableOn
  <2>1. n \in Nat /\ Summable(n, ShareOf(N, f, owner, u))
    BY <1>1, SummablePrefix
  <2> QED BY <2>1, SumStep
<1>3. Ok(0)
  <2>1. \A u \in U : g(0)[u] = 0
    <3> SUFFICES ASSUME NEW u \in U PROVE SumTo(0, ShareOf(N, f, owner, u)) = 0
      OBVIOUS
    <3> QED BY <1>1, SumStep
  <2>2. SumFunctionOnSet(g(0), U) = 0
    <3> DEFINE z == g(0)
    <3>1. \A u \in U : z[u] = 0 BY <2>1
    <3> HIDE DEF z
    <3>2. SumFunctionOnSet(z, U) = 0 BY <3>1, SetSumZero
    <3> QED BY <3>2 DEF z
  <2>3. SumTo(0, f) = 0 BY SumStep
  <2> QED BY <2>2, <2>3
<1>4. ASSUME NEW n \in Nat, n + 1 <= N, Ok(n) PROVE Ok(n + 1)
  <2> DEFINE e == owner[n + 1]
             a == g(n)
             b == g(n + 1)
  <2>1. n + 1 \in 1..N /\ n \in 0..N /\ n + 1 \in 0..N /\ n + 1 \in Nat
        /\ n + 1 > 0 /\ (n + 1) - 1 = n
    BY <1>4
  <2>2. e \in U /\ f[n + 1] \in Int BY <2>1 DEF Summable
  <2>3. ASSUME NEW u \in U
        PROVE  b[u] = a[u] + (IF e = u THEN f[n + 1] ELSE 0)
    <3> DEFINE s == ShareOf(N, f, owner, u)
    <3>1. Summable(n + 1, s) BY <1>1, <2>1, SummablePrefix
    <3>2. SumTo(n + 1, s) = SumTo((n + 1) - 1, s) + s[n + 1]
      <4> HIDE DEF s
      <4> QED BY <2>1, <3>1, SumStep
    <3>3. s[n + 1] = IF e = u THEN f[n + 1] ELSE 0 BY <2>1 DEF ShareOf
    <3>4. b[u] = SumTo(n + 1, s) /\ a[u] = SumTo(n, s) OBVIOUS
    <3> HIDE DEF s, a, b, e
    <3> QED BY <2>1, <3>2, <3>3, <3>4
  <2>4. SummableOn(U, a) /\ SummableOn(U, b) BY <1>2, <2>1
  <2>5. SumTo(n + 1, f) = SumTo(n, f) + f[n + 1]
    <3>1. Summable(n + 1, f) BY <2>1, SummablePrefix
    <3>2. SumTo(n + 1, f) = SumTo((n + 1) - 1, f) + f[n + 1] BY <2>1, <3>1, SumStep
    <3> QED BY <2>1, <3>2
  <2>6. SumFunctionOnSet(a, U) = SumTo(n, f) BY <1>4
  <2> HIDE DEF a, b, e
  <2>7. a[e] \in Int /\ b[e] \in Int /\ \A x \in U \ {e} : b[x] = a[x]
    BY <2>2, <2>3, <2>4 DEF SummableOn
  <2>8. b[e] - a[e] = f[n + 1] BY <2>2, <2>3, <2>7
  <2>9. SumFunctionOnSet(b, U) = SumFunctionOnSet(a, U) + (b[e] - a[e])
    BY <2>2, <2>4, <2>7, SetSumChange
  <2>10. SumFunctionOnSet(b, U) = SumTo(n + 1, f) BY <2>5, <2>6, <2>8, <2>9
  <2> QED BY <2>10 DEF b
<1>5. Ok(N)
  <2> HIDE DEF Ok
  <2>1. 0 \in T BY <1>3
  <2>2. \A n \in Nat : n \in T => n + 1 \in T BY <1>4
  <2>3. Nat \subseteq T
    <3> HIDE DEF T
    <3> QED BY <2>1, <2>2, InductiveSet
  <2> QED BY <2>3
<1>6. SumFunctionOnSet(g(N), U) = SumFunctionOnSet(h, U)
  <2> DEFINE z == g(N)
  <2>1. N \in 0..N OBVIOUS
  <2>2. SummableOn(U, z) /\ \A u \in U : z[u] = h[u] BY <1>2, <2>1
  <2> HIDE DEF z
  <2>3. SumFunctionOnSet(z, U) = SumFunctionOnSet(h, U) BY <2>2, SetSumSame
  <2> QED BY <2>3 DEF z
<1> QED BY <1>5, <1>6
=============================================================================
