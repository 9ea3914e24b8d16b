----------------------------- MODULE StoreProofs -----------------------------
(***************************************************************************)
(* The store, for ids of any length and any addresses.                     *)
(*                                                                         *)
(* The keys come first: their order is that of the ids, an iteration finds *)
(* what it is for and nothing else, and the index gives back the bids it   *)
(* stands for.  Then the invariant of the store: which keys there are, and *)
(* what they hold.  Every handler keeps it, because it writes only keys of *)
(* a few kinds.  With the lists read off the invariant, every handler is   *)
(* an operation of Records, and the iterations agree with each other.  So  *)
(* an export has every record once; and an import, which stores each under *)
(* its own id and counts the ids again, is an operation of Records, too.   *)
(***************************************************************************)
EXTENDS Store, FiniteSetTheorems, SequenceTheorems, WellFoundedInduction, TLAPS

-----------------------------------------------------------------------------
(***************************************************************************)
(* Induction, and the powers of Radix.                                     *)
(***************************************************************************)

\* Every non-empty set of naturals has a least element.
LEMMA LeastNat ==
  ASSUME NEW T \in SUBSET Nat, T # {}
  PROVE  \E x \in T : \A y \in T : x <= y
<1> DEFINE R0 == OpToRel(<, Nat)
<1>1. IsWellFoundedOn(R0, Nat) BY NatLessThanWellFounded
<1>2. PICK x \in T : \A y \in T : ~(<<y, x>> \in R0)
  <2> HIDE DEF R0
  <2> QED BY <1>1, WFMin, Zenon
<1>3. \A y \in T : x <= y
  <2> SUFFICES ASSUME NEW y \in T, y < x PROVE FALSE OBVIOUS
  <2>1. <<y, x>> \in R0 BY DEF OpToRel
  <2> QED BY <2>1, <1>2
<1> QED BY <1>3

\* A set that contains 0 and with every number up to n the next contains all up to
\* n.
LEMMA InductionUpTo ==
  ASSUME NEW n \in Nat, NEW T, 0 \in T,
         \A i \in 0..n : i \in T /\ i < n => i + 1 \in T
  PROVE  0..n \subseteq T
<1> DEFINE U == (0..n) \ T
<1> SUFFICES ASSUME U # {} PROVE FALSE OBVIOUS
<1>1. PICK x \in U : \A y \in U : x <= y
  <2>1. U \in SUBSET Nat OBVIOUS
  <2> HIDE DEF U
  <2> QED BY <2>1, LeastNat
<1>2. x # 0 /\ x - 1 \in 0..n /\ x - 1 < n OBVIOUS
<1>3. x - 1 \in T BY <1>1, <1>2
<1> QED BY <1>2, <1>3

LEMMA PowerDef ==
  Power = [k \in 0..IdBytes |-> IF k = 0 THEN 1 ELSE Radix * Power[k - 1]]
<1> DEFINE P(n, f) == f = [k \in 0..n |-> IF k = 0 THEN 1 ELSE Radix * f[k - 1]]
           T == {n \in Nat : \E f : P(n, f)}
<1>1. 0 \in T
  <2> DEFINE f == [k \in 0..0 |-> 1]
  <2>1. P(0, f) OBVIOUS
  <2> QED BY <2>1
<1>2. ASSUME NEW n \in Nat, n \in T PROVE n + 1 \in T
  <2>1. PICK f : P(n, f) BY <1>2
  <2> DEFINE g == [k \in 0..(n + 1) |-> IF k <= n THEN f[k] ELSE Radix * f[n]]
  <2>2. ASSUME NEW k \in 0..(n + 1)
        PROVE  g[k] = IF k = 0 THEN 1 ELSE Radix * g[k - 1]
    <3>1. CASE k = 0 BY <2>1, <3>1
    <3>2. CASE k # 0 /\ k <= n
      <4>1. k \in 0..n /\ k - 1 \in 0..n BY <3>2
      <4>2. f[k] = Radix * f[k - 1] BY <2>1, <3>2, <4>1
      <4>3. g[k] = f[k] /\ g[k - 1] = f[k - 1] BY <3>2, <4>1
      <4> HIDE DEF g
      <4> QED BY <3>2, <4>2, <4>3
    <3>3. CASE k = n + 1 BY <3>3
    <3> QED BY <3>1, <3>2, <3>3
  <2>3. P(n + 1, g) BY <2>2
  <2>4. \E h : P(n + 1, h)
    <3> HIDE DEF g, P
    <3> QED BY <2>3
  <2> HIDE DEF P
  <2> QED BY <2>4
<1>3. IdBytes \in Nat BY StoreAssumption
<1>4. IdBytes \in T
  <2> HIDE DEF T
  <2>1. 0..IdBytes \subseteq T
    <3>1. \A i \in 0..IdBytes : i \in T /\ i < IdBytes => i + 1 \in T
      BY <1>2, <1>3
    <3> QED BY <1>1, <1>3, <3>1, InductionUpTo
  <2> QED BY <1>3, <2>1
<1>5. \E f : P(IdBytes, f) BY <1>4
<1>6. Power = CHOOSE f : P(IdBytes, f) BY DEF Power
<1> HIDE DEF P
<1>7. P(IdBytes, Power) BY <1>5, <1>6
<1> QED BY <1>7 DEF P

LEMMA PowerFacts ==
  /\ Power[0] = 1
  /\ \A k \in 0..IdBytes : Power[k] \in Nat \ {0}
  /\ \A k \in 0..(IdBytes - 1) : Power[k + 1] = Radix * Power[k]
<1> DEFINE T == {k \in 0..IdBytes : Power[k] \in Nat \ {0}}
<1>1. IdBytes \in Nat \ {0} /\ Radix \in 2..256 BY StoreAssumption
<1>2. Power[0] = 1 BY <1>1, PowerDef
<1>3. ASSUME NEW k \in 0..(IdBytes - 1) PROVE Power[k + 1] = Radix * Power[k]
  <2>1. k + 1 \in 0..IdBytes /\ k + 1 # 0 /\ (k + 1) - 1 = k BY <1>1
  <2> QED BY <2>1, PowerDef
<1>4. ASSUME NEW p \in Nat \ {0} PROVE Radix * p \in Nat \ {0}
  <2>1. Radix * p \in Nat BY <1>1
  <2>2. Radix * p >= p BY <1>1
  <2> QED BY <2>1, <2>2
<1>5. 0..IdBytes \subseteq T
  <2>1. 0 \in T BY <1>1, <1>2
  <2>2. ASSUME NEW i \in 0..IdBytes, i \in T, i < IdBytes PROVE i + 1 \in T
    <3>1. i \in 0..(IdBytes - 1) /\ i + 1 \in 0..IdBytes BY <1>1, <2>2
    <3>2. Power[i + 1] \in Nat \ {0} BY <1>3, <1>4, <2>2, <3>1
    <3> QED BY <3>1, <3>2
  <2> HIDE DEF T
  <2> QED BY <1>1, <2>1, <2>2, InductionUpTo
<1> QED BY <1>2, <1>3, <1>5

-----------------------------------------------------------------------------
(***************************************************************************)
(* The digits of a number.                                                 *)
(***************************************************************************)
LEMMA Division ==
  ASSUME NEW n \in Nat, NEW p \in Nat \ {0}
  PROVE  /\ n \div p \in Nat /\ n % p \in 0..(p - 1)
         /\ n = ((n \div p) * p) + (n % p)
OBVIOUS

LEMMA DivisionIsUnique ==
  ASSUME NEW q \in Nat, NEW p \in Nat \ {0}, NEW r \in 0..(p - 1)
  PROVE  ((q * p) + r) \div p = q
OBVIOUS

LEMMA DivideTwice ==
  ASSUME NEW n \in Nat, NEW p \in Nat \ {0}, NEW r \in Nat \ {0}
  PROVE  n \div (r * p) = (n \div p) \div r
<1> DEFINE q == n \div p
           s == n % p
           u == q \div r
           v == q % r
<1>1. q \in Nat /\ s \in 0..(p - 1) /\ n = (q * p) + s BY Division
<1>2. u \in Nat /\ v \in 0..(r - 1) /\ q = (u * r) + v BY <1>1, Division
<1> HIDE DEF q, s, u, v
<1>3. n = (u * (r * p)) + ((v * p) + s)
  <2>1. q * p = ((u * r) * p) + (v * p) BY <1>2
  <2>2. (u * r) * p = u * (r * p) BY <1>2
  <2> DEFINE a == (u * r) * p
             b == u * (r * p)
             c == v * p
             d == q * p
  <2>3. a \in Nat /\ b \in Nat /\ c \in Nat BY <1>2
  <2>4. d = a + c /\ a = b /\ n = d + s BY <1>1, <2>1, <2>2
  <2> HIDE DEF a, b, c, d
  <2>5. n = b + (c + s) BY <1>1, <2>3, <2>4
  <2> QED BY <2>5 DEF b, c
<1>4. r * p \in Nat \ {0}
  <2>1. r * p \in Nat /\ r * p >= p OBVIOUS
  <2> QED BY <2>1
<1>5. (v * p) + s \in 0..((r * p) - 1)
  <2>1. v + 1 <= r /\ v \in Nat BY <1>2
  <2>2. (v + 1) * p <= r * p
    <3>1. PICK e \in Nat : r = (v + 1) + e
      <4>1. r - (v + 1) \in Nat /\ r = (v + 1) + (r - (v + 1)) BY <2>1
      <4> QED BY <4>1
    <3>2. r * p = ((v + 1) * p) + (e * p) /\ e * p \in Nat BY <2>1, <3>1
    <3>3. (v + 1) * p \in Nat BY <2>1
    <3> QED BY <3>2, <3>3
  <2>3. (v + 1) * p = (v * p) + p /\ v * p \in Nat BY <2>1
  <2> QED BY <1>1, <1>4, <2>2, <2>3
<1>6. n \div (r * p) = u
  <2> DEFINE P == r * p
             S == (v * p) + s
  <2>1. n = (u * P) + S /\ P \in Nat \ {0} /\ S \in 0..(P - 1)
    BY <1>3, <1>4, <1>5
  <2> HIDE DEF P, S
  <2>2. n \div P = u BY <1>2, <2>1, DivisionIsUnique
  <2> QED BY <2>2 DEF P
<1> QED BY <1>6 DEF q, u

LEMMA DivisionIsMonotonic ==
  ASSUME NEW n \in Nat, NEW m \in Nat, NEW p \in Nat \ {0}, n <= m
  PROVE  n \div p <= m \div p
<1> DEFINE a == n \div p
           b == m \div p
           x == n % p
           y == m % p
<1>1. a \in Nat /\ x \in 0..(p - 1) /\ n = (a * p) + x BY Division
<1>2. b \in Nat /\ y \in 0..(p - 1) /\ m = (b * p) + y BY Division
<1> HIDE DEF a, b, x, y
<1> SUFFICES ASSUME b < a PROVE FALSE BY <1>1, <1>2 DEF a, b
<1>3. PICK e \in Nat : a = (b + 1) + e
  <2>1. a - (b + 1) \in Nat /\ a = (b + 1) + (a - (b + 1)) BY <1>1, <1>2
  <2> QED BY <2>1
<1>4. a * p = ((b * p) + p) + (e * p) /\ e * p \in Nat /\ b * p \in Nat
  BY <1>2, <1>3
<1> QED BY <1>1, <1>2, <1>4

\* The number that the first i digits of n are.
Top(n, i) == n \div Power[IdBytes - i]

LEMMA TopFacts ==
  ASSUME NEW n \in Uint64
  PROVE  /\ n \in Nat /\ Top(n, 0) = 0 /\ Top(n, IdBytes) = n
         /\ \A i \in 0..IdBytes : Top(n, i) \in Nat
         /\ \A i \in 1..IdBytes :
              /\ BigEndian(n)[i] \in 0..(Radix - 1)
              /\ Top(n, i) = (Top(n, i - 1) * Radix) + BigEndian(n)[i]
<1>1. IdBytes \in Nat \ {0} /\ Radix \in 2..256 BY StoreAssumption
<1>2. /\ Power[0] = 1
      /\ \A k \in 0..IdBytes : Power[k] \in Nat \ {0}
      /\ \A k \in 0..(IdBytes - 1) : Power[k + 1] = Radix * Power[k]
  BY PowerFacts
<1>3. n \in Nat /\ n < Power[IdBytes] BY <1>1, <1>2 DEF Uint64
<1>4. ASSUME NEW i \in 0..IdBytes PROVE Top(n, i) \in Nat
  <2>1. Power[IdBytes - i] \in Nat \ {0} BY <1>1, <1>2
  <2> QED BY <1>3, <2>1, Division DEF Top
<1>5. Top(n, 0) = 0
  <2> DEFINE p == Power[IdBytes]
  <2>1. p \in Nat \ {0} /\ n \in 0..(p - 1) BY <1>1, <1>2, <1>3
  <2> HIDE DEF p
  <2>2. ((0 * p) + n) \div p = 0 BY <2>1, DivisionIsUnique
  <2>3. n \div p = 0 BY <2>1, <2>2
  <2> QED BY <1>1, <2>3 DEF Top, p
<1>6. Top(n, IdBytes) = n
  <2>1. IdBytes - IdBytes = 0 /\ n \div 1 = n BY <1>1, <1>3
  <2> QED BY <1>2, <2>1 DEF Top
<1>7. ASSUME NEW i \in 1..IdBytes
      PROVE  /\ BigEndian(n)[i] \in 0..(Radix - 1)
             /\ Top(n, i) = (Top(n, i - 1) * Radix) + BigEndian(n)[i]
  <2> DEFINE k == IdBytes - i
             q == n \div Power[k]
  <2>1. k \in 0..(IdBytes - 1) /\ IdBytes - (i - 1) = k + 1 /\ k \in 0..IdBytes
    BY <1>1
  <2>2. Power[k] \in Nat \ {0} /\ Power[k + 1] = Radix * Power[k] BY <1>2, <2>1
  <2>3. Top(n, i) = q BY DEF Top
  <2>4. Top(n, i - 1) = n \div (Radix * Power[k]) BY <2>1, <2>2 DEF Top
  <2>5. Radix \in Nat \ {0} BY <1>1
  <2>6. Top(n, i - 1) = q \div Radix BY <1>3, <2>2, <2>4, <2>5, DivideTwice
  <2>7. BigEndian(n)[i] = q % Radix BY DEF BigEndian
  <2>8. q \in Nat BY <1>3, <2>2, Division
  <2> HIDE DEF q
  <2>9. q % Radix \in 0..(Radix - 1) /\ q = ((q \div Radix) * Radix) + (q % Radix)
    BY <2>5, <2>8, Division
  <2> QED BY <2>3, <2>6, <2>7, <2>9
<1> QED BY <1>3, <1>4, <1>5, <1>6, <1>7

LEMMA BigEndianType ==
  ASSUME NEW n \in Uint64
  PROVE  BigEndian(n) \in Seq(Nat) /\ Len(BigEndian(n)) = IdBytes
<1>1. IdBytes \in Nat /\ Radix \in 2..256 BY StoreAssumption
<1>2. \A i \in 1..IdBytes : BigEndian(n)[i] \in Nat BY <1>1, TopFacts
<1> QED BY <1>1, <1>2 DEF BigEndian

\* Numbers with the same first digits have the same tops.
LEMMA SameTop ==
  ASSUME NEW n \in Uint64, NEW m \in Uint64, NEW k \in 0..IdBytes,
         \A i \in 1..k : BigEndian(n)[i] = BigEndian(m)[i]
  PROVE  Top(n, k) = Top(m, k)
<1> DEFINE T == {i \in 0..k : Top(n, i) = Top(m, i)}
<1>1. k \in Nat /\ k <= IdBytes /\ IdBytes \in Nat BY StoreAssumption
<1>2. 0 \in T BY <1>1, TopFacts
<1>3. ASSUME NEW i \in 0..k, i \in T, i < k PROVE i + 1 \in T
  <2>1. i + 1 \in 1..k /\ i + 1 \in 1..IdBytes /\ (i + 1) - 1 = i /\ i + 1 \in 0..k
    BY <1>1, <1>3
  <2>2. /\ Top(n, i + 1) = (Top(n, i) * Radix) + BigEndian(n)[i + 1]
        /\ Top(m, i + 1) = (Top(m, i) * Radix) + BigEndian(m)[i + 1]
    BY <2>1, TopFacts
  <2>3. Top(n, i + 1) = Top(m, i + 1) BY <1>3, <2>1, <2>2
  <2> QED BY <2>1, <2>3
<1>4. 0..k \subseteq T
  <2> HIDE DEF T
  <2> QED BY <1>1, <1>2, <1>3, InductionUpTo
<1> QED BY <1>1, <1>4

\* The first digit in which two numbers differ decides which is less.
LEMMA FirstDifference ==
  ASSUME NEW n \in Uint64, NEW m \in Uint64, n < m
  PROVE  \E i \in 1..IdBytes :
           /\ BigEndian(n)[i] < BigEndian(m)[i]
           /\ \A j \in 1..(i - 1) : BigEndian(n)[j] = BigEndian(m)[j]
<1> DEFINE D == {i \in 1..IdBytes : BigEndian(n)[i] # BigEndian(m)[i]}
<1>1. IdBytes \in Nat \ {0} /\ Radix \in 2..256 BY StoreAssumption
<1>2. n \in Nat /\ m \in Nat BY TopFacts
<1>3. D # {}
  <2>1. CASE D = {}
    <3>1. Top(n, IdBytes) = Top(m, IdBytes) BY <1>1, <2>1, SameTop
    <3> QED BY <1>2, <3>1, TopFacts
  <2> QED BY <2>1
<1>4. PICK i \in D : \A j \in D : i <= j
  <2>1. D \in SUBSET Nat BY <1>1
  <2> HIDE DEF D
  <2> QED BY <1>3, <2>1, LeastNat
<1>5. \A j \in 1..(i - 1) : BigEndian(n)[j] = BigEndian(m)[j] BY <1>1, <1>4
<1>6. i \in 1..IdBytes /\ i - 1 \in 0..IdBytes BY <1>1, <1>4
<1>7. Top(n, i - 1) = Top(m, i - 1) BY <1>5, <1>6, SameTop
<1>8. Top(n, i) <= Top(m, i)
  <2>1. Power[IdBytes - i] \in Nat \ {0} BY <1>1, <1>6, PowerFacts
  <2> QED BY <1>2, <2>1, DivisionIsMonotonic DEF Top
<1> DEFINE t == Top(n, i - 1) * Radix
           x == BigEndian(n)[i]
           y == BigEndian(m)[i]
<1>9. x \in Nat /\ y \in Nat /\ t \in Nat BY <1>1, <1>6, TopFacts
<1>10. Top(n, i) = t + x /\ Top(m, i) = t + y BY <1>6, <1>7, TopFacts
<1>11. x # y BY <1>4
<1> HIDE DEF t, x, y
<1>12. x < y BY <1>8, <1>9, <1>10, <1>11
<1> QED BY <1>5, <1>6, <1>12 DEF x, y

LEMMA BigEndianInjective ==
  ASSUME NEW n \in Uint64, NEW m \in Uint64,
         \A i \in 1..IdBytes : BigEndian(n)[i] = BigEndian(m)[i]
  PROVE  n = m
<1>1. IdBytes \in Nat BY StoreAssumption
<1>2. Top(n, IdBytes) = Top(m, IdBytes) BY <1>1, SameTop
<1> QED BY <1>2, TopFacts

-----------------------------------------------------------------------------
(***************************************************************************)
(* The order of keys.                                                      *)
(***************************************************************************)

\* From its byte at + 1 on, s has the bytes of n.
Holds(s, at, n) == \A i \in 1..IdBytes : s[at + i] = BigEndian(n)[i]

\* The first bytes of two sequences are the same.
SameStart(s, t, n) == \A i \in 1..n : s[i] = t[i]

LEMMA PrefixIs ==
  ASSUME NEW s \in Seq(Nat), NEW t \in Seq(Nat)
  PROVE  IsPrefix(s, t) <=> Len(s) <= Len(t) /\ SameStart(s, t, Len(s))
<1>1. Len(s) \in Nat /\ Len(t) \in Nat BY LenProperties
<1>2. ASSUME Len(s) <= Len(t)
      PROVE  SubSeq(s, 1, Len(s)) = SubSeq(t, 1, Len(s)) <=>
               SameStart(s, t, Len(s))
  <2> DEFINE n == Len(s)
             x == SubSeq(s, 1, n)
             y == SubSeq(t, 1, n)
  <2>1. /\ x \in Seq(Nat) /\ Len(x) = n /\ \A i \in 1..n : x[i] = s[i]
        /\ y \in Seq(Nat) /\ Len(y) = n /\ \A i \in 1..n : y[i] = t[i]
    BY <1>1, <1>2
  <2>2. x = y <=> \A i \in 1..n : x[i] = y[i]
    <3> HIDE DEF x, y
    <3>1. (\A i \in 1..n : x[i] = y[i]) => x = y BY <2>1, SeqEqual
    <3> QED BY <3>1
  <2> HIDE DEF x, y
  <2> QED BY <2>1, <2>2 DEF SameStart, x, y
<1> QED BY <1>2 DEF IsPrefix

LEMMA BeforeItself == ASSUME NEW s \in Seq(Nat) PROVE Before(s, s)
BY PrefixIs, LenProperties DEF Before, SameStart

Strictly(s, t) == Before(s, t) /\ ~Before(t, s)

\* The first byte in which two keys differ decides.
LEMMA DecidedAt ==
  ASSUME NEW s \in Seq(Nat), NEW t \in Seq(Nat), NEW k \in 1..Len(s),
         k <= Len(t), s[k] < t[k], SameStart(s, t, k - 1)
  PROVE  Strictly(s, t)
<1>1. Len(s) \in Nat /\ Len(t) \in Nat BY LenProperties
<1>2. k \in 1..Len(t) /\ s[k] \in Nat /\ t[k] \in Nat BY <1>1, ElementOfSeq
<1>3. Before(s, t) BY DEF Before, SameStart
<1>4. ~IsPrefix(t, s) BY <1>2, PrefixIs DEF SameStart
<1>5. ASSUME NEW i \in 1..Len(t), i <= Len(s), t[i] < s[i],
             \A j \in 1..(i - 1) : t[j] = s[j]
      PROVE  FALSE
  <2>1. s[i] \in Nat /\ t[i] \in Nat
    <3>1. i \in 1..Len(s) /\ i \in 1..Len(t) BY <1>1, <1>5
    <3> QED BY <3>1, ElementOfSeq
  <2>2. CASE i < k BY <1>1, <1>5, <2>1, <2>2 DEF SameStart
  <2>3. CASE i = k BY <1>2, <1>5, <2>3
  <2>4. CASE i > k
    <3>1. k \in 1..(i - 1) BY <1>1, <2>4
    <3>2. t[k] = s[k] BY <1>5, <3>1
    <3> QED BY <1>2, <3>2
  <2> QED BY <1>1, <2>2, <2>3, <2>4
<1> QED BY <1>3, <1>4, <1>5 DEF Strictly, Before

LEMMA LessIdFirst ==
  ASSUME NEW s \in Seq(Nat), NEW t \in Seq(Nat), NEW at \in Nat,
         at + IdBytes <= Len(s), at + IdBytes <= Len(t), SameStart(s, t, at),
         NEW n \in Uint64, NEW m \in Uint64, Holds(s, at, n), Holds(t, at, m),
         n < m
  PROVE  Strictly(s, t)
<1>1. PICK i \in 1..IdBytes :
        /\ BigEndian(n)[i] < BigEndian(m)[i]
        /\ \A j \in 1..(i - 1) : BigEndian(n)[j] = BigEndian(m)[j]
  BY FirstDifference
<1>2. /\ Len(s) \in Nat /\ Len(t) \in Nat /\ IdBytes \in Nat
      /\ at + i \in 1..Len(s) /\ at + i <= Len(t)
  BY StoreAssumption, LenProperties
<1>3. s[at + i] < t[at + i] BY <1>1 DEF Holds
<1>4. SameStart(s, t, (at + i) - 1)
  <2>1. ASSUME NEW j \in 1..((at + i) - 1) PROVE s[j] = t[j]
    <3>1. CASE j <= at BY <3>1 DEF SameStart
    <3>2. CASE j > at
      <4>1. j - at \in 1..(i - 1) /\ j - at \in 1..IdBytes /\ j = at + (j - at)
        BY <1>2, <3>2
      <4> QED BY <1>1, <4>1 DEF Holds
    <3> QED BY <3>1, <3>2
  <2> QED BY <2>1 DEF SameStart
<1> QED BY <1>2, <1>3, <1>4, DecidedAt

\* Two keys that have the same first bytes and hold the same id after them.
LEMMA SameId ==
  ASSUME NEW s, NEW t, NEW at \in Nat, SameStart(s, t, at),
         NEW n, Holds(s, at, n), Holds(t, at, n)
  PROVE  SameStart(s, t, at + IdBytes)
<1>1. IdBytes \in Nat BY StoreAssumption
<1>2. ASSUME NEW j \in 1..(at + IdBytes), j > at PROVE s[j] = t[j]
  <2>1. j - at \in 1..IdBytes /\ j = at + (j - at) BY <1>1, <1>2
  <2> QED BY <2>1 DEF Holds
<1> QED BY <1>1, <1>2 DEF SameStart

LEMMA IdOrder ==
  ASSUME NEW s \in Seq(Nat), NEW t \in Seq(Nat), NEW at \in Nat,
         Len(s) = at + IdBytes, Len(t) = at + IdBytes, SameStart(s, t, at),
         NEW n \in Uint64, NEW m \in Uint64, Holds(s, at, n), Holds(t, at, m)
  PROVE  Before(s, t) <=> n <= m
<1>1. n \in Nat /\ m \in Nat /\ IdBytes \in Nat BY TopFacts, StoreAssumption
<1>2. SameStart(t, s, at) BY DEF SameStart
<1>3. at + IdBytes <= Len(s) /\ at + IdBytes <= Len(t) BY <1>1
<1>4. CASE n < m
  <2>1. Strictly(s, t) BY <1>4, <1>3, LessIdFirst
  <2> QED BY <1>1, <1>4, <2>1 DEF Strictly
<1>5. CASE m < n
  <2>1. Strictly(t, s) BY <1>2, <1>5, <1>3, LessIdFirst
  <2> QED BY <1>1, <1>5, <2>1 DEF Strictly
<1>6. CASE n = m
  <2>1. SameStart(s, t, Len(s)) BY <1>6, SameId
  <2>2. IsPrefix(s, t)
    <3>1. Len(s) <= Len(t) BY <1>1
    <3> QED BY <2>1, <3>1, PrefixIs
  <2> QED BY <1>1, <1>6, <2>2 DEF Before
<1> QED BY <1>1, <1>4, <1>5, <1>6

LEMMA PairOrder ==
  ASSUME NEW s \in Seq(Nat), NEW t \in Seq(Nat), NEW at \in Nat,
         Len(s) = (at + IdBytes) + IdBytes, Len(t) = (at + IdBytes) + IdBytes,
         SameStart(s, t, at),
         NEW n \in Uint64, NEW m \in Uint64, Holds(s, at, n), Holds(t, at, m),
         NEW k \in Uint64, NEW j \in Uint64,
         Holds(s, at + IdBytes, k), Holds(t, at + IdBytes, j)
  PROVE  Before(s, t) <=> n < m \/ (n = m /\ k <= j)
<1>1. n \in Nat /\ m \in Nat /\ IdBytes \in Nat BY TopFacts, StoreAssumption
<1>2. SameStart(t, s, at) BY DEF SameStart
<1>3. at + IdBytes <= Len(s) /\ at + IdBytes <= Len(t) BY <1>1
<1>4. CASE n < m
  <2>1. Strictly(s, t) BY <1>4, <1>3, LessIdFirst
  <2> QED BY <1>1, <1>4, <2>1 DEF Strictly
<1>5. CASE m < n
  <2>1. Strictly(t, s) BY <1>2, <1>5, <1>3, LessIdFirst
  <2> QED BY <1>1, <1>5, <2>1 DEF Strictly
<1>6. CASE n = m
  <2>1. SameStart(s, t, at + IdBytes) BY <1>6, SameId
  <2>2. Before(s, t) <=> k <= j BY <1>1, <2>1, IdOrder
  <2> QED BY <1>1, <1>6, <2>2
<1> QED BY <1>1, <1>4, <1>5, <1>6

LEMMA TripleOrder ==
  ASSUME NEW s \in Seq(Nat), NEW t \in Seq(Nat), NEW at \in Nat,
         Len(s) = ((at + IdBytes) + IdBytes) + IdBytes,
         Len(t) = ((at + IdBytes) + IdBytes) + IdBytes,
         SameStart(s, t, at),
         NEW n \in Uint64, NEW m \in Uint64, Holds(s, at, n), Holds(t, at, m),
         NEW k \in Uint64, NEW j \in Uint64,
         Holds(s, at + IdBytes, k), Holds(t, at + IdBytes, j),
         NEW x \in Uint64, NEW y \in Uint64,
         Holds(s, (at + IdBytes) + IdBytes, x),
         Holds(t, (at + IdBytes) + IdBytes, y)
  PROVE  Before(s, t) <=> n < m \/ (n = m /\ (k < j \/ (k = j /\ x <= y)))
<1>1. n \in Nat /\ m \in Nat /\ IdBytes \in Nat BY TopFacts, StoreAssumption
<1>2. SameStart(t, s, at) BY DEF SameStart
<1>3. at + IdBytes <= Len(s) /\ at + IdBytes <= Len(t) BY <1>1
<1>4. CASE n < m
  <2>1. Strictly(s, t) BY <1>4, <1>3, LessIdFirst
  <2> QED BY <1>1, <1>4, <2>1 DEF Strictly
<1>5. CASE m < n
  <2>1. Strictly(t, s) BY <1>2, <1>5, <1>3, LessIdFirst
  <2> QED BY <1>1, <1>5, <2>1 DEF Strictly
<1>6. CASE n = m
  <2>1. SameStart(s, t, at + IdBytes) BY <1>6, SameId
  <2>2. at + IdBytes \in Nat BY <1>1
  <2>3. Before(s, t) <=> k < j \/ (k = j /\ x <= y)
    <3> DEFINE a == at + IdBytes
    <3>1. a \in Nat /\ SameStart(s, t, a) BY <2>1, <2>2
    <3>2. /\ Len(s) = (a + IdBytes) + IdBytes /\ Len(t) = (a + IdBytes) + IdBytes
          /\ Holds(s, a, k) /\ Holds(t, a, j)
          /\ Holds(s, a + IdBytes, x) /\ Holds(t, a + IdBytes, y)
      OBVIOUS
    <3> HIDE DEF a
    <3> QED BY <3>1, <3>2, PairOrder
  <2> QED BY <1>1, <1>6, <2>3
<1> QED BY <1>1, <1>4, <1>5, <1>6

-----------------------------------------------------------------------------
(***************************************************************************)
(* The parts of a key.                                                     *)
(***************************************************************************)
LEMMA WithId ==
  ASSUME NEW s \in Seq(Nat), NEW n \in Uint64
  PROVE  LET t == s \o BigEndian(n)
         IN  /\ t \in Seq(Nat) /\ Len(t) = Len(s) + IdBytes
             /\ SameStart(s, t, Len(s)) /\ Holds(t, Len(s), n)
<1> DEFINE x == BigEndian(n)
           t == s \o x
<1>1. x \in Seq(Nat) /\ Len(x) = IdBytes BY BigEndianType
<1>2. Len(s) \in Nat /\ IdBytes \in Nat BY LenProperties, StoreAssumption
<1> HIDE DEF x
<1>3. /\ t \in Seq(Nat) /\ Len(t) = Len(s) + IdBytes
      /\ \A i \in 1..(Len(s) + IdBytes) :
           t[i] = IF i <= Len(s) THEN s[i] ELSE x[i - Len(s)]
  BY <1>1, ConcatProperties
<1> HIDE DEF t
<1>4. SameStart(s, t, Len(s))
  <2>1. ASSUME NEW i \in 1..Len(s) PROVE s[i] = t[i]
    <3>1. i \in 1..(Len(s) + IdBytes) /\ i <= Len(s) BY <1>2
    <3> QED BY <1>3, <3>1
  <2> QED BY <2>1 DEF SameStart
<1>5. ASSUME NEW i \in 1..IdBytes PROVE t[Len(s) + i] = x[i]
  <2>1. /\ Len(s) + i \in 1..(Len(s) + IdBytes) /\ ~(Len(s) + i <= Len(s))
        /\ (Len(s) + i) - Len(s) = i
    BY <1>2
  <2> QED BY <1>3, <2>1
<1> QED BY <1>3, <1>4, <1>5 DEF Holds, t, x

\* From its byte at + 1 on, s has the address a with its length in front.
HoldsAddress(s, at, a) ==
  s[at + 1] = Len(a) /\ \A i \in 1..Len(a) : s[(at + 1) + i] = a[i]

LEMMA AddressType ==
  ASSUME NEW a \in Addresses
  PROVE  /\ a \in Seq(Nat) /\ Len(a) \in 1..255
         /\ LengthPrefix(a) \in Seq(Nat) /\ Len(LengthPrefix(a)) = Len(a) + 1
         /\ LengthPrefix(a)[1] = Len(a)
         /\ \A i \in 1..Len(a) : LengthPrefix(a)[1 + i] = a[i]
<1>1. a \in Seq(0..255) /\ Len(a) \in 1..255 BY StoreAssumption
<1>2. a \in Seq(Nat)
  <2> DEFINE l == Len(a)
             f == [i \in 1..l |-> a[i]]
  <2>1. \A i \in 1..l : a[i] \in 0..255 BY <1>1, ElementOfSeq
  <2>2. a = f BY <1>1, LenProperties
  <2>3. l \in Nat BY <1>1
  <2> HIDE DEF l
  <2>4. f \in Seq(Nat) BY <2>1, <2>3
  <2> QED BY <2>2, <2>4
<1> DEFINE n == <<Len(a)>>
           s == n \o a
<1>3. n \in Seq(Nat) /\ Len(n) = 1 /\ n[1] = Len(a) BY <1>1
<1> HIDE DEF n
<1>4. /\ s \in Seq(Nat) /\ Len(s) = 1 + Len(a)
      /\ \A i \in 1..(1 + Len(a)) : s[i] = IF i <= 1 THEN n[i] ELSE a[i - 1]
  <2>1. /\ s \in Seq(Nat) /\ Len(s) = Len(n) + Len(a)
        /\ \A i \in 1..(Len(n) + Len(a)) :
             s[i] = IF i <= Len(n) THEN n[i] ELSE a[i - Len(n)]
    BY <1>2, <1>3, ConcatProperties, Zenon
  <2> HIDE DEF s
  <2> QED BY <1>3, <2>1
<1>5. s = LengthPrefix(a) BY DEF LengthPrefix, n
<1> HIDE DEF s
<1>6. s[1] = Len(a)
  <2>1. Len(a) \in Nat BY <1>1
  <2>2. 1 \in 1..(1 + Len(a)) /\ 1 <= 1 BY <2>1
  <2>3. s[1] = n[1] BY <1>4, <2>2
  <2> QED BY <1>3, <2>3
<1>7. ASSUME NEW i \in 1..Len(a) PROVE s[1 + i] = a[i]
  <2>1. 1 + i \in 1..(1 + Len(a)) /\ ~(1 + i <= 1) /\ (1 + i) - 1 = i BY <1>1
  <2> QED BY <1>4, <2>1
<1>8. Len(s) = Len(a) + 1 BY <1>1, <1>4
<1> QED BY <1>1, <1>2, <1>4, <1>5, <1>6, <1>7, <1>8

LEMMA WithAddress ==
  ASSUME NEW s \in Seq(Nat), NEW a \in Addresses
  PROVE  LET t == s \o LengthPrefix(a)
         IN  /\ t \in Seq(Nat) /\ Len(t) = Len(s) + (Len(a) + 1)
             /\ SameStart(s, t, Len(s)) /\ HoldsAddress(t, Len(s), a)
<1> DEFINE x == LengthPrefix(a)
           t == s \o x
           n == Len(a)
<1>1. /\ x \in Seq(Nat) /\ Len(x) = n + 1 /\ n \in 1..255
      /\ x[1] = n /\ \A i \in 1..n : x[1 + i] = a[i]
  BY AddressType
<1>2. Len(s) \in Nat BY LenProperties
<1> HIDE DEF x
<1>3. /\ t \in Seq(Nat) /\ Len(t) = Len(s) + (n + 1)
      /\ \A i \in 1..(Len(s) + (n + 1)) :
           t[i] = IF i <= Len(s) THEN s[i] ELSE x[i - Len(s)]
  <2>1. /\ t \in Seq(Nat) /\ Len(t) = Len(s) + Len(x)
        /\ \A i \in 1..(Len(s) + Len(x)) :
             t[i] = IF i <= Len(s) THEN s[i] ELSE x[i - Len(s)]
    <3>1. x \in Seq(Nat) BY <1>1
    <3> HIDE DEF n
    <3> QED BY <3>1, ConcatProperties
  <2> HIDE DEF t, n
  <2> QED BY <1>1, <2>1
<1> HIDE DEF t, n
<1>4. SameStart(s, t, Len(s))
  <2>1. n \in Nat BY <1>1
  <2>2. ASSUME NEW i \in 1..Len(s) PROVE s[i] = t[i]
    <3>1. i \in 1..(Len(s) + (n + 1)) /\ i <= Len(s) BY <1>2, <2>1
    <3> QED BY <1>3, <3>1
  <2> QED BY <2>2 DEF SameStart
<1>5. ASSUME NEW i \in 1..(n + 1) PROVE t[Len(s) + i] = x[i]
  <2>1. /\ Len(s) + i \in 1..(Len(s) + (n + 1)) /\ ~(Len(s) + i <= Len(s))
        /\ (Len(s) + i) - Len(s) = i
    BY <1>1, <1>2
  <2> QED BY <1>3, <2>1
<1>6. t[Len(s) + 1] = n
  <2>1. 1 \in 1..(n + 1) BY <1>1
  <2> QED BY <1>1, <1>5, <2>1
<1>7. ASSUME NEW i \in 1..n PROVE t[(Len(s) + 1) + i] = a[i]
  <2>1. 1 + i \in 1..(n + 1) /\ (Len(s) + 1) + i = Len(s) + (1 + i) BY <1>1, <1>2
  <2> QED BY <1>1, <1>5, <2>1
<1> QED BY <1>3, <1>4, <1>6, <1>7 DEF HoldsAddress, t, x, n

\* What is at the start of a key is there in what it is the start of.
LEMMA StaysInside ==
  ASSUME NEW s, NEW t, NEW l \in Nat, SameStart(s, t, l), NEW at \in Nat
  PROVE  /\ \A n : at + IdBytes <= l /\ Holds(s, at, n) => Holds(t, at, n)
         /\ \A a \in Addresses : at + (Len(a) + 1) <= l /\ HoldsAddress(s, at, a) =>
              HoldsAddress(t, at, a)
         /\ \A n \in 0..l : SameStart(s, t, n)
<1>1. IdBytes \in Nat BY StoreAssumption
<1>2. ASSUME NEW n, at + IdBytes <= l, Holds(s, at, n) PROVE Holds(t, at, n)
  <2>1. \A i \in 1..IdBytes : at + i \in 1..l BY <1>1, <1>2
  <2> QED BY <1>2, <2>1 DEF Holds, SameStart
<1>3. ASSUME NEW a \in Addresses, at + (Len(a) + 1) <= l, HoldsAddress(s, at, a)
      PROVE  HoldsAddress(t, at, a)
  <2>1. Len(a) \in 1..255 BY AddressType
  <2>2. at + 1 \in 1..l /\ \A i \in 1..Len(a) : (at + 1) + i \in 1..l
    BY <1>3, <2>1
  <2> QED BY <1>3, <2>2 DEF HoldsAddress, SameStart
<1>4. \A n \in 0..l : SameStart(s, t, n) BY DEF SameStart
<1> QED BY <1>2, <1>3, <1>4

-----------------------------------------------------------------------------
(***************************************************************************)
(* The shapes of the keys.                                                 *)
(***************************************************************************)
LEMMA IdKey ==
  ASSUME NEW b \in Nat, NEW n \in Uint64
  PROVE  LET t == <<b>> \o BigEndian(n)
         IN  /\ t \in Seq(Nat) /\ Len(t) = 1 + IdBytes /\ t[1] = b
             /\ Holds(t, 1, n)
<1> DEFINE p == <<b>>
<1>1. p \in Seq(Nat) /\ Len(p) = 1 /\ p[1] = b OBVIOUS
<1> HIDE DEF p
<1>2. /\ p \o BigEndian(n) \in Seq(Nat)
      /\ Len(p \o BigEndian(n)) = 1 + IdBytes
      /\ SameStart(p, p \o BigEndian(n), 1)
      /\ Holds(p \o BigEndian(n), 1, n)
  <2>1. LET t == p \o BigEndian(n)
        IN  /\ t \in Seq(Nat) /\ Len(t) = Len(p) + IdBytes
            /\ SameStart(p, t, Len(p)) /\ Holds(t, Len(p), n)
    BY <1>1, WithId, Zenon
  <2> QED BY <1>1, <2>1
<1> QED BY <1>1, <1>2 DEF SameStart, p

LEMMA PairKey ==
  ASSUME NEW b \in Nat, NEW n \in Uint64, NEW k \in Uint64
  PROVE  LET s == <<b>> \o BigEndian(n)
             t == s \o BigEndian(k)
         IN  /\ t \in Seq(Nat) /\ Len(t) = (1 + IdBytes) + IdBytes /\ t[1] = b
             /\ SameStart(s, t, 1 + IdBytes)
             /\ Holds(t, 1, n) /\ Holds(t, 1 + IdBytes, k)
<1> DEFINE s == <<b>> \o BigEndian(n)
           t == s \o BigEndian(k)
<1>1. s \in Seq(Nat) /\ Len(s) = 1 + IdBytes /\ s[1] = b /\ Holds(s, 1, n)
  BY IdKey
<1> HIDE DEF s
<1>2. /\ t \in Seq(Nat) /\ Len(t) = Len(s) + IdBytes
      /\ SameStart(s, t, Len(s)) /\ Holds(t, Len(s), k)
  BY <1>1, WithId
<1> HIDE DEF t
<1>3. IdBytes \in Nat \ {0} BY StoreAssumption
<1>4. Holds(t, 1, n) BY <1>1, <1>2, <1>3, StaysInside
<1>5. t[1] = b BY <1>1, <1>2, <1>3 DEF SameStart
<1> QED BY <1>1, <1>2, <1>4, <1>5 DEF s, t

\* The two numbers of a time are ids, and decide which time is earlier.
LEMMA TimeParts ==
  ASSUME NEW t \in Uint64, NEW u \in Uint64
  PROVE  /\ t \div DayLength \in Uint64 /\ t % DayLength \in Uint64
         /\ t <= u <=>
              \/ t \div DayLength < u \div DayLength
              \/ /\ t \div DayLength = u \div DayLength
                 /\ t % DayLength <= u % DayLength
<1> DEFINE d == t \div DayLength
           c == t % DayLength
           e == u \div DayLength
           f == u % DayLength
<1>1. /\ DayLength \in Uint64 \ {0} /\ DayLength \in Nat \ {0}
      /\ t \in Nat /\ u \in Nat
  BY StoreAssumption, TopFacts
<1>2. d \in Nat /\ c \in 0..(DayLength - 1) /\ t = (d * DayLength) + c
  BY <1>1, Division
<1>3. e \in Nat /\ f \in 0..(DayLength - 1) /\ u = (e * DayLength) + f
  BY <1>1, Division
<1> HIDE DEF d, c, e, f
<1>4. d <= t /\ c <= t
  <2>1. d * DayLength >= d BY <1>1, <1>2
  <2>2. d * DayLength \in Nat BY <1>1, <1>2
  <2> QED BY <1>1, <1>2, <2>1, <2>2
<1>5. \A n \in Nat : n <= t => n \in Uint64 BY <1>1, PowerFacts, StoreAssumption DEF Uint64
<1>6. ASSUME NEW x \in Nat, NEW y \in Nat, x < y
      PROVE  (x * DayLength) + DayLength <= y * DayLength
  <2>1. PICK z \in Nat : y = (x + 1) + z
    <3>1. y - (x + 1) \in Nat /\ y = (x + 1) + (y - (x + 1)) BY <1>6
    <3> QED BY <3>1
  <2>2. y * DayLength = ((x * DayLength) + DayLength) + (z * DayLength)
    BY <1>1, <2>1
  <2>3. z * DayLength \in Nat /\ x * DayLength \in Nat BY <1>1
  <2> QED BY <1>1, <2>2, <2>3
<1> DEFINE p == d * DayLength
           q == e * DayLength
<1>7. p \in Nat /\ q \in Nat BY <1>1, <1>2, <1>3
<1>8. d < e => p + DayLength <= q BY <1>2, <1>3, <1>6
<1>9. e < d => q + DayLength <= p BY <1>2, <1>3, <1>6
<1>10. d = e => p = q OBVIOUS
<1>11. t = p + c /\ u = q + f BY <1>2, <1>3
<1> HIDE DEF p, q
<1>12. t <= u <=> d < e \/ (d = e /\ c <= f)
  BY <1>1, <1>2, <1>3, <1>7, <1>8, <1>9, <1>10, <1>11
<1>13. d \in Uint64 /\ c \in Uint64 BY <1>1, <1>2, <1>4, <1>5
<1> QED BY <1>12, <1>13 DEF d, c, e, f

LEMMA QueueKey ==
  ASSUME NEW n \in Uint64, NEW k \in Uint64
  PROVE  LET t == GetVestingQueueKey(n, k)
         IN  /\ t \in Seq(Nat) /\ Len(t) = ((1 + IdBytes) + IdBytes) + IdBytes
             /\ t[1] = 65 /\ Holds(t, 1, n)
             /\ Holds(t, 1 + IdBytes, k \div DayLength)
             /\ Holds(t, (1 + IdBytes) + IdBytes, k % DayLength)
<1> DEFINE d == k \div DayLength
           c == k % DayLength
           s == <<65>> \o BigEndian(n)
           x == BigEndian(d)
           y == x \o BigEndian(c)
           t == s \o y
<1>1. t = GetVestingQueueKey(n, k)
  BY DEF GetVestingQueueKey, GetVestingQueueByAuctionIdPrefix,
         VestingQueueKeyPrefix, FormatTimeBytes
<1>2. d \in Uint64 /\ c \in Uint64 BY TimeParts
<1> HIDE DEF d, c
<1>3. s \in Seq(Nat) /\ Len(s) = 1 + IdBytes /\ s[1] = 65 /\ Holds(s, 1, n)
  BY IdKey
<1>4. x \in Seq(Nat) /\ Len(x) = IdBytes BY <1>2, BigEndianType
<1>5. IdBytes \in Nat \ {0} BY StoreAssumption
<1>6. /\ y \in Seq(Nat) /\ Len(y) = IdBytes + IdBytes
      /\ SameStart(x, y, IdBytes) /\ Holds(y, IdBytes, c)
  <2> HIDE DEF x
  <2>1. /\ y \in Seq(Nat) /\ Len(y) = Len(x) + IdBytes
        /\ SameStart(x, y, Len(x)) /\ Holds(y, Len(x), c)
    BY <1>2, <1>4, WithId
  <2> QED BY <1>4, <2>1
<1>7. \A i \in 1..IdBytes : y[i] = BigEndian(d)[i] BY <1>6 DEF SameStart
<1> HIDE DEF s, x, y
<1>8. /\ t \in Seq(Nat) /\ Len(t) = Len(s) + Len(y)
      /\ \A i \in 1..(Len(s) + Len(y)) :
           t[i] = IF i <= Len(s) THEN s[i] ELSE y[i - Len(s)]
  <2>1. s \in Seq(Nat) /\ y \in Seq(Nat) BY <1>3, <1>6
  <2> QED BY <2>1, ConcatProperties
<1> HIDE DEF t
<1>9. Len(t) = ((1 + IdBytes) + IdBytes) + IdBytes BY <1>3, <1>5, <1>6, <1>8
<1>10. SameStart(s, t, 1 + IdBytes)
  <2>1. \A i \in 1..(1 + IdBytes) : i \in 1..(Len(s) + Len(y)) /\ i <= Len(s)
    BY <1>3, <1>5, <1>6
  <2> QED BY <1>8, <2>1 DEF SameStart
<1>11. t[1] = 65 BY <1>3, <1>5, <1>10 DEF SameStart
<1>12. Holds(t, 1, n) BY <1>3, <1>5, <1>10, StaysInside
<1>13. \A i \in 1..(IdBytes + IdBytes) : t[(1 + IdBytes) + i] = y[i]
  <2> SUFFICES ASSUME NEW i \in 1..(IdBytes + IdBytes)
               PROVE  t[(1 + IdBytes) + i] = y[i]
    OBVIOUS
  <2>1. /\ (1 + IdBytes) + i \in 1..(Len(s) + Len(y))
        /\ ~((1 + IdBytes) + i <= Len(s))
        /\ ((1 + IdBytes) + i) - Len(s) = i
    BY <1>3, <1>5, <1>6
  <2> QED BY <1>8, <2>1
<1>14. Holds(t, 1 + IdBytes, d)
  <2>1. \A i \in 1..IdBytes : i \in 1..(IdBytes + IdBytes) BY <1>5
  <2> QED BY <1>7, <1>13, <2>1 DEF Holds
<1>15. Holds(t, (1 + IdBytes) + IdBytes, c)
  <2> SUFFICES ASSUME NEW i \in 1..IdBytes
               PROVE  t[((1 + IdBytes) + IdBytes) + i] = BigEndian(c)[i]
    BY DEF Holds
  <2>1. /\ IdBytes + i \in 1..(IdBytes + IdBytes)
        /\ ((1 + IdBytes) + IdBytes) + i = (1 + IdBytes) + (IdBytes + i)
    BY <1>5
  <2>2. y[IdBytes + i] = BigEndian(c)[i] BY <1>6 DEF Holds
  <2> QED BY <1>13, <2>1, <2>2
<1> QED BY <1>1, <1>8, <1>9, <1>11, <1>12, <1>14, <1>15 DEF d, c

LEMMA AllowedKey ==
  ASSUME NEW b \in Nat, NEW n \in Uint64, NEW a \in Addresses
  PROVE  LET s == <<b>> \o BigEndian(n)
             t == s \o LengthPrefix(a)
         IN  /\ t \in Seq(Nat) /\ Len(t) >= 1 + IdBytes /\ t[1] = b
             /\ SameStart(s, t, 1 + IdBytes) /\ Holds(t, 1, n)
             /\ HoldsAddress(t, 1 + IdBytes, a)
<1> DEFINE s == <<b>> \o BigEndian(n)
           t == s \o LengthPrefix(a)
<1>1. s \in Seq(Nat) /\ Len(s) = 1 + IdBytes /\ s[1] = b /\ Holds(s, 1, n)
  BY IdKey
<1> HIDE DEF s
<1>2. /\ t \in Seq(Nat) /\ Len(t) = Len(s) + (Len(a) + 1)
      /\ SameStart(s, t, Len(s)) /\ HoldsAddress(t, Len(s), a)
  BY <1>1, WithAddress
<1> HIDE DEF t
<1>3. IdBytes \in Nat \ {0} /\ Len(a) \in Nat BY StoreAssumption, AddressType
<1>4. Holds(t, 1, n) BY <1>1, <1>2, <1>3, StaysInside
<1>5. t[1] = b BY <1>1, <1>2, <1>3 DEF SameStart
<1>6. Len(t) >= 1 + IdBytes BY <1>1, <1>2, <1>3
<1> QED BY <1>1, <1>2, <1>4, <1>5, <1>6 DEF s, t

LEMMA IndexPrefix ==
  ASSUME NEW a \in Addresses
  PROVE  LET s == GetBidIndexByBidderPrefix(a)
         IN  /\ s \in Seq(Nat) /\ Len(s) = Len(a) + 2 /\ s[1] = 50
             /\ HoldsAddress(s, 1, a)
<1> DEFINE p == BidIndexKeyPrefix
           s == p \o LengthPrefix(a)
<1>1. p \in Seq(Nat) /\ Len(p) = 1 /\ p[1] = 50 BY DEF BidIndexKeyPrefix
<1> HIDE DEF p
<1>2. /\ s \in Seq(Nat) /\ Len(s) = Len(p) + (Len(a) + 1)
      /\ SameStart(p, s, Len(p)) /\ HoldsAddress(s, Len(p), a)
  BY <1>1, WithAddress
<1>3. s = GetBidIndexByBidderPrefix(a) BY DEF GetBidIndexByBidderPrefix, p
<1> HIDE DEF s
<1>4. Len(a) \in Nat BY AddressType
<1>5. s[1] = 50 /\ Len(s) = Len(a) + 2 BY <1>1, <1>2, <1>4 DEF SameStart
<1> QED BY <1>1, <1>2, <1>3, <1>5

LEMMA IndexKey ==
  ASSUME NEW a \in Addresses, NEW n \in Uint64, NEW k \in Uint64
  PROVE  LET s == GetBidIndexByBidderPrefix(a)
             t == GetBidIndexKey(a, n, k)
             at == Len(a) + 2
         IN  /\ t \in Seq(Nat) /\ Len(t) = (at + IdBytes) + IdBytes /\ t[1] = 50
             /\ SameStart(s, t, at) /\ HoldsAddress(t, 1, a)
             /\ Holds(t, at, n) /\ Holds(t, at + IdBytes, k)
<1> DEFINE s == GetBidIndexByBidderPrefix(a)
           u == s \o BigEndian(n)
           t == u \o BigEndian(k)
           at == Len(a) + 2
<1>1. s \in Seq(Nat) /\ Len(s) = at /\ s[1] = 50 /\ HoldsAddress(s, 1, a)
  BY IndexPrefix
<1>2. IdBytes \in Nat \ {0} /\ Len(a) \in 1..255 /\ at \in Nat
  <2>1. Len(a) \in 1..255 BY AddressType
  <2>2. IdBytes \in Nat \ {0} BY StoreAssumption
  <2> QED BY <2>1, <2>2
<1>3. t = GetBidIndexKey(a, n, k) BY DEF GetBidIndexKey
<1> HIDE DEF s
<1>4. /\ u \in Seq(Nat) /\ Len(u) = Len(s) + IdBytes
      /\ SameStart(s, u, Len(s)) /\ Holds(u, Len(s), n)
  BY <1>1, WithId
<1> HIDE DEF u
<1>5. /\ t \in Seq(Nat) /\ Len(t) = Len(u) + IdBytes
      /\ SameStart(u, t, Len(u)) /\ Holds(t, Len(u), k)
  BY <1>4, WithId
<1> HIDE DEF t
<1>6. Len(u) = at + IdBytes /\ Len(t) = (at + IdBytes) + IdBytes
  BY <1>1, <1>4, <1>5
<1>7. Holds(t, at, n)
  <2>1. at \in Nat /\ IdBytes \in Nat BY <1>2
  <2> HIDE DEF at
  <2>2. Holds(u, at, n) BY <1>1, <1>4
  <2>3. at + IdBytes <= Len(u) /\ Len(u) \in Nat BY <1>6, <2>1
  <2>4. SameStart(u, t, Len(u)) BY <1>5
  <2> QED BY <2>1, <2>2, <2>3, <2>4, StaysInside
<1>8. SameStart(s, t, at)
  <2>1. \A i \in 1..at : i \in 1..(at + IdBytes) BY <1>2
  <2>2. \A i \in 1..at : s[i] = u[i] BY <1>1, <1>4 DEF SameStart
  <2>3. \A i \in 1..(at + IdBytes) : u[i] = t[i] BY <1>5, <1>6 DEF SameStart
  <2> HIDE DEF at
  <2> QED BY <2>1, <2>2, <2>3 DEF SameStart
<1>9. HoldsAddress(t, 1, a)
  <2>1. 1 + (Len(a) + 1) <= at BY <1>2
  <2> QED BY <1>1, <1>2, <1>8, <2>1, StaysInside
<1>10. t[1] = 50
  <2>1. 1 \in 1..at BY <1>2
  <2> HIDE DEF at
  <2> QED BY <1>1, <1>8, <2>1 DEF SameStart
<1>11. Holds(t, at + IdBytes, k) BY <1>5, <1>6
<1> HIDE DEF at
<1> QED BY <1>3, <1>5, <1>6, <1>7, <1>8, <1>9, <1>10, <1>11 DEF s, at

-----------------------------------------------------------------------------
(***************************************************************************)
(* The keys are in the order of their ids.                                 *)
(***************************************************************************)

\* types/keys.go: for any number of bytes of an id and any addresses, the store
\* yields auctions in the order of their ids, the bids of all auctions in the order
\* of auctions and bids, the vesting queues in that of auctions and release times,
\* and the index of a bidder in that of the bids.
LEMMA OrderOfKeys ==
  ASSUME NEW id \in Uint64, NEW j \in Uint64, NEW k \in Uint64, NEW n \in Uint64
  PROVE  LET before == id < j \/ (id = j /\ k <= n)
         IN  /\ Before(GetAuctionKey(id), GetAuctionKey(j)) <=> id <= j
             /\ Before(GetBidKey(id, k), GetBidKey(j, n)) <=> before
             /\ Before(GetVestingQueueKey(id, k), GetVestingQueueKey(j, n)) <=>
                  before
             /\ \A a \in Addresses :
                  Before(GetBidIndexKey(a, id, k), GetBidIndexKey(a, j, n)) <=>
                    before
<1>1. Before(GetAuctionKey(id), GetAuctionKey(j)) <=> id <= j
  <2> DEFINE s == GetAuctionKey(id)
             t == GetAuctionKey(j)
  <2>1. /\ s \in Seq(Nat) /\ Len(s) = 1 + IdBytes /\ s[1] = 33 /\ Holds(s, 1, id)
        /\ t \in Seq(Nat) /\ Len(t) = 1 + IdBytes /\ t[1] = 33 /\ Holds(t, 1, j)
    BY IdKey DEF GetAuctionKey, AuctionKeyPrefix
  <2> HIDE DEF s, t
  <2>2. SameStart(s, t, 1) BY <2>1 DEF SameStart
  <2>3. Before(s, t) <=> id <= j BY <2>1, <2>2, IdOrder
  <2> QED BY <2>3 DEF s, t
<1>2. ASSUME NEW b \in Nat, NEW s, NEW t,
             s = (<<b>> \o BigEndian(id)) \o BigEndian(k),
             t = (<<b>> \o BigEndian(j)) \o BigEndian(n)
      PROVE  Before(s, t) <=> id < j \/ (id = j /\ k <= n)
  <2>1. /\ s \in Seq(Nat) /\ Len(s) = (1 + IdBytes) + IdBytes /\ s[1] = b
        /\ Holds(s, 1, id) /\ Holds(s, 1 + IdBytes, k)
    BY <1>2, PairKey
  <2>2. /\ t \in Seq(Nat) /\ Len(t) = (1 + IdBytes) + IdBytes /\ t[1] = b
        /\ Holds(t, 1, j) /\ Holds(t, 1 + IdBytes, n)
    BY <1>2, PairKey
  <2>3. SameStart(s, t, 1) BY <2>1, <2>2 DEF SameStart
  <2> QED BY <2>1, <2>2, <2>3, PairOrder
<1>3. Before(GetBidKey(id, k), GetBidKey(j, n)) <=> id < j \/ (id = j /\ k <= n)
  BY <1>2 DEF GetBidKey, GetBidByAuctionIdPrefix, BidKeyPrefix
<1>4. Before(GetVestingQueueKey(id, k), GetVestingQueueKey(j, n)) <=>
        id < j \/ (id = j /\ k <= n)
  <2> DEFINE s == GetVestingQueueKey(id, k)
             t == GetVestingQueueKey(j, n)
             d == k \div DayLength
             c == k % DayLength
             e == n \div DayLength
             f == n % DayLength
  <2>1. /\ s \in Seq(Nat) /\ Len(s) = ((1 + IdBytes) + IdBytes) + IdBytes
        /\ s[1] = 65 /\ Holds(s, 1, id) /\ Holds(s, 1 + IdBytes, d)
        /\ Holds(s, (1 + IdBytes) + IdBytes, c)
    BY QueueKey
  <2>2. /\ t \in Seq(Nat) /\ Len(t) = ((1 + IdBytes) + IdBytes) + IdBytes
        /\ t[1] = 65 /\ Holds(t, 1, j) /\ Holds(t, 1 + IdBytes, e)
        /\ Holds(t, (1 + IdBytes) + IdBytes, f)
    BY QueueKey
  <2>3. /\ d \in Uint64 /\ c \in Uint64 /\ e \in Uint64 /\ f \in Uint64
        /\ k <= n <=> d < e \/ (d = e /\ c <= f)
    BY TimeParts
  <2> HIDE DEF s, t, d, c, e, f
  <2>4. SameStart(s, t, 1) BY <2>1, <2>2 DEF SameStart
  <2>5. Before(s, t) <=> id < j \/ (id = j /\ (d < e \/ (d = e /\ c <= f)))
    BY <2>1, <2>2, <2>3, <2>4, TripleOrder
  <2> QED BY <2>3, <2>5 DEF s, t
<1>5. ASSUME NEW a \in Addresses
      PROVE  Before(GetBidIndexKey(a, id, k), GetBidIndexKey(a, j, n)) <=>
               id < j \/ (id = j /\ k <= n)
  <2> DEFINE p == GetBidIndexByBidderPrefix(a)
             s == GetBidIndexKey(a, id, k)
             t == GetBidIndexKey(a, j, n)
             at == Len(a) + 2
  <2>1. /\ s \in Seq(Nat) /\ Len(s) = (at + IdBytes) + IdBytes
        /\ SameStart(p, s, at) /\ Holds(s, at, id) /\ Holds(s, at + IdBytes, k)
    BY IndexKey
  <2>2. /\ t \in Seq(Nat) /\ Len(t) = (at + IdBytes) + IdBytes
        /\ SameStart(p, t, at) /\ Holds(t, at, j) /\ Holds(t, at + IdBytes, n)
    BY IndexKey
  <2>3. at \in Nat BY AddressType
  <2> HIDE DEF s, t, at, p
  <2>4. SameStart(s, t, at) BY <2>1, <2>2 DEF SameStart
  <2>5. Before(s, t) <=> id < j \/ (id = j /\ k <= n)
    BY <2>1, <2>2, <2>3, <2>4, PairOrder
  <2> QED BY <2>5 DEF s, t
<1> QED BY <1>1, <1>3, <1>4, <1>5

-----------------------------------------------------------------------------
(***************************************************************************)
(* Reading an id back.                                                     *)
(***************************************************************************)
LEMMA IdIsReadBack ==
  ASSUME NEW n \in Uint64, NEW bytes \in Seq(Nat), IdBytes <= Len(bytes),
         \A i \in 1..IdBytes : bytes[i] = BigEndian(n)[i]
  PROVE  BigEndianToUint64(bytes) = n
<1> DEFINE P(sum) ==
             sum = [i \in 0..IdBytes |->
                      IF i = 0 THEN 0
                      ELSE (sum[i - 1] * Radix) +
                             IF i > Len(bytes) THEN 0 ELSE bytes[i]]
           sum0 == CHOOSE sum : P(sum)
           f == [i \in 0..IdBytes |-> Top(n, i)]
<1>1. IdBytes \in Nat \ {0} /\ Len(bytes) \in Nat BY StoreAssumption, LenProperties
<1>2. ASSUME NEW i \in 0..IdBytes
      PROVE  f[i] = IF i = 0 THEN 0
                    ELSE (f[i - 1] * Radix) +
                           IF i > Len(bytes) THEN 0 ELSE bytes[i]
  <2>1. CASE i = 0 BY <1>1, <2>1, TopFacts
  <2>2. CASE i # 0
    <3>1. i \in 1..IdBytes /\ i - 1 \in 0..IdBytes /\ ~(i > Len(bytes))
      BY <1>1, <2>2
    <3>2. f[i] = Top(n, i) /\ f[i - 1] = Top(n, i - 1) BY <3>1
    <3>3. Top(n, i) = (Top(n, i - 1) * Radix) + BigEndian(n)[i] BY <3>1, TopFacts
    <3> HIDE DEF f
    <3> QED BY <2>2, <3>1, <3>2, <3>3
  <2> QED BY <2>1, <2>2
<1>3. P(f)
  <2> DEFINE g == [i \in 0..IdBytes |->
                     IF i = 0 THEN 0
                     ELSE (f[i - 1] * Radix) +
                            IF i > Len(bytes) THEN 0 ELSE bytes[i]]
  <2>1. f = g
    <3>1. f = [i \in 0..IdBytes |-> f[i]] OBVIOUS
    <3> HIDE DEF f
    <3> QED BY <1>2, <3>1
  <2> HIDE DEF f
  <2> QED BY <2>1
<1>4. P(sum0)
  <2> HIDE DEF P, f
  <2>1. \E sum : P(sum) BY <1>3
  <2> QED BY <2>1
<1>5. BigEndianToUint64(bytes) = sum0[IdBytes] BY DEF BigEndianToUint64
<1> HIDE DEF sum0, f
<1> DEFINE T == {i \in 0..IdBytes : sum0[i] = Top(n, i)}
<1>6. 0 \in T BY <1>1, <1>4, TopFacts
<1>7. ASSUME NEW i \in 0..IdBytes, i \in T, i < IdBytes PROVE i + 1 \in T
  <2>1. /\ i + 1 \in 1..IdBytes /\ i + 1 \in 0..IdBytes /\ (i + 1) - 1 = i
        /\ ~(i + 1 > Len(bytes)) /\ i + 1 # 0
    BY <1>1, <1>7
  <2>2. sum0[i + 1] = (sum0[i] * Radix) + bytes[i + 1] BY <1>4, <2>1
  <2>3. Top(n, i + 1) = (Top(n, i) * Radix) + BigEndian(n)[i + 1]
    BY <2>1, TopFacts
  <2>4. sum0[i + 1] = Top(n, i + 1) BY <1>7, <2>1, <2>2, <2>3
  <2> QED BY <2>1, <2>4
<1>8. 0..IdBytes \subseteq T
  <2> HIDE DEF T, P
  <2> QED BY <1>1, <1>6, <1>7, InductionUpTo
<1>9. sum0[IdBytes] = Top(n, IdBytes) BY <1>1, <1>8
<1> QED BY <1>5, <1>9, TopFacts

\* From its byte at + 1 on, the rest of a key starts with the id it holds there.
LEMMA RestHolds ==
  ASSUME NEW s \in Seq(Nat), NEW at \in Nat, at + IdBytes <= Len(s),
         NEW n \in Uint64, Holds(s, at, n)
  PROVE  /\ From(s, at) \in Seq(Nat) /\ Len(From(s, at)) = Len(s) - at
         /\ \A i \in 1..(Len(s) - at) : From(s, at)[i] = s[at + i]
         /\ BigEndianToUint64(From(s, at)) = n
<1> DEFINE r == SubSeq(s, at + 1, Len(s))
<1>1. IdBytes \in Nat \ {0} /\ Len(s) \in Nat BY StoreAssumption, LenProperties
<1>2. \A i \in (at + 1)..Len(s) : s[i] \in Nat BY <1>1, ElementOfSeq
<1>3. /\ r \in Seq(Nat)
      /\ Len(r) = IF at + 1 <= Len(s) THEN Len(s) - (at + 1) + 1 ELSE 0
      /\ \A i \in 1..(Len(s) - (at + 1) + 1) : r[i] = s[(at + 1) + i - 1]
  BY <1>1, <1>2, SubSeqProperties
<1> HIDE DEF r
<1>4. Len(r) = Len(s) - at /\ \A i \in 1..(Len(s) - at) : r[i] = s[at + i]
  BY <1>1, <1>3
<1>5. IdBytes <= Len(r) /\ \A i \in 1..IdBytes : r[i] = BigEndian(n)[i]
  <2>1. IdBytes <= Len(s) - at BY <1>1
  <2>2. \A i \in 1..IdBytes : i \in 1..(Len(s) - at) BY <1>1, <2>1
  <2> QED BY <1>4, <2>1, <2>2 DEF Holds
<1>6. BigEndianToUint64(r) = n BY <1>3, <1>5, IdIsReadBack
<1> QED BY <1>3, <1>4, <1>6 DEF From, r

\* types/keys.go, ParseBidIndexKey and SplitAuctionIdBidIdKey: an entry of the
\* index gives back the auction and the bid it stands for, to the query for every
\* address, and to the keeper for those short enough that the offset of the last
\* id fits in a byte.
LEMMA IndexGivesBack ==
  ASSUME NEW a \in Addresses, NEW id \in Uint64, NEW k \in Uint64
  PROVE  LET key == GetBidIndexKey(a, id, k)
         IN  /\ Len(a) + 2 + IdBytes < 256 => ParseBidIndexKey(key) = <<id, k>>
             /\ SplitAuctionIdBidIdKey(
                  From(key, Len(GetBidIndexByBidderPrefix(a)))) = <<id, k>>
<1> DEFINE key == GetBidIndexKey(a, id, k)
           at == Len(a) + 2
           ids == From(key, at)
<1>1. /\ key \in Seq(Nat) /\ Len(key) = (at + IdBytes) + IdBytes
      /\ HoldsAddress(key, 1, a) /\ Holds(key, at, id)
      /\ Holds(key, at + IdBytes, k)
  BY IndexKey
<1>2. IdBytes \in Nat \ {0} /\ Len(a) \in 1..255 /\ at \in Nat
  BY StoreAssumption, AddressType
<1>3. key[2] = Len(a) BY <1>1 DEF HoldsAddress
<1>4. Len(GetBidIndexByBidderPrefix(a)) = at BY IndexPrefix
<1> HIDE DEF key
<1>5. at + IdBytes <= Len(key) /\ (at + IdBytes) + IdBytes <= Len(key)
  <2>1. Len(key) = (at + IdBytes) + IdBytes /\ at \in Nat /\ IdBytes \in Nat
    BY <1>1, <1>2
  <2> HIDE DEF at
  <2> QED BY <2>1
<1>6. BigEndianToUint64(From(key, at + IdBytes)) = k
  <2> DEFINE next == at + IdBytes
  <2>0. at \in Nat /\ IdBytes \in Nat BY <1>2
  <2> HIDE DEF at
  <2>1. next \in Nat /\ next + IdBytes <= Len(key) /\ Holds(key, next, k)
    BY <1>1, <1>5, <2>0
  <2> HIDE DEF next
  <2>2. BigEndianToUint64(From(key, next)) = k BY <1>1, <2>1, RestHolds
  <2> QED BY <2>2 DEF next
<1>7. /\ ids \in Seq(Nat) /\ Len(ids) = Len(key) - at
      /\ \A i \in 1..(Len(key) - at) : ids[i] = key[at + i]
      /\ BigEndianToUint64(ids) = id
  BY <1>1, <1>2, <1>5, RestHolds
<1>8. ASSUME at + IdBytes < 256 PROVE ParseBidIndexKey(key) = <<id, k>>
  <2>1. (2 + key[2]) % 256 = at BY <1>2, <1>3, <1>8
  <2>2. (at + IdBytes) % 256 = at + IdBytes BY <1>2, <1>8
  <2> HIDE DEF at
  <2> QED BY <1>6, <1>7, <2>1, <2>2 DEF ParseBidIndexKey
<1>9. SplitAuctionIdBidIdKey(ids) = <<id, k>>
  <2>0. at \in Nat /\ IdBytes \in Nat /\ Len(key) - at = IdBytes + IdBytes
    <3>1. /\ at \in Nat /\ IdBytes \in Nat
          /\ Len(key) = (at + IdBytes) + IdBytes
      BY <1>1, <1>2
    <3> HIDE DEF at
    <3> QED BY <3>1
  <2> HIDE DEF ids, at
  <2>1. Len(ids) = IdBytes + IdBytes BY <1>7, <2>0
  <2>2. Holds(ids, IdBytes, k)
    <3>1. ASSUME NEW i \in 1..IdBytes
          PROVE  ids[IdBytes + i] = BigEndian(k)[i]
      <4>1. IdBytes + i \in 1..(Len(key) - at) BY <2>0
      <4>2. ids[IdBytes + i] = key[at + (IdBytes + i)] BY <1>7, <4>1
      <4>3. at + (IdBytes + i) = (at + IdBytes) + i BY <2>0
      <4> QED BY <1>1, <4>2, <4>3 DEF Holds
    <3> QED BY <3>1 DEF Holds
  <2>3. IdBytes + IdBytes <= Len(ids) /\ IdBytes \in Nat BY <2>0, <2>1
  <2>4. BigEndianToUint64(From(ids, IdBytes)) = k
    BY <1>7, <2>2, <2>3, RestHolds
  <2> QED BY <1>7, <2>4 DEF SplitAuctionIdBidIdKey
<1> QED BY <1>2, <1>4, <1>8, <1>9 DEF key

-----------------------------------------------------------------------------
(***************************************************************************)
(* What an iteration finds.                                                *)
(***************************************************************************)


\* The key s, of at least one byte, starts with b.
StartsWith(s, b) == s \in Seq(Nat) /\ Len(s) >= 1 /\ s[1] = b

LEMMA FirstBytes ==
  /\ StartsWith(LastAuctionIdKey, 17)
  /\ \A id \in Uint64 :
       /\ StartsWith(GetLastBidIdKey(id), 18)
       /\ StartsWith(GetAuctionKey(id), 33)
       /\ StartsWith(GetLastMatchedBidsLenKey(id), 51)
       /\ \A a \in Addresses : StartsWith(GetAllowedBidderKey(id, a), 34)
       /\ \A k \in Uint64 : /\ StartsWith(GetBidKey(id, k), 49)
                            /\ StartsWith(GetVestingQueueKey(id, k), 65)
       /\ \A a \in Addresses, k \in Uint64 :
            StartsWith(GetBidIndexKey(a, id, k), 50)
<1>1. IdBytes \in Nat \ {0} BY StoreAssumption
<1>2. StartsWith(LastAuctionIdKey, 17) BY DEF LastAuctionIdKey, StartsWith
<1> SUFFICES ASSUME NEW id \in Uint64
             PROVE  /\ StartsWith(GetLastBidIdKey(id), 18)
                    /\ StartsWith(GetAuctionKey(id), 33)
                    /\ StartsWith(GetLastMatchedBidsLenKey(id), 51)
                    /\ \A a \in Addresses :
                         StartsWith(GetAllowedBidderKey(id, a), 34)
                    /\ \A k \in Uint64 :
                         /\ StartsWith(GetBidKey(id, k), 49)
                         /\ StartsWith(GetVestingQueueKey(id, k), 65)
                    /\ \A a \in Addresses, k \in Uint64 :
                         StartsWith(GetBidIndexKey(a, id, k), 50)
  BY <1>2
<1>3. ASSUME NEW b \in Nat PROVE StartsWith(<<b>> \o BigEndian(id), b)
  <2> DEFINE s == <<b>> \o BigEndian(id)
  <2>1. s \in Seq(Nat) /\ Len(s) = 1 + IdBytes /\ s[1] = b BY IdKey
  <2> HIDE DEF s
  <2>2. StartsWith(s, b) BY <1>1, <2>1 DEF StartsWith
  <2> QED BY <2>2 DEF s
<1>4. ASSUME NEW b \in Nat, NEW k \in Uint64
      PROVE  StartsWith((<<b>> \o BigEndian(id)) \o BigEndian(k), b)
  <2> DEFINE s == (<<b>> \o BigEndian(id)) \o BigEndian(k)
  <2>1. s \in Seq(Nat) /\ Len(s) = (1 + IdBytes) + IdBytes /\ s[1] = b BY PairKey
  <2> HIDE DEF s
  <2>2. StartsWith(s, b) BY <1>1, <2>1 DEF StartsWith
  <2> QED BY <2>2 DEF s
<1>5. ASSUME NEW b \in Nat, NEW a \in Addresses
      PROVE  StartsWith((<<b>> \o BigEndian(id)) \o LengthPrefix(a), b)
  <2> DEFINE s == (<<b>> \o BigEndian(id)) \o LengthPrefix(a)
  <2>1. s \in Seq(Nat) /\ Len(s) >= 1 + IdBytes /\ s[1] = b BY AllowedKey
  <2> HIDE DEF s
  <2>2. Len(s) \in Nat BY <2>1, LenProperties
  <2>3. StartsWith(s, b) BY <1>1, <2>1, <2>2 DEF StartsWith
  <2> QED BY <2>3 DEF s
<1>6. ASSUME NEW a \in Addresses, NEW k \in Uint64
      PROVE  StartsWith(GetBidIndexKey(a, id, k), 50)
  <2> DEFINE s == GetBidIndexKey(a, id, k)
  <2>1. /\ s \in Seq(Nat) /\ Len(s) = ((Len(a) + 2) + IdBytes) + IdBytes
        /\ s[1] = 50 /\ Len(a) \in Nat
    BY IndexKey, AddressType
  <2> HIDE DEF s
  <2>2. StartsWith(s, 50) BY <1>1, <2>1 DEF StartsWith
  <2> QED BY <2>2 DEF s
<1>7. /\ StartsWith(GetLastBidIdKey(id), 18)
      /\ StartsWith(GetAuctionKey(id), 33)
      /\ StartsWith(GetLastMatchedBidsLenKey(id), 51)
  BY <1>3 DEF GetLastBidIdKey, LastBidIdKeyPrefix, GetAuctionKey,
              AuctionKeyPrefix, GetLastMatchedBidsLenKey, MatchedBidsLenPrefix
<1>8. \A a \in Addresses : StartsWith(GetAllowedBidderKey(id, a), 34)
  BY <1>5 DEF GetAllowedBidderKey, GetAllowedBiddersByAuctionKeyPrefix,
              AllowedBidderKeyPrefix
<1>9. ASSUME NEW k \in Uint64
      PROVE  /\ StartsWith(GetBidKey(id, k), 49)
             /\ StartsWith(GetVestingQueueKey(id, k), 65)
  <2> DEFINE s == GetVestingQueueKey(id, k)
  <2>1. StartsWith(GetBidKey(id, k), 49)
    BY <1>4 DEF GetBidKey, GetBidByAuctionIdPrefix, BidKeyPrefix
  <2>2. /\ s \in Seq(Nat) /\ Len(s) = ((1 + IdBytes) + IdBytes) + IdBytes
        /\ s[1] = 65
    BY QueueKey
  <2> HIDE DEF s
  <2>3. StartsWith(s, 65) BY <1>1, <2>2 DEF StartsWith
  <2> QED BY <2>1, <2>3 DEF s
<1> QED BY <1>6, <1>7, <1>8, <1>9

\* The first byte of a key says of which kind it is.
LEMMA KeyKinds ==
  ASSUME NEW key \in Keys
  PROVE  /\ key \in Seq(Nat) /\ Len(key) >= 1
         /\ key[1] = 33 => \E id \in Uint64 : key = GetAuctionKey(id)
         /\ key[1] = 34 => \E id \in Uint64, a \in Addresses :
                             key = GetAllowedBidderKey(id, a)
         /\ key[1] = 49 => \E id, k \in Uint64 : key = GetBidKey(id, k)
         /\ key[1] = 50 => \E a \in Addresses, id \in Uint64, k \in Uint64 :
                             key = GetBidIndexKey(a, id, k)
         /\ key[1] = 65 => \E id, t \in Uint64 : key = GetVestingQueueKey(id, t)
<1>1. \/ key = LastAuctionIdKey
      \/ \E id \in Uint64 : key = GetLastBidIdKey(id)
      \/ \E id \in Uint64 : key = GetAuctionKey(id)
      \/ \E id \in Uint64, a \in Addresses : key = GetAllowedBidderKey(id, a)
      \/ \E id, k \in Uint64 : key = GetBidKey(id, k)
      \/ \E a \in Addresses, id \in Uint64, k \in Uint64 :
           key = GetBidIndexKey(a, id, k)
      \/ \E id \in Uint64 : key = GetLastMatchedBidsLenKey(id)
      \/ \E id, t \in Uint64 : key = GetVestingQueueKey(id, t)
  BY DEF Keys
<1>2. \/ \E b \in {17, 18, 51} : StartsWith(key, b)
      \/ StartsWith(key, 33) /\ \E id \in Uint64 : key = GetAuctionKey(id)
      \/ /\ StartsWith(key, 34)
         /\ \E id \in Uint64, a \in Addresses : key = GetAllowedBidderKey(id, a)
      \/ StartsWith(key, 49) /\ \E id, k \in Uint64 : key = GetBidKey(id, k)
      \/ /\ StartsWith(key, 50)
         /\ \E a \in Addresses, id \in Uint64, k \in Uint64 :
              key = GetBidIndexKey(a, id, k)
      \/ /\ StartsWith(key, 65)
         /\ \E id, t \in Uint64 : key = GetVestingQueueKey(id, t)
  BY <1>1, FirstBytes
<1> QED BY <1>2 DEF StartsWith

LEMMA KindPrefix ==
  ASSUME NEW b \in Nat, NEW key, key \in Seq(Nat), Len(key) >= 1
  PROVE  IsPrefix(<<b>>, key) <=> key[1] = b
<1> DEFINE p == <<b>>
<1>1. p \in Seq(Nat) /\ Len(p) = 1 /\ p[1] = b OBVIOUS
<1> HIDE DEF p
<1>2. IsPrefix(p, key) <=> SameStart(p, key, 1) BY <1>1, PrefixIs
<1>3. SameStart(p, key, 1) <=> key[1] = b BY <1>1 DEF SameStart
<1> QED BY <1>2, <1>3 DEF p

LEMMA IdPrefix ==
  ASSUME NEW b \in Nat, NEW id \in Uint64, NEW key, key \in Seq(Nat)
  PROVE  /\ IsPrefix(<<b>> \o BigEndian(id), key) => key[1] = b
         /\ \A j \in Uint64 :
              Len(key) >= 1 + IdBytes /\ key[1] = b /\ Holds(key, 1, j) =>
                (IsPrefix(<<b>> \o BigEndian(id), key) <=> id = j)
<1> DEFINE p == <<b>> \o BigEndian(id)
<1>1. p \in Seq(Nat) /\ Len(p) = 1 + IdBytes /\ p[1] = b /\ Holds(p, 1, id)
  BY IdKey
<1> HIDE DEF p
<1>2. IdBytes \in Nat \ {0} /\ Len(key) \in Nat BY StoreAssumption, LenProperties
<1>3. IsPrefix(p, key) <=> 1 + IdBytes <= Len(key) /\ SameStart(p, key, 1 + IdBytes)
  BY <1>1, PrefixIs
<1>4. IsPrefix(p, key) => key[1] = b
  <2>1. 1 \in 1..(1 + IdBytes) BY <1>2
  <2> QED BY <1>1, <1>3, <2>1 DEF SameStart
<1>5. ASSUME NEW j \in Uint64, Len(key) >= 1 + IdBytes, key[1] = b,
             Holds(key, 1, j)
      PROVE  IsPrefix(p, key) <=> id = j
  <2>1. ASSUME IsPrefix(p, key) PROVE id = j
    <3>1. SameStart(p, key, 1 + IdBytes) /\ 1 + IdBytes \in Nat
      BY <1>2, <1>3, <2>1
    <3>2. Holds(key, 1, id) BY <1>1, <3>1, StaysInside
    <3>3. \A i \in 1..IdBytes : BigEndian(id)[i] = BigEndian(j)[i]
      BY <1>5, <3>2 DEF Holds
    <3> QED BY <3>3, BigEndianInjective
  <2>2. ASSUME id = j PROVE IsPrefix(p, key)
    <3>1. SameStart(p, key, 1) BY <1>1, <1>5 DEF SameStart
    <3>2. Holds(key, 1, id) BY <1>5, <2>2
    <3>3. SameStart(p, key, 1 + IdBytes) BY <1>1, <3>1, <3>2, SameId
    <3> QED BY <1>2, <1>3, <1>5, <3>3
  <2> QED BY <2>1, <2>2
<1> QED BY <1>4, <1>5 DEF p

LEMMA AddressPrefix ==
  ASSUME NEW a \in Addresses, NEW key, key \in Seq(Nat)
  PROVE  /\ IsPrefix(GetBidIndexByBidderPrefix(a), key) => key[1] = 50
         /\ \A b \in Addresses, id \in Uint64, k \in Uint64 :
              key = GetBidIndexKey(b, id, k) =>
                (IsPrefix(GetBidIndexByBidderPrefix(a), key) <=> a = b)
<1> DEFINE p == GetBidIndexByBidderPrefix(a)
           at == Len(a) + 2
<1>1. p \in Seq(Nat) /\ Len(p) = at /\ p[1] = 50 /\ HoldsAddress(p, 1, a)
  BY IndexPrefix
<1>2. /\ a \in Seq(Nat) /\ Len(a) \in 1..255 /\ at \in Nat /\ 1 \in 1..at
      /\ 1 + (Len(a) + 1) <= at /\ Len(key) \in Nat /\ IdBytes \in Nat
  <2>1. a \in Seq(Nat) /\ Len(a) \in 1..255 BY AddressType
  <2>2. Len(key) \in Nat BY LenProperties
  <2>3. IdBytes \in Nat BY StoreAssumption
  <2>4. at \in Nat /\ 1 \in 1..at /\ 1 + (Len(a) + 1) <= at BY <2>1
  <2> HIDE DEF at
  <2> QED BY <2>1, <2>2, <2>3, <2>4
<1> HIDE DEF p
<1>3. IsPrefix(p, key) <=> at <= Len(key) /\ SameStart(p, key, at)
  BY <1>1, PrefixIs
<1>4. IsPrefix(p, key) => key[1] = 50
  <2>1. 1 \in 1..at BY <1>2
  <2> HIDE DEF at
  <2> QED BY <1>1, <1>3, <2>1 DEF SameStart
<1>5. ASSUME NEW b \in Addresses, NEW id \in Uint64, NEW k \in Uint64,
             key = GetBidIndexKey(b, id, k)
      PROVE  IsPrefix(p, key) <=> a = b
  <2>1. ASSUME IsPrefix(p, key) PROVE a = b
    <3>1. HoldsAddress(key, 1, a)
      <4>1. SameStart(p, key, at) BY <1>3, <2>1
      <4> HIDE DEF at
      <4> QED BY <1>1, <1>2, <4>1, StaysInside
    <3>2. HoldsAddress(key, 1, b) BY <1>5, IndexKey
    <3>3. b \in Seq(Nat) BY AddressType
    <3>4. Len(a) = Len(b) /\ \A i \in 1..Len(a) : a[i] = b[i]
      BY <3>1, <3>2 DEF HoldsAddress
    <3> QED BY <1>2, <3>3, <3>4, SeqEqual
  <2>2. ASSUME a = b PROVE IsPrefix(p, key)
    <3>1. Len(key) = (at + IdBytes) + IdBytes /\ SameStart(p, key, at)
      BY <1>5, <2>2, IndexKey DEF p
    <3> HIDE DEF at
    <3>2. at \in Nat /\ IdBytes \in Nat BY <1>2 DEF at
    <3>3. at <= Len(key) BY <3>1, <3>2
    <3> QED BY <1>3, <3>1, <3>3, Zenon
  <2> QED BY <2>1, <2>2
<1> QED BY <1>4, <1>5 DEF p

\* types/keys.go: for any number of bytes of an id and any addresses, an iteration
\* over the store by a kind of record, by the id of an auction or by a bidder finds
\* the records of that kind, auction or bidder, and never one of another.
LEMMA KeysFound ==
  ASSUME NEW key \in Keys
  PROVE
    /\ IsPrefix(AuctionKeyPrefix, key) <=>
         \E id \in Uint64 : key = GetAuctionKey(id)
    /\ IsPrefix(BidKeyPrefix, key) <=>
         \E id, k \in Uint64 : key = GetBidKey(id, k)
    /\ IsPrefix(VestingQueueKeyPrefix, key) <=>
         \E id, t \in Uint64 : key = GetVestingQueueKey(id, t)
    /\ \A id \in Uint64 :
         /\ IsPrefix(GetAllowedBiddersByAuctionKeyPrefix(id), key) <=>
              \E a \in Addresses : key = GetAllowedBidderKey(id, a)
         /\ IsPrefix(GetBidByAuctionIdPrefix(id), key) <=>
              \E k \in Uint64 : key = GetBidKey(id, k)
         /\ IsPrefix(GetVestingQueueByAuctionIdPrefix(id), key) <=>
              \E t \in Uint64 : key = GetVestingQueueKey(id, t)
    /\ \A a \in Addresses :
         IsPrefix(GetBidIndexByBidderPrefix(a), key) <=>
           \E id, k \in Uint64 : key = GetBidIndexKey(a, id, k)
<1>1. key \in Seq(Nat) /\ Len(key) >= 1 BY KeyKinds
<1>2. IsPrefix(AuctionKeyPrefix, key) <=>
        \E id \in Uint64 : key = GetAuctionKey(id)
  <2>1. IsPrefix(AuctionKeyPrefix, key) <=> key[1] = 33
    BY <1>1, KindPrefix DEF AuctionKeyPrefix
  <2>2. (\E id \in Uint64 : key = GetAuctionKey(id)) => StartsWith(key, 33)
    BY FirstBytes
  <2>3. StartsWith(key, 33) => key[1] = 33 BY DEF StartsWith
  <2> QED BY <2>1, <2>2, <2>3, KeyKinds
<1>3. IsPrefix(BidKeyPrefix, key) <=> \E id, k \in Uint64 : key = GetBidKey(id, k)
  <2>1. IsPrefix(BidKeyPrefix, key) <=> key[1] = 49
    BY <1>1, KindPrefix DEF BidKeyPrefix
  <2>2. (\E id, k \in Uint64 : key = GetBidKey(id, k)) => StartsWith(key, 49)
    BY FirstBytes
  <2>3. StartsWith(key, 49) => key[1] = 49 BY DEF StartsWith
  <2> QED BY <2>1, <2>2, <2>3, KeyKinds
<1>4. IsPrefix(VestingQueueKeyPrefix, key) <=>
        \E id, t \in Uint64 : key = GetVestingQueueKey(id, t)
  <2>1. IsPrefix(VestingQueueKeyPrefix, key) <=> key[1] = 65
    BY <1>1, KindPrefix DEF VestingQueueKeyPrefix
  <2>2. (\E id, t \in Uint64 : key = GetVestingQueueKey(id, t)) =>
          StartsWith(key, 65)
    BY FirstBytes
  <2>3. StartsWith(key, 65) => key[1] = 65 BY DEF StartsWith
  <2> QED BY <2>1, <2>2, <2>3, KeyKinds
<1>5. IdBytes \in Nat /\ Len(key) \in Nat BY <1>1, StoreAssumption, LenProperties
<1>6. ASSUME NEW id \in Uint64
      PROVE  IsPrefix(GetAllowedBiddersByAuctionKeyPrefix(id), key) <=>
               \E a \in Addresses : key = GetAllowedBidderKey(id, a)
  <2> DEFINE found == IsPrefix(<<34>> \o BigEndian(id), key)
  <2>1. found <=> IsPrefix(GetAllowedBiddersByAuctionKeyPrefix(id), key)
    BY DEF GetAllowedBiddersByAuctionKeyPrefix, AllowedBidderKeyPrefix
  <2>2. found => key[1] = 34 BY <1>1, IdPrefix
  <2>3. ASSUME NEW j \in Uint64, NEW a \in Addresses,
               key = GetAllowedBidderKey(j, a)
        PROVE  found <=> id = j
    <3>1. Len(key) >= 1 + IdBytes /\ key[1] = 34 /\ Holds(key, 1, j)
      BY <2>3, AllowedKey
         DEF GetAllowedBidderKey, GetAllowedBiddersByAuctionKeyPrefix,
             AllowedBidderKeyPrefix
    <3> QED BY <1>1, <3>1, IdPrefix
  <2> HIDE DEF found
  <2> QED BY <2>1, <2>2, <2>3, KeyKinds
<1>7. ASSUME NEW b \in Nat, NEW id \in Uint64, NEW j \in Uint64, NEW k \in Uint64,
             key = (<<b>> \o BigEndian(j)) \o BigEndian(k)
      PROVE  IsPrefix(<<b>> \o BigEndian(id), key) <=> id = j
  <2>1. Len(key) = (1 + IdBytes) + IdBytes /\ key[1] = b /\ Holds(key, 1, j)
    BY <1>7, PairKey
  <2>2. Len(key) >= 1 + IdBytes BY <1>5, <2>1
  <2> QED BY <1>1, <2>1, <2>2, IdPrefix
<1>8. ASSUME NEW id \in Uint64
      PROVE  IsPrefix(GetBidByAuctionIdPrefix(id), key) <=>
               \E k \in Uint64 : key = GetBidKey(id, k)
  <2> DEFINE found == IsPrefix(<<49>> \o BigEndian(id), key)
  <2>1. found <=> IsPrefix(GetBidByAuctionIdPrefix(id), key)
    BY DEF GetBidByAuctionIdPrefix, BidKeyPrefix
  <2>2. found => key[1] = 49 BY <1>1, IdPrefix
  <2>3. ASSUME NEW j \in Uint64, NEW k \in Uint64, key = GetBidKey(j, k)
        PROVE  found <=> id = j
    BY <1>7, <2>3 DEF GetBidKey, GetBidByAuctionIdPrefix, BidKeyPrefix
  <2> HIDE DEF found
  <2> QED BY <2>1, <2>2, <2>3, KeyKinds
<1>9. ASSUME NEW id \in Uint64
      PROVE  IsPrefix(GetVestingQueueByAuctionIdPrefix(id), key) <=>
               \E t \in Uint64 : key = GetVestingQueueKey(id, t)
  <2> DEFINE found == IsPrefix(<<65>> \o BigEndian(id), key)
  <2>1. found <=> IsPrefix(GetVestingQueueByAuctionIdPrefix(id), key)
    BY DEF GetVestingQueueByAuctionIdPrefix, VestingQueueKeyPrefix
  <2>2. found => key[1] = 65 BY <1>1, IdPrefix
  <2>3. ASSUME NEW j \in Uint64, NEW t \in Uint64, key = GetVestingQueueKey(j, t)
        PROVE  found <=> id = j
    <3>1. /\ Len(key) = ((1 + IdBytes) + IdBytes) + IdBytes /\ key[1] = 65
          /\ Holds(key, 1, j)
      BY <2>3, QueueKey
    <3>2. Len(key) >= 1 + IdBytes BY <1>5, <3>1
    <3> QED BY <1>1, <3>1, <3>2, IdPrefix
  <2> HIDE DEF found
  <2> QED BY <2>1, <2>2, <2>3, KeyKinds
<1>10. ASSUME NEW a \in Addresses
       PROVE  IsPrefix(GetBidIndexByBidderPrefix(a), key) <=>
                \E id, k \in Uint64 : key = GetBidIndexKey(a, id, k)
  BY <1>1, AddressPrefix, KeyKinds
<1> QED BY <1>2, <1>3, <1>4, <1>6, <1>8, <1>9, <1>10

-----------------------------------------------------------------------------
(***************************************************************************)
(* The elements of a finite set of numbers, in their order.                *)
(***************************************************************************)
Rank(T, t) == Cardinality({u \in T : u <= t})

Nth(T, i) == CHOOSE t \in T : Rank(T, t) = i

LEMMA RankIsMonotonic ==
  ASSUME NEW T \in SUBSET Nat, IsFiniteSet(T)
  PROVE  /\ Cardinality(T) \in Nat
         /\ \A t \in T : Rank(T, t) \in 1..Cardinality(T)
         /\ \A t, u \in T : t < u => Rank(T, t) < Rank(T, u)
<1> DEFINE below(t) == {u \in T : u <= t}
<1>1. Cardinality(T) \in Nat BY FS_CardinalityType
<1>2. ASSUME NEW t \in T
      PROVE  /\ IsFiniteSet(below(t)) /\ Rank(T, t) = Cardinality(below(t))
             /\ Rank(T, t) \in 1..Cardinality(T)
  <2>1. below(t) \in SUBSET T /\ below(t) # {} OBVIOUS
  <2> HIDE DEF below
  <2>2. IsFiniteSet(below(t)) /\ Cardinality(below(t)) <= Cardinality(T)
    BY <2>1, FS_Subset
  <2>3. Cardinality(below(t)) \in Nat /\ Cardinality(below(t)) # 0
    BY <2>1, <2>2, FS_CardinalityType, FS_EmptySet
  <2>4. Rank(T, t) = Cardinality(below(t)) BY DEF Rank, below
  <2> QED BY <1>1, <2>2, <2>3, <2>4
<1>3. ASSUME NEW t \in T, NEW u \in T, t < u PROVE Rank(T, t) < Rank(T, u)
  <2>1. below(t) \in SUBSET below(u) /\ u \in below(u) /\ u \notin below(t)
    <3>1. t \in Nat /\ u \in Nat OBVIOUS
    <3>2. \A x \in T : x <= t => x <= u
      <4> SUFFICES ASSUME NEW x \in T, x <= t PROVE x <= u OBVIOUS
      <4>1. x \in Nat OBVIOUS
      <4> QED BY <1>3, <3>1, <4>1
    <3>3. u <= u /\ ~(u <= t) BY <1>3, <3>1
    <3> QED BY <3>2, <3>3
  <2> HIDE DEF below
  <2>2. Cardinality(below(t)) <= Cardinality(below(u)) BY <1>2, <2>1, FS_Subset
  <2>3. Cardinality(below(t)) # Cardinality(below(u)) BY <1>2, <2>1, FS_Subset
  <2>4. /\ Rank(T, t) = Cardinality(below(t)) /\ Rank(T, t) \in Nat
        /\ Rank(T, u) = Cardinality(below(u)) /\ Rank(T, u) \in Nat
    BY <1>1, <1>2
  <2> QED BY <2>2, <2>3, <2>4
<1> QED BY <1>1, <1>2, <1>3

LEMMA NthHasItsRank ==
  ASSUME NEW T \in SUBSET Nat, IsFiniteSet(T)
  PROVE  /\ \A t, u \in T : Rank(T, t) = Rank(T, u) => t = u
         /\ \A i \in 1..Cardinality(T) : Nth(T, i) \in T /\ Rank(T, Nth(T, i)) = i
<1> DEFINE n == Cardinality(T)
           f == [t \in T |-> Rank(T, t)]
<1>1. n \in Nat BY RankIsMonotonic
<1>2. ASSUME NEW t \in T, NEW u \in T, Rank(T, t) = Rank(T, u) PROVE t = u
  <2>1. t \in Nat /\ u \in Nat /\ Rank(T, t) \in 1..n /\ Rank(T, u) \in 1..n
    BY RankIsMonotonic
  <2>2. ~(t < u) /\ ~(u < t) BY <1>1, <1>2, <2>1, RankIsMonotonic
  <2> QED BY <2>1, <2>2
<1>3. f \in Injection(T, 1..n)
  <2>1. f \in [T -> 1..n] BY RankIsMonotonic
  <2>2. \A t, u \in T : f[t] = f[u] => t = u BY <1>2
  <2> QED BY <2>1, <2>2 DEF Injection, IsInjective
<1>4. IsFiniteSet(1..n) /\ Cardinality(1..n) = n BY <1>1, FS_Interval
<1> HIDE DEF f
<1>5. f \in Surjection(T, 1..n)
  <2>1. Cardinality(T) = Cardinality(1..n) BY <1>4
  <2> HIDE DEF n
  <2> QED BY <1>3, <1>4, <2>1, FS_Injection
<1>6. ASSUME NEW i \in 1..n PROVE Nth(T, i) \in T /\ Rank(T, Nth(T, i)) = i
  <2>1. \E t \in T : f[t] = i BY <1>5 DEF Surjection
  <2>2. \E t \in T : Rank(T, t) = i BY <2>1 DEF f
  <2> QED BY <2>2 DEF Nth
<1> QED BY <1>2, <1>6

LEMMA NthOfInterval ==
  ASSUME NEW n \in Nat
  PROVE  /\ 1..n \in SUBSET Nat /\ IsFiniteSet(1..n) /\ Cardinality(1..n) = n
         /\ \A i \in 1..n : Nth(1..n, i) = i
<1>1. 1..n \in SUBSET Nat /\ IsFiniteSet(1..n) /\ Cardinality(1..n) = n
  BY FS_Interval
<1>2. ASSUME NEW i \in 1..n PROVE Rank(1..n, i) = i
  <2>1. {u \in 1..n : u <= i} = 1..i OBVIOUS
  <2>2. Cardinality(1..i) = i BY FS_Interval
  <2> QED BY <2>1, <2>2 DEF Rank
<1>3. ASSUME NEW i \in 1..n PROVE Nth(1..n, i) = i
  <2>1. Nth(1..n, i) \in 1..n /\ Rank(1..n, Nth(1..n, i)) = i
    BY <1>1, NthHasItsRank
  <2> QED BY <1>2, <2>1
<1> QED BY <1>1, <1>3

-----------------------------------------------------------------------------
(***************************************************************************)
(* An iteration over keys that are numbered in their order.                *)
(***************************************************************************)
LEMMA Numbered ==
  ASSUME NEW S, NEW T \in SUBSET Nat, IsFiniteSet(T), NEW f \in Surjection(T, S),
         \A t, u \in T : Before(f[t], f[u]) <=> t <= u
  PROVE  InOrder(S) = [i \in 1..Cardinality(T) |-> f[Nth(T, i)]]
<1> DEFINE n == Cardinality(T)
           rank(key) == Cardinality({k \in S : Before(k, key)})
           keys == [i \in 1..Cardinality(S) |-> CHOOSE key \in S : rank(key) = i]
<1>1. f \in [T -> S] /\ \A key \in S : \E t \in T : f[t] = key BY DEF Surjection
<1>2. n \in Nat BY RankIsMonotonic
<1>3. \A t, u \in T : f[t] = f[u] => t = u
  <2> SUFFICES ASSUME NEW t \in T, NEW u \in T, f[t] = f[u] PROVE t = u OBVIOUS
  <2>1. t <= t /\ u <= u OBVIOUS
  <2>2. t <= u /\ u <= t BY <2>1
  <2> QED BY <2>2
<1>4. ASSUME NEW t \in T PROVE rank(f[t]) = Rank(T, t)
  <2> DEFINE U == {u \in T : u <= t}
             K == {k \in S : Before(k, f[t])}
             g == [u \in U |-> f[u]]
  <2>1. IsFiniteSet(U) BY FS_Subset
  <2>2. g \in Bijection(U, K)
    <3>1. g \in [U -> K] BY <1>1
    <3>2. \A x, y \in U : g[x] = g[y] => x = y BY <1>3
    <3>3. \A k \in K : \E u \in U : g[u] = k
      <4> SUFFICES ASSUME NEW k \in K PROVE \E u \in U : g[u] = k OBVIOUS
      <4>1. PICK u \in T : f[u] = k BY <1>1
      <4>2. u \in U BY <4>1
      <4> QED BY <4>1, <4>2
    <3> QED BY <3>1, <3>2, <3>3
        DEF Bijection, Injection, Surjection, IsInjective
  <2> HIDE DEF U, K, g
  <2>3. Cardinality(K) = Cardinality(U)
    BY <2>1, <2>2, FS_Bijection DEF ExistsBijection
  <2> QED BY <2>3 DEF U, K, Rank
<1>5. Cardinality(S) = n
  <2>1. f \in Bijection(T, S)
    BY <1>1, <1>3 DEF Bijection, Injection, Surjection, IsInjective
  <2> QED BY <2>1, FS_Bijection DEF ExistsBijection
<1>6. ASSUME NEW i \in 1..n PROVE keys[i] = f[Nth(T, i)]
  <2>1. Nth(T, i) \in T /\ Rank(T, Nth(T, i)) = i BY NthHasItsRank
  <2> HIDE DEF rank
  <2>2. \E key \in S : rank(key) = i BY <1>1, <1>4, <2>1
  <2>3. keys[i] \in S /\ rank(keys[i]) = i BY <1>5, <2>2
  <2> HIDE DEF keys
  <2>4. PICK t \in T : f[t] = keys[i] BY <1>1, <2>3
  <2>5. Rank(T, t) = i BY <1>4, <2>3, <2>4
  <2>6. t = Nth(T, i) BY <2>1, <2>5, NthHasItsRank
  <2> QED BY <2>4, <2>6
<1>7. InOrder(S) = keys BY DEF InOrder
<1> HIDE DEF keys
<1>8. keys = [i \in 1..n |-> keys[i]] BY <1>5 DEF keys
<1> HIDE DEF n
<1> QED BY <1>6, <1>7, <1>8 DEF n

LEMMA Iterated ==
  ASSUME NEW prefix, NEW T \in SUBSET Nat, IsFiniteSet(T),
         NEW f \in Surjection(T, Found(prefix)),
         \A t, u \in T : Before(f[t], f[u]) <=> t <= u
  PROVE  Iterate(prefix) = [i \in 1..Cardinality(T) |-> kv[f[Nth(T, i)]]]
<1> DEFINE n == Cardinality(T)
           keys == KVStorePrefixIterator(prefix)
<1>1. n \in Nat BY RankIsMonotonic
<1>2. keys = [i \in 1..n |-> f[Nth(T, i)]]
  BY Numbered DEF KVStorePrefixIterator
<1> HIDE DEF keys, n
<1>3. Len(keys) = n BY <1>1, <1>2
<1>4. Iterate(prefix) = [i \in 1..n |-> kv[keys[i]]] BY <1>3 DEF Iterate, keys
<1> QED BY <1>2, <1>4 DEF n

-----------------------------------------------------------------------------
(***************************************************************************)
(* Two records never have the same key.                                    *)
(***************************************************************************)
LEMMA HoldsOne ==
  ASSUME NEW s, NEW at
  PROVE  /\ \A n, m \in Uint64 : Holds(s, at, n) /\ Holds(s, at, m) => n = m
         /\ \A a, b \in Addresses :
              HoldsAddress(s, at, a) /\ HoldsAddress(s, at, b) => a = b
<1>1. ASSUME NEW n \in Uint64, NEW m \in Uint64, Holds(s, at, n), Holds(s, at, m)
      PROVE  n = m
  <2>1. \A i \in 1..IdBytes : BigEndian(n)[i] = BigEndian(m)[i]
    BY <1>1 DEF Holds
  <2> QED BY <2>1, BigEndianInjective
<1>2. ASSUME NEW a \in Addresses, NEW b \in Addresses,
             HoldsAddress(s, at, a), HoldsAddress(s, at, b)
      PROVE  a = b
  <2>1. a \in Seq(Nat) /\ b \in Seq(Nat) BY AddressType
  <2>2. Len(a) = Len(b) /\ \A i \in 1..Len(a) : a[i] = b[i]
    BY <1>2 DEF HoldsAddress
  <2> QED BY <2>1, <2>2, SeqEqual
<1> QED BY <1>1, <1>2

\* Keys of the same kind.
LEMMA KeysDiffer ==
  ASSUME NEW n \in Uint64, NEW m \in Uint64
  PROVE  /\ GetLastBidIdKey(n) = GetLastBidIdKey(m) => n = m
         /\ GetAuctionKey(n) = GetAuctionKey(m) => n = m
         /\ GetLastMatchedBidsLenKey(n) = GetLastMatchedBidsLenKey(m) => n = m
         /\ \A a, b \in Addresses :
              GetAllowedBidderKey(n, a) = GetAllowedBidderKey(m, b) =>
                n = m /\ a = b
         /\ \A k, j \in Uint64 :
              /\ GetBidKey(n, k) = GetBidKey(m, j) => n = m /\ k = j
              /\ GetVestingQueueKey(n, k) = GetVestingQueueKey(m, j) =>
                   n = m /\ k = j
         /\ \A a, b \in Addresses, k, j \in Uint64 :
              GetBidIndexKey(a, n, k) = GetBidIndexKey(b, m, j) =>
                a = b /\ n = m /\ k = j
<1>1. ASSUME NEW c \in Nat, <<c>> \o BigEndian(n) = <<c>> \o BigEndian(m)
      PROVE  n = m
  <2>1. Holds(<<c>> \o BigEndian(n), 1, n) /\ Holds(<<c>> \o BigEndian(m), 1, m)
    BY IdKey
  <2> QED BY <1>1, <2>1, HoldsOne
<1>2. ASSUME NEW c \in Nat, NEW k \in Uint64, NEW j \in Uint64,
             (<<c>> \o BigEndian(n)) \o BigEndian(k) =
               (<<c>> \o BigEndian(m)) \o BigEndian(j)
      PROVE  n = m /\ k = j
  <2> DEFINE s == (<<c>> \o BigEndian(n)) \o BigEndian(k)
             t == (<<c>> \o BigEndian(m)) \o BigEndian(j)
  <2>1. Holds(s, 1, n) /\ Holds(s, 1 + IdBytes, k) BY PairKey
  <2>2. Holds(t, 1, m) /\ Holds(t, 1 + IdBytes, j) BY PairKey
  <2>3. s = t BY <1>2
  <2> HIDE DEF s, t
  <2> QED BY <2>1, <2>2, <2>3, HoldsOne
<1>3. ASSUME NEW a \in Addresses, NEW b \in Addresses,
             GetAllowedBidderKey(n, a) = GetAllowedBidderKey(m, b)
      PROVE  n = m /\ a = b
  <2> DEFINE s == (<<34>> \o BigEndian(n)) \o LengthPrefix(a)
             t == (<<34>> \o BigEndian(m)) \o LengthPrefix(b)
  <2>1. Holds(s, 1, n) /\ HoldsAddress(s, 1 + IdBytes, a) BY AllowedKey
  <2>2. Holds(t, 1, m) /\ HoldsAddress(t, 1 + IdBytes, b) BY AllowedKey
  <2>3. s = t
    BY <1>3 DEF GetAllowedBidderKey, GetAllowedBiddersByAuctionKeyPrefix,
                AllowedBidderKeyPrefix
  <2> HIDE DEF s, t
  <2> QED BY <2>1, <2>2, <2>3, HoldsOne
<1>4. ASSUME NEW a \in Addresses, NEW b \in Addresses,
             NEW k \in Uint64, NEW j \in Uint64,
             NEW s, s = GetBidIndexKey(a, n, k),
             NEW t, t = GetBidIndexKey(b, m, j), s = t
      PROVE  a = b /\ n = m /\ k = j
  <2>1. /\ HoldsAddress(s, 1, a) /\ Holds(s, Len(a) + 2, n)
        /\ Holds(s, (Len(a) + 2) + IdBytes, k)
    BY <1>4, IndexKey
  <2>2. /\ HoldsAddress(t, 1, b) /\ Holds(t, Len(b) + 2, m)
        /\ Holds(t, (Len(b) + 2) + IdBytes, j)
    BY <1>4, IndexKey
  <2>3. a = b BY <1>4, <2>1, <2>2, HoldsOne
  <2> QED BY <1>4, <2>1, <2>2, <2>3, HoldsOne
<1>5. /\ GetLastBidIdKey(n) = GetLastBidIdKey(m) => n = m
      /\ GetAuctionKey(n) = GetAuctionKey(m) => n = m
      /\ GetLastMatchedBidsLenKey(n) = GetLastMatchedBidsLenKey(m) => n = m
  BY <1>1 DEF GetLastBidIdKey, LastBidIdKeyPrefix, GetAuctionKey,
              AuctionKeyPrefix, GetLastMatchedBidsLenKey, MatchedBidsLenPrefix
<1>6. ASSUME NEW k \in Uint64, NEW j \in Uint64
      PROVE  /\ GetBidKey(n, k) = GetBidKey(m, j) => n = m /\ k = j
             /\ GetVestingQueueKey(n, k) = GetVestingQueueKey(m, j) =>
                  n = m /\ k = j
  <2>1. GetBidKey(n, k) = GetBidKey(m, j) => n = m /\ k = j
    <3>1. (<<49>> \o BigEndian(n)) \o BigEndian(k) =
            (<<49>> \o BigEndian(m)) \o BigEndian(j) => n = m /\ k = j
      <4>1. 49 \in Nat OBVIOUS
      <4> QED BY <1>2, <4>1, ZenonT(40)
    <3> QED BY <3>1 DEF GetBidKey, GetBidByAuctionIdPrefix, BidKeyPrefix
  <2>2. GetVestingQueueKey(n, k) = GetVestingQueueKey(m, j) => n = m /\ k = j
    <3> DEFINE s == GetVestingQueueKey(n, k)
               t == GetVestingQueueKey(m, j)
               d == k \div DayLength
               c == k % DayLength
               e == j \div DayLength
               f == j % DayLength
    <3> SUFFICES ASSUME s = t PROVE n = m /\ k = j OBVIOUS
    <3>1. /\ Holds(s, 1, n) /\ Holds(s, 1 + IdBytes, d)
          /\ Holds(s, (1 + IdBytes) + IdBytes, c)
      BY QueueKey
    <3>2. /\ Holds(t, 1, m) /\ Holds(t, 1 + IdBytes, e)
          /\ Holds(t, (1 + IdBytes) + IdBytes, f)
      BY QueueKey
    <3>3. /\ d \in Uint64 /\ c \in Uint64 /\ e \in Uint64 /\ f \in Uint64
          /\ k <= j <=> d < e \/ (d = e /\ c <= f)
          /\ j <= k <=> e < d \/ (e = d /\ f <= c)
          /\ k \in Nat /\ j \in Nat /\ c \in Nat
      BY TimeParts, TopFacts
    <3> HIDE DEF s, t, d, c, e, f
    <3>4. n = m /\ d = e /\ c = f BY <3>1, <3>2, <3>3, HoldsOne
    <3> QED BY <3>3, <3>4
  <2> QED BY <2>1, <2>2
<1> QED BY <1>3, <1>4, <1>5, <1>6

\* Keys of different kinds.
LEMMA OneKind ==
  ASSUME NEW s, NEW b, NEW c, StartsWith(s, b), StartsWith(s, c)
  PROVE  b = c
BY DEF StartsWith

\* The keys of the keeper are keys.
LEMMA KeysOfRecords ==
  /\ LastAuctionIdKey \in Keys
  /\ \A id \in Uint64 :
       /\ GetLastBidIdKey(id) \in Keys
       /\ GetAuctionKey(id) \in Keys
       /\ GetLastMatchedBidsLenKey(id) \in Keys
       /\ \A a \in Addresses : GetAllowedBidderKey(id, a) \in Keys
       /\ \A k \in Uint64 : /\ GetBidKey(id, k) \in Keys
                            /\ GetVestingQueueKey(id, k) \in Keys
       /\ \A a \in Addresses, k \in Uint64 : GetBidIndexKey(a, id, k) \in Keys
<1>1. LastAuctionIdKey \in Keys BY DEF Keys
<1>2. ASSUME NEW id \in Uint64
      PROVE  /\ GetLastBidIdKey(id) \in Keys
             /\ GetAuctionKey(id) \in Keys
             /\ GetLastMatchedBidsLenKey(id) \in Keys
  BY DEF Keys
<1>3. ASSUME NEW id \in Uint64, NEW a \in Addresses
      PROVE  GetAllowedBidderKey(id, a) \in Keys
  BY DEF Keys
<1>4. ASSUME NEW id \in Uint64, NEW k \in Uint64
      PROVE  GetBidKey(id, k) \in Keys /\ GetVestingQueueKey(id, k) \in Keys
  BY DEF Keys
<1>5. ASSUME NEW a \in Addresses, NEW id \in Uint64, NEW k \in Uint64
      PROVE  GetBidIndexKey(a, id, k) \in Keys
  BY DEF Keys
<1> QED BY <1>1, <1>2, <1>3, <1>4, <1>5

-----------------------------------------------------------------------------
(***************************************************************************)
(* The invariant.                                                          *)
(***************************************************************************)
Statuses == {"StandBy", "Started", "Vesting", "Finished", "Cancelled"}

AuctionOf(id) == [id : {id}, type : {"FixedPrice", "Batch"}, status : Statuses]
BidOf(id, k) ==
  [auctionId : {id}, id : {k}, bidder : Addresses, isMatched : BOOLEAN]
QueueOf(id, t) == [auctionId : {id}, releaseTime : {t}, released : BOOLEAN]

\* The counters stay within the bounds.
NumbersOk ==
  /\ GetLastAuctionId \in 0..MaxAuctions
  /\ \A id \in Uint64 : GetLastBidId(id) \in 0..MaxBids

\* The auctions are those up to the last id, each under its own id.
AuctionsOk ==
  \A id \in Uint64 :
    /\ Has(GetAuctionKey(id)) <=> id \in Ids
    /\ Has(GetAuctionKey(id)) => kv[GetAuctionKey(id)] \in AuctionOf(id)

\* The bids of an auction are those up to its last id, each under its own ids.
BidsOk ==
  \A id, k \in Uint64 :
    /\ Has(GetBidKey(id, k)) <=> k \in 1..GetLastBidId(id)
    /\ Has(GetBidKey(id, k)) => kv[GetBidKey(id, k)] \in BidOf(id, k)

\* The index has an entry for a bidder and a bid exactly if it is the bidder's bid.
IndexOk ==
  \A a \in Addresses, id \in Uint64, k \in Uint64 :
    Has(GetBidIndexKey(a, id, k)) <=>
      Has(GetBidKey(id, k)) /\ kv[GetBidKey(id, k)].bidder = a

\* Only auctions that vest or have finished have queues, each under its own time.
QueuesOk ==
  \A id, t \in Uint64 :
    Has(GetVestingQueueKey(id, t)) =>
      /\ kv[GetVestingQueueKey(id, t)] \in QueueOf(id, t)
      /\ id \in Ids
      /\ kv[GetAuctionKey(id)].status \in {"Vesting", "Finished"}

StoreInv ==
  /\ DOMAIN kv \subseteq Keys
  /\ NumbersOk /\ AuctionsOk /\ BidsOk /\ IndexOk /\ QueuesOk

\* All ids in use are ids.
LEMMA IdsInUse ==
  ASSUME NumbersOk
  PROVE  /\ GetLastAuctionId \in Nat /\ Ids \subseteq AuctionIds
         /\ AuctionIds \subseteq Uint64 /\ 1..MaxBids \subseteq Uint64
         /\ Times \in SUBSET Uint64 /\ Uint64 \in SUBSET Nat /\ IsFiniteSet(Uint64)
         /\ \A id \in Uint64 : /\ GetLastBidId(id) \in Nat
                               /\ 1..GetLastBidId(id) \subseteq Uint64
<1>1. MaxAuctions \in Uint64 /\ MaxBids \in Uint64 /\ Times \in SUBSET Uint64
  BY StoreAssumption
<1>2. Power[IdBytes] \in Nat \ {0}
  BY StoreAssumption, PowerFacts
<1>3. Uint64 \in SUBSET Nat /\ IsFiniteSet(Uint64) BY <1>2, FS_Interval DEF Uint64
<1>4. AuctionIds \subseteq Uint64 /\ 1..MaxBids \subseteq Uint64
  BY <1>1, <1>2 DEF Uint64, AuctionIds
<1>5. GetLastAuctionId \in Nat /\ Ids \subseteq AuctionIds
  BY <1>1, <1>3 DEF NumbersOk, Ids, AuctionIds
<1>6. ASSUME NEW id \in Uint64
      PROVE  GetLastBidId(id) \in Nat /\ 1..GetLastBidId(id) \subseteq Uint64
  <2>1. GetLastBidId(id) \in 0..MaxBids BY DEF NumbersOk
  <2> QED BY <1>1, <1>3, <1>4, <2>1
<1> QED BY <1>1, <1>3, <1>4, <1>5, <1>6

-----------------------------------------------------------------------------
(***************************************************************************)
(* The lists of the keeper.                                                *)
(***************************************************************************)

\* The release times of the queues of an auction.
TimesOf(id) == {t \in Uint64 : Has(GetVestingQueueKey(id, t))}

LEMMA AuctionList ==
  ASSUME StoreInv
  PROVE  GetAuctions = [i \in 1..GetLastAuctionId |-> kv[GetAuctionKey(i)]]
<1> DEFINE n == GetLastAuctionId
           f == [i \in 1..n |-> GetAuctionKey(i)]
<1>1. n \in Nat /\ 1..n \subseteq Uint64 BY IdsInUse DEF StoreInv, Ids
<1>2. Found(AuctionKeyPrefix) = {GetAuctionKey(i) : i \in 1..n}
  <2>1. \A key \in DOMAIN kv : IsPrefix(AuctionKeyPrefix, key) <=>
                                 \E id \in Uint64 : key = GetAuctionKey(id)
    BY KeysFound DEF StoreInv
  <2>2. \A id \in Uint64 : GetAuctionKey(id) \in DOMAIN kv <=> id \in 1..n
    BY DEF StoreInv, AuctionsOk, Has, Ids
  <2> HIDE DEF n
  <2> QED BY <1>1, <2>1, <2>2 DEF Found
<1> HIDE DEF n
<1>3. f \in Surjection(1..n, Found(AuctionKeyPrefix))
  BY <1>2 DEF Surjection
<1>4. \A t, u \in 1..n : Before(f[t], f[u]) <=> t <= u BY <1>1, OrderOfKeys
<1>5. 1..n \in SUBSET Nat /\ IsFiniteSet(1..n) /\ Cardinality(1..n) = n
  BY <1>1, NthOfInterval
<1> HIDE DEF f
<1>6. Iterate(AuctionKeyPrefix) =
        [i \in 1..Cardinality(1..n) |-> kv[f[Nth(1..n, i)]]]
  <2> DEFINE T == 1..n
  <2>1. /\ T \in SUBSET Nat /\ IsFiniteSet(T)
        /\ f \in Surjection(T, Found(AuctionKeyPrefix))
        /\ \A t, u \in T : Before(f[t], f[u]) <=> t <= u
    BY <1>3, <1>4, <1>5
  <2> HIDE DEF T
  <2>2. Iterate(AuctionKeyPrefix) = [i \in 1..Cardinality(T) |-> kv[f[Nth(T, i)]]]
    BY <2>1, Iterated
  <2> QED BY <2>2 DEF T
<1>7. \A i \in 1..n : f[Nth(1..n, i)] = GetAuctionKey(i)
  BY <1>1, NthOfInterval DEF f
<1> QED BY <1>5, <1>6, <1>7 DEF GetAuctions, n

LEMMA BidList ==
  ASSUME StoreInv, NEW id \in Uint64
  PROVE  GetBidsByAuctionId(id) =
           [k \in 1..GetLastBidId(id) |-> kv[GetBidKey(id, k)]]
<1> DEFINE n == GetLastBidId(id)
           f == [k \in 1..n |-> GetBidKey(id, k)]
           prefix == GetBidByAuctionIdPrefix(id)
<1>1. n \in Nat /\ 1..n \subseteq Uint64 /\ Uint64 \subseteq Nat
  BY IdsInUse DEF StoreInv
<1>2. Found(prefix) = {GetBidKey(id, k) : k \in 1..n}
  <2>1. \A key \in DOMAIN kv : IsPrefix(prefix, key) <=>
                                 \E k \in Uint64 : key = GetBidKey(id, k)
    BY KeysFound DEF StoreInv
  <2>2. \A k \in Uint64 : GetBidKey(id, k) \in DOMAIN kv <=> k \in 1..n
    BY DEF StoreInv, BidsOk, Has
  <2> HIDE DEF n, prefix
  <2> QED BY <1>1, <2>1, <2>2 DEF Found
<1> HIDE DEF n
<1>3. f \in Surjection(1..n, Found(prefix)) BY <1>2 DEF Surjection
<1>4. \A t, u \in 1..n : Before(f[t], f[u]) <=> t <= u
  <2> SUFFICES ASSUME NEW t \in 1..n, NEW u \in 1..n
               PROVE  Before(f[t], f[u]) <=> t <= u
    OBVIOUS
  <2>1. Before(GetBidKey(id, t), GetBidKey(id, u)) <=>
          id < id \/ (id = id /\ t <= u)
    BY <1>1, OrderOfKeys
  <2>2. ~(id < id) BY <1>1
  <2> QED BY <2>1, <2>2
<1>5. 1..n \in SUBSET Nat /\ IsFiniteSet(1..n) /\ Cardinality(1..n) = n
  BY <1>1, NthOfInterval
<1> HIDE DEF f, prefix
<1>6. Iterate(prefix) = [i \in 1..Cardinality(1..n) |-> kv[f[Nth(1..n, i)]]]
  <2> DEFINE T == 1..n
  <2>1. /\ T \in SUBSET Nat /\ IsFiniteSet(T)
        /\ f \in Surjection(T, Found(prefix))
        /\ \A t, u \in T : Before(f[t], f[u]) <=> t <= u
    BY <1>3, <1>4, <1>5
  <2> HIDE DEF T
  <2>2. Iterate(prefix) = [i \in 1..Cardinality(T) |-> kv[f[Nth(T, i)]]]
    BY <2>1, Iterated
  <2> QED BY <2>2 DEF T
<1>7. \A i \in 1..n : f[Nth(1..n, i)] = GetBidKey(id, i)
  BY <1>1, NthOfInterval DEF f
<1> QED BY <1>5, <1>6, <1>7 DEF GetBidsByAuctionId, n, prefix

LEMMA QueueList ==
  ASSUME StoreInv, NEW id \in Uint64
  PROVE  /\ TimesOf(id) \in SUBSET Nat /\ IsFiniteSet(TimesOf(id))
         /\ GetVestingQueuesByAuctionId(id) =
              [i \in 1..Cardinality(TimesOf(id)) |->
                 kv[GetVestingQueueKey(id, Nth(TimesOf(id), i))]]
<1> DEFINE T == TimesOf(id)
           f == [t \in T |-> GetVestingQueueKey(id, t)]
           prefix == GetVestingQueueByAuctionIdPrefix(id)
<1>1. /\ T \in SUBSET Nat /\ T \subseteq Uint64 /\ IsFiniteSet(T)
      /\ Uint64 \subseteq Nat
  <2>1. Uint64 \in SUBSET Nat /\ IsFiniteSet(Uint64) BY IdsInUse DEF StoreInv
  <2>2. T \in SUBSET Uint64 BY DEF TimesOf
  <2> HIDE DEF T
  <2> QED BY <2>1, <2>2, FS_Subset
<1>2. Found(prefix) = {GetVestingQueueKey(id, t) : t \in T}
  <2>1. \A key \in DOMAIN kv :
          IsPrefix(prefix, key) <=>
            \E t \in Uint64 : key = GetVestingQueueKey(id, t)
    BY KeysFound DEF StoreInv
  <2>2. \A t \in Uint64 : GetVestingQueueKey(id, t) \in DOMAIN kv <=> t \in T
    BY DEF TimesOf, Has
  <2> HIDE DEF T, prefix
  <2> QED BY <1>1, <2>1, <2>2 DEF Found
<1> HIDE DEF T
<1>3. f \in Surjection(T, Found(prefix)) BY <1>2 DEF Surjection
<1>4. \A t, u \in T : Before(f[t], f[u]) <=> t <= u
  <2> SUFFICES ASSUME NEW t \in T, NEW u \in T
               PROVE  Before(f[t], f[u]) <=> t <= u
    OBVIOUS
  <2>1. Before(GetVestingQueueKey(id, t), GetVestingQueueKey(id, u)) <=>
          id < id \/ (id = id /\ t <= u)
    BY <1>1, OrderOfKeys
  <2>2. ~(id < id) BY <1>1
  <2> QED BY <2>1, <2>2
<1> HIDE DEF f, prefix
<1>5. Iterate(prefix) = [i \in 1..Cardinality(T) |-> kv[f[Nth(T, i)]]]
  BY <1>1, <1>3, <1>4, Iterated
<1>6. \A i \in 1..Cardinality(T) :
        f[Nth(T, i)] = GetVestingQueueKey(id, Nth(T, i))
  BY <1>1, NthHasItsRank DEF f
<1> QED BY <1>1, <1>5, <1>6 DEF GetVestingQueuesByAuctionId, T, prefix

-----------------------------------------------------------------------------
(***************************************************************************)
(* What a handler writes, and what it leaves alone.                        *)
(***************************************************************************)

\* Only the keys W are written.
Wrote(W) ==
  /\ DOMAIN kv' = W \cup DOMAIN kv
  /\ \A key \in DOMAIN kv \ W : kv'[key] = kv[key]

\* The records whose keys start with b are what they were.
Same(b) ==
  \A key \in Keys :
    StartsWith(key, b) => /\ Has(key)' <=> Has(key)
                          /\ Has(key) => kv'[key] = kv[key]

LEMMA OtherKinds ==
  ASSUME NEW W, Wrote(W), NEW b, \A key \in W : ~StartsWith(key, b)
  PROVE  Same(b)
BY DEF Wrote, Same, Has

LEMMA SameRecords ==
  /\ Same(17) => GetLastAuctionId' = GetLastAuctionId
  /\ \A id \in Uint64 :
       /\ Same(18) => GetLastBidId(id)' = GetLastBidId(id)
       /\ Same(51) => GetLastMatchedBidsLen(id)' = GetLastMatchedBidsLen(id)
       /\ Same(33) => /\ Has(GetAuctionKey(id))' <=> Has(GetAuctionKey(id))
                      /\ Has(GetAuctionKey(id)) =>
                           kv'[GetAuctionKey(id)] = kv[GetAuctionKey(id)]
       /\ \A a \in Addresses :
            Same(34) => MaxBidAmountOf(id, a)' = MaxBidAmountOf(id, a)
       /\ \A k \in Uint64 :
            /\ Same(49) => /\ Has(GetBidKey(id, k))' <=> Has(GetBidKey(id, k))
                           /\ Has(GetBidKey(id, k)) =>
                                kv'[GetBidKey(id, k)] = kv[GetBidKey(id, k)]
            /\ Same(65) =>
                 /\ Has(GetVestingQueueKey(id, k))' <=>
                      Has(GetVestingQueueKey(id, k))
                 /\ Has(GetVestingQueueKey(id, k)) =>
                      kv'[GetVestingQueueKey(id, k)] =
                        kv[GetVestingQueueKey(id, k)]
       /\ \A a \in Addresses, k \in Uint64 :
            Same(50) => (Has(GetBidIndexKey(a, id, k))' <=>
                           Has(GetBidIndexKey(a, id, k)))
<1>1. Same(17) => GetLastAuctionId' = GetLastAuctionId
  BY FirstBytes, KeysOfRecords DEF Same, GetLastAuctionId, Number, Has
<1>2. ASSUME NEW id \in Uint64
      PROVE  /\ Same(18) => GetLastBidId(id)' = GetLastBidId(id)
             /\ Same(51) => GetLastMatchedBidsLen(id)' = GetLastMatchedBidsLen(id)
             /\ Same(33) => /\ Has(GetAuctionKey(id))' <=> Has(GetAuctionKey(id))
                            /\ Has(GetAuctionKey(id)) =>
                                 kv'[GetAuctionKey(id)] = kv[GetAuctionKey(id)]
  BY FirstBytes, KeysOfRecords
     DEF Same, GetLastBidId, GetLastMatchedBidsLen, Number, Has
<1>3. ASSUME NEW id \in Uint64, NEW a \in Addresses
      PROVE  Same(34) => MaxBidAmountOf(id, a)' = MaxBidAmountOf(id, a)
  BY FirstBytes, KeysOfRecords DEF Same, MaxBidAmountOf, Has
<1>4. ASSUME NEW id \in Uint64, NEW k \in Uint64
      PROVE  /\ Same(49) => /\ Has(GetBidKey(id, k))' <=> Has(GetBidKey(id, k))
                            /\ Has(GetBidKey(id, k)) =>
                                 kv'[GetBidKey(id, k)] = kv[GetBidKey(id, k)]
             /\ Same(65) =>
                  /\ Has(GetVestingQueueKey(id, k))' <=>
                       Has(GetVestingQueueKey(id, k))
                  /\ Has(GetVestingQueueKey(id, k)) =>
                       kv'[GetVestingQueueKey(id, k)] =
                         kv[GetVestingQueueKey(id, k)]
  BY FirstBytes, KeysOfRecords DEF Same
<1>5. ASSUME NEW id \in Uint64, NEW a \in Addresses, NEW k \in Uint64
      PROVE  Same(50) => (Has(GetBidIndexKey(a, id, k))' <=>
                            Has(GetBidIndexKey(a, id, k)))
  BY FirstBytes, KeysOfRecords DEF Same
<1> QED BY <1>1, <1>2, <1>3, <1>4, <1>5

\* The parts of the invariant depend on a few kinds of records each.
LEMMA PartsKept ==
  ASSUME StoreInv
  PROVE  /\ Same(17) /\ Same(18) => NumbersOk'
         /\ Same(17) /\ Same(33) => AuctionsOk'
         /\ Same(18) /\ Same(49) => BidsOk'
         /\ Same(49) /\ Same(50) => IndexOk'
         /\ Same(17) /\ Same(33) /\ Same(65) => QueuesOk'
<1>1. NumbersOk /\ AuctionsOk /\ BidsOk /\ IndexOk /\ QueuesOk BY DEF StoreInv
<1>2. Same(17) /\ Same(18) => NumbersOk' BY <1>1, SameRecords DEF NumbersOk
<1>3. Same(17) => Ids' = Ids BY SameRecords DEF Ids
<1>4. Same(17) /\ Same(33) => AuctionsOk' BY <1>1, <1>3, SameRecords DEF AuctionsOk
<1>5. Same(18) /\ Same(49) => BidsOk' BY <1>1, SameRecords DEF BidsOk
<1>6. Same(49) /\ Same(50) => IndexOk' BY <1>1, SameRecords DEF IndexOk
<1>7. ASSUME Same(17), Same(33), Same(65) PROVE QueuesOk'
  <2> SUFFICES ASSUME NEW id \in Uint64, NEW t \in Uint64,
                      Has(GetVestingQueueKey(id, t))'
               PROVE  /\ kv'[GetVestingQueueKey(id, t)] \in QueueOf(id, t)
                      /\ id \in Ids'
                      /\ kv'[GetAuctionKey(id)].status \in {"Vesting", "Finished"}
    BY DEF QueuesOk
  <2>1. /\ Has(GetVestingQueueKey(id, t))
        /\ kv'[GetVestingQueueKey(id, t)] = kv[GetVestingQueueKey(id, t)]
    BY <1>7, SameRecords
  <2>2. /\ kv[GetVestingQueueKey(id, t)] \in QueueOf(id, t) /\ id \in Ids
        /\ kv[GetAuctionKey(id)].status \in {"Vesting", "Finished"}
    BY <1>1, <2>1 DEF QueuesOk
  <2>3. kv'[GetAuctionKey(id)] = kv[GetAuctionKey(id)]
    BY <1>1, <1>7, <2>2, SameRecords DEF AuctionsOk
  <2> QED BY <1>3, <1>7, <2>1, <2>2, <2>3
<1> QED BY <1>2, <1>4, <1>5, <1>6, <1>7

-----------------------------------------------------------------------------
(***************************************************************************)
(* What each handler writes.                                               *)
(***************************************************************************)
LEMMA WroteOne ==
  ASSUME NEW k, NEW v, kv' = Set(kv, k, v)
  PROVE  Wrote({k}) /\ kv'[k] = v
BY DEF Set, Wrote

LEMMA WroteTwo ==
  ASSUME NEW k, NEW v, NEW l, NEW w, kv' = Set(Set(kv, k, v), l, w), k # l
  PROVE  Wrote({k, l}) /\ kv'[k] = v /\ kv'[l] = w
BY DEF Set, Wrote

LEMMA WroteThree ==
  ASSUME NEW k, NEW v, NEW l, NEW w, NEW m, NEW x,
         kv' = Set(Set(Set(kv, k, v), l, w), m, x), k # l, k # m, l # m
  PROVE  Wrote({k, l, m}) /\ kv'[k] = v /\ kv'[l] = w /\ kv'[m] = x
BY DEF Set, Wrote

\* Every kind but some.
SameBut(S) == \A b \in Nat \ S : Same(b)

LEMMA KindsWritten ==
  ASSUME NEW W, Wrote(W), NEW S, \A key \in W : \E b \in S : StartsWith(key, b)
  PROVE  SameBut(S)
<1> SUFFICES ASSUME NEW c \in Nat \ S PROVE Same(c) BY DEF SameBut
<1>1. \A key \in W : ~StartsWith(key, c) BY OneKind
<1> QED BY <1>1, OtherKinds

\* The auction of an id in use.
LEMMA AuctionInUse ==
  ASSUME StoreInv, NEW id \in Ids
  PROVE  /\ id \in Uint64 /\ id \in AuctionIds /\ Has(GetAuctionKey(id))
         /\ GetAuction(id) \in AuctionOf(id) /\ GetAuction(id).id = id
         /\ \A status \in Statuses :
              [GetAuction(id) EXCEPT !.status = status] \in AuctionOf(id)
<1>1. id \in Uint64 /\ id \in AuctionIds BY IdsInUse DEF StoreInv
<1>2. Has(GetAuctionKey(id)) /\ GetAuction(id) \in AuctionOf(id)
  BY <1>1 DEF StoreInv, AuctionsOk, GetAuction
<1> QED BY <1>1, <1>2 DEF AuctionOf

LEMMA CreateAuctionWrites ==
  ASSUME StoreInv, NEW type, NEW status, CreateAuction(type, status)
  PROVE  LET id == GetLastAuctionId + 1
         IN  /\ SameBut({17, 33}) /\ id \in AuctionIds
             /\ Wrote({LastAuctionIdKey, GetAuctionKey(id)})
             /\ GetLastAuctionId' = id
             /\ kv'[GetAuctionKey(id)] =
                  [id |-> id, type |-> type, status |-> status]
<1> DEFINE id == GetLastAuctionId + 1
           W == {LastAuctionIdKey, GetAuctionKey(id)}
           auction == [id |-> id, type |-> type, status |-> status]
<1>1. id \in AuctionIds /\ id \in Uint64
  <2>1. GetLastAuctionId \in Nat /\ id <= MaxAuctions /\ AuctionIds \subseteq Uint64
        /\ MaxAuctions \in Nat
    BY IdsInUse, StoreAssumption DEF CreateAuction, StoreInv
  <2>2. id \in 1..MaxAuctions BY <2>1
  <2> QED BY <2>1, <2>2 DEF AuctionIds
<1>2. kv' = Set(Set(kv, LastAuctionIdKey, id), GetAuctionKey(id), auction)
  BY DEF CreateAuction, SetAuction
<1>3. StartsWith(LastAuctionIdKey, 17) /\ StartsWith(GetAuctionKey(id), 33)
  BY <1>1, FirstBytes
<1>4. LastAuctionIdKey # GetAuctionKey(id)
  <2>1. 17 # 33 OBVIOUS
  <2> QED BY <1>3, <2>1, OneKind
<1> HIDE DEF id, auction
<1>5. Wrote(W) /\ kv'[LastAuctionIdKey] = id /\ kv'[GetAuctionKey(id)] = auction
  BY <1>2, <1>4, WroteTwo
<1>6. SameBut({17, 33}) BY <1>3, <1>5, KindsWritten
<1>7. GetLastAuctionId' = id
  BY <1>5 DEF GetLastAuctionId, Number, Has, Wrote
<1> QED BY <1>1, <1>5, <1>6, <1>7 DEF id, auction

LEMMA SetStatusWrites ==
  ASSUME StoreInv, NEW id \in Ids, NEW status, SetStatus(id, status)
  PROVE  /\ SameBut({33}) /\ Wrote({GetAuctionKey(id)})
         /\ GetAuction(id).status \in {"StandBy", "Started"}
         /\ status \in Statuses
         /\ kv'[GetAuctionKey(id)] = [GetAuction(id) EXCEPT !.status = status]
<1> DEFINE auction == [GetAuction(id) EXCEPT !.status = status]
<1>1. id \in Uint64 /\ GetAuction(id) \in AuctionOf(id) BY AuctionInUse
<1>2. auction.id = id BY <1>1 DEF AuctionOf
<1>3. /\ kv' = Set(kv, GetAuctionKey(auction.id), auction)
      /\ GetAuction(id).status \in {"StandBy", "Started"} /\ status \in Statuses
  BY DEF SetStatus, SetAuction, Statuses
<1>4. StartsWith(GetAuctionKey(id), 33) BY <1>1, FirstBytes
<1> HIDE DEF auction
<1>5. Wrote({GetAuctionKey(id)}) /\ kv'[GetAuctionKey(id)] = auction
  BY <1>2, <1>3, WroteOne
<1>6. SameBut({33}) BY <1>4, <1>5, KindsWritten
<1> QED BY <1>3, <1>5, <1>6 DEF auction

LEMMA AllowBidderWrites ==
  ASSUME StoreInv, NEW id \in Ids, NEW a \in Addresses, NEW max,
         AllowBidder(id, a, max)
  PROVE  /\ SameBut({34}) /\ Wrote({GetAllowedBidderKey(id, a)})
         /\ kv'[GetAllowedBidderKey(id, a)] = [bidder |-> a, maxBidAmount |-> max]
<1> DEFINE entry == [bidder |-> a, maxBidAmount |-> max]
<1>1. StartsWith(GetAllowedBidderKey(id, a), 34) BY AuctionInUse, FirstBytes
<1>2. kv' = Set(kv, GetAllowedBidderKey(id, a), entry)
  BY DEF AllowBidder, SetAllowedBidder
<1> HIDE DEF entry
<1>3. /\ Wrote({GetAllowedBidderKey(id, a)})
      /\ kv'[GetAllowedBidderKey(id, a)] = entry
  BY <1>2, WroteOne
<1>4. SameBut({34}) BY <1>1, <1>3, KindsWritten
<1> QED BY <1>3, <1>4 DEF entry

LEMMA PlaceBidWrites ==
  ASSUME StoreInv, NEW id \in Ids, NEW a \in Addresses, PlaceBid(id, a)
  PROVE  LET k == GetLastBidId(id) + 1
         IN  /\ SameBut({18, 49, 50}) /\ k \in 1..MaxBids
             /\ Wrote({GetLastBidIdKey(id), GetBidKey(id, k),
                       GetBidIndexKey(a, id, k)})
             /\ GetLastBidId(id)' = k
             /\ kv'[GetBidKey(id, k)] =
                  [auctionId |-> id, id |-> k, bidder |-> a,
                   isMatched |-> GetAuction(id).type = "FixedPrice"]
<1> DEFINE k == GetLastBidId(id) + 1
           bid == [auctionId |-> id, id |-> k, bidder |-> a,
                   isMatched |-> GetAuction(id).type = "FixedPrice"]
           W == {GetLastBidIdKey(id), GetBidKey(id, k), GetBidIndexKey(a, id, k)}
<1>1. id \in Uint64 BY AuctionInUse
<1>2. k \in 1..MaxBids /\ k \in Uint64
  <2>1. /\ GetLastBidId(id) \in Nat /\ k <= MaxBids /\ MaxBids \in Nat
        /\ 1..MaxBids \subseteq Uint64
    BY <1>1, IdsInUse, StoreAssumption DEF PlaceBid, StoreInv
  <2>2. k \in 1..MaxBids BY <2>1
  <2> QED BY <2>1, <2>2
<1>3. kv' = Set(Set(Set(kv, GetLastBidIdKey(id), k), GetBidKey(id, k), bid),
                GetBidIndexKey(a, id, k), <<>>)
  BY DEF PlaceBid, SetBid
<1>4. /\ StartsWith(GetLastBidIdKey(id), 18) /\ StartsWith(GetBidKey(id, k), 49)
      /\ StartsWith(GetBidIndexKey(a, id, k), 50)
  BY <1>1, <1>2, FirstBytes
<1>5. /\ GetLastBidIdKey(id) # GetBidKey(id, k)
      /\ GetLastBidIdKey(id) # GetBidIndexKey(a, id, k)
      /\ GetBidKey(id, k) # GetBidIndexKey(a, id, k)
  <2>1. 18 # 49 /\ 18 # 50 /\ 49 # 50 OBVIOUS
  <2> QED BY <1>4, <2>1, OneKind
<1> HIDE DEF k, bid
<1>6. /\ Wrote(W) /\ kv'[GetLastBidIdKey(id)] = k /\ kv'[GetBidKey(id, k)] = bid
  BY <1>3, <1>5, WroteThree
<1>7. SameBut({18, 49, 50}) BY <1>4, <1>6, KindsWritten
<1>8. GetLastBidId(id)' = k BY <1>6 DEF GetLastBidId, Number, Has, Wrote
<1> QED BY <1>2, <1>6, <1>7, <1>8 DEF k, bid

\* The bids ks of auction id are marked, and the other bids are what they were.
BidsMarked(id, ks) ==
  \A j, k \in Uint64 :
    /\ Has(GetBidKey(j, k))' <=> Has(GetBidKey(j, k))
    /\ Has(GetBidKey(j, k)) =>
         kv'[GetBidKey(j, k)] =
           IF j = id /\ k \in ks
             THEN [kv[GetBidKey(j, k)] EXCEPT !.isMatched = TRUE]
             ELSE kv[GetBidKey(j, k)]

LEMMA MatchBidsWrites ==
  ASSUME StoreInv, NEW id \in Ids, NEW ks \in SUBSET (1..GetLastBidId(id)),
         MatchBids(id, ks)
  PROVE  /\ SameBut({49, 50, 51})
         /\ DOMAIN kv' = {GetLastMatchedBidsLenKey(id)} \cup DOMAIN kv
         /\ GetLastMatchedBidsLen(id)' = Cardinality(ks)
         /\ \A j \in Uint64 \ {id} :
              GetLastMatchedBidsLen(j)' = GetLastMatchedBidsLen(j)
         /\ BidsMarked(id, ks)
         /\ \A a \in Addresses, j \in Uint64, k \in Uint64 :
              Has(GetBidIndexKey(a, j, k))' <=> Has(GetBidIndexKey(a, j, k))
<1> DEFINE n == GetLastBidId(id)
           matched == {bid \in ToSet(GetBidsByAuctionId(id)) : bid.id \in ks}
           bs == {[bid EXCEPT !.isMatched = TRUE] : bid \in matched}
           bk(k) == GetBidKey(id, k)
           keysOf(bid) == {GetBidKey(bid.auctionId, bid.id),
                           GetBidIndexKey(bid.bidder, bid.auctionId, bid.id)}
           marked(k) == [kv[bk(k)] EXCEPT !.isMatched = TRUE]
           len == GetLastMatchedBidsLenKey(id)
           map == SetBids(kv, bs)
<1>1. id \in Uint64 /\ n \in Nat /\ 1..n \subseteq Uint64 /\ ks \subseteq 1..n
  BY AuctionInUse, IdsInUse DEF StoreInv
<1>2. \A k \in 1..n : Has(bk(k)) /\ kv[bk(k)] \in BidOf(id, k)
  BY <1>1 DEF StoreInv, BidsOk
<1>3. bs = {marked(k) : k \in ks}
  <2>1. ToSet(GetBidsByAuctionId(id)) = {kv[bk(k)] : k \in 1..n}
    BY BidList, <1>1 DEF ToSet
  <2>2. \A k \in 1..n : kv[bk(k)].id = k BY <1>2 DEF BidOf
  <2> HIDE DEF n
  <2>3. matched = {kv[bk(k)] : k \in ks} BY <1>1, <2>1, <2>2
  <2> HIDE DEF matched
  <2> QED BY <2>3
<1>4. \A k \in ks : /\ marked(k) \in BidOf(id, k)
                    /\ marked(k).auctionId = id /\ marked(k).id = k
                    /\ marked(k).bidder = kv[bk(k)].bidder
                    /\ marked(k).bidder \in Addresses
  <2> SUFFICES ASSUME NEW k \in ks
               PROVE  /\ marked(k) \in BidOf(id, k)
                      /\ marked(k).auctionId = id /\ marked(k).id = k
                      /\ marked(k).bidder = kv[bk(k)].bidder
                      /\ marked(k).bidder \in Addresses
    OBVIOUS
  <2>1. kv[bk(k)] \in BidOf(id, k) BY <1>1, <1>2
  <2> QED BY <2>1 DEF BidOf
<1> DEFINE ik(k) == GetBidIndexKey(kv[bk(k)].bidder, id, k)
<1>5. \A k \in ks : keysOf(marked(k)) = {bk(k), ik(k)} BY <1>4
<1>6. \A k \in ks : StartsWith(bk(k), 49) /\ StartsWith(ik(k), 50)
  BY <1>1, <1>4, FirstBytes
<1>7. kv' = Set(map, len, Cardinality(ks)) BY DEF MatchBids
<1>8. StartsWith(len, 51) BY <1>1, FirstBytes
<1>9. \A k \in ks : bk(k) \in DOMAIN kv /\ ik(k) \in DOMAIN kv
  <2> SUFFICES ASSUME NEW k \in ks PROVE bk(k) \in DOMAIN kv /\ ik(k) \in DOMAIN kv
    OBVIOUS
  <2>1. k \in Uint64 /\ Has(bk(k)) BY <1>1, <1>2
  <2>2. Has(ik(k)) BY <1>1, <1>4, <2>1 DEF StoreInv, IndexOk
  <2> QED BY <2>1, <2>2 DEF Has
<1>10. DOMAIN map = DOMAIN kv
  <2>1. DOMAIN map = DOMAIN kv \cup UNION {keysOf(bid) : bid \in bs}
    BY DEF SetBids
  <2> HIDE DEF map, keysOf, marked, bk, ik, bs
  <2>2. \A bid \in bs : keysOf(bid) \subseteq DOMAIN kv BY <1>3, <1>5, <1>9
  <2> QED BY <2>1, <2>2
<1>11. ASSUME NEW key \in DOMAIN kv, \A k \in ks : key # bk(k) /\ key # ik(k)
       PROVE  map[key] = kv[key]
  <2>1. \A bid \in bs : key \notin keysOf(bid)
    <3> HIDE DEF keysOf, marked, bk, ik, bs
    <3> QED BY <1>3, <1>5, <1>11
  <2>2. map[key] = IF \E bid \in bs : key \in keysOf(bid)
                     THEN SetBid(kv, CHOOSE bid \in bs : key \in keysOf(bid))[key]
                     ELSE kv[key]
    BY <1>11 DEF SetBids
  <2> HIDE DEF map, keysOf, bs
  <2> QED BY <2>1, <2>2
<1>12. ASSUME NEW k \in ks PROVE map[bk(k)] = marked(k)
  <2> DEFINE key == bk(k)
             chosen == CHOOSE bid \in bs : key \in keysOf(bid)
  <2>1. marked(k) \in bs /\ key \in keysOf(marked(k))
    <3> HIDE DEF keysOf, marked, bk, ik, bs
    <3> QED BY <1>3, <1>5
  <2>2. chosen \in bs /\ key \in keysOf(chosen)
    <3> HIDE DEF keysOf, marked, bs, key
    <3> QED BY <2>1
  <2>3. PICK j \in ks : chosen = marked(j)
    <3> HIDE DEF marked, bs, chosen
    <3> QED BY <1>3, <2>2
  <2>4. key = bk(j) \/ key = ik(j)
    <3> HIDE DEF keysOf, marked, bk, ik, chosen, key
    <3> QED BY <1>5, <2>2, <2>3
  <2>5. key # ik(j)
    <3>1. StartsWith(key, 49) /\ StartsWith(ik(j), 50) /\ 49 # 50 BY <1>6
    <3> HIDE DEF key, ik
    <3> QED BY <3>1, OneKind
  <2>6. j = k
    <3>1. j \in Uint64 /\ k \in Uint64 BY <1>1
    <3> QED BY <1>1, <2>4, <2>5, <3>1, KeysDiffer
  <2>7. map[key] = SetBid(kv, chosen)[key]
    <3>1. key \in DOMAIN kv BY <1>9
    <3>2. map[key] = IF \E bid \in bs : key \in keysOf(bid)
                       THEN SetBid(kv, chosen)[key] ELSE kv[key]
      BY <3>1 DEF SetBids
    <3> HIDE DEF map, keysOf, bs, chosen, key
    <3> QED BY <2>2, <3>2
  <2>8. SetBid(kv, marked(k)) =
          Set(Set(kv, bk(k), marked(k)), ik(k), <<>>)
    <3> HIDE DEF marked
    <3> QED BY <1>4 DEF SetBid
  <2>9. Set(Set(kv, bk(k), marked(k)), ik(k), <<>>)[key] = marked(k)
    <3>1. key = bk(k) /\ key # ik(k) BY <2>5, <2>6
    <3> HIDE DEF key, marked, bk, ik
    <3> QED BY <3>1 DEF Set
  <2> QED BY <2>3, <2>6, <2>7, <2>8, <2>9
<1> DEFINE W == {len} \cup {bk(k) : k \in ks} \cup {ik(k) : k \in ks}
<1> HIDE DEF map, marked, bs
<1>13. DOMAIN kv' = {len} \cup DOMAIN kv BY <1>7, <1>10 DEF Set
<1>14. \A key \in DOMAIN kv \ {len} : kv'[key] = map[key]
  BY <1>7, <1>10 DEF Set
<1>15. kv'[len] = Cardinality(ks) BY <1>7 DEF Set
<1>16. Wrote(W)
  <2>1. DOMAIN kv' = W \cup DOMAIN kv
    <3> HIDE DEF len, bk, ik
    <3> QED BY <1>9, <1>13
  <2>2. ASSUME NEW key \in DOMAIN kv \ W PROVE kv'[key] = kv[key]
    <3> HIDE DEF len, bk, ik
    <3> QED BY <1>11, <1>14, <2>2
  <2> QED BY <2>1, <2>2 DEF Wrote
<1>17. SameBut({49, 50, 51})
  <2>1. \A key \in W : \E b \in {49, 50, 51} : StartsWith(key, b)
    <3> HIDE DEF len, bk, ik
    <3> QED BY <1>6, <1>8
  <2> HIDE DEF W
  <2> QED BY <1>16, <2>1, KindsWritten
<1>18. GetLastMatchedBidsLen(id)' = Cardinality(ks)
  BY <1>13, <1>15 DEF GetLastMatchedBidsLen, Number, Has
<1>19. ASSUME NEW j \in Uint64 \ {id}
       PROVE  GetLastMatchedBidsLen(j)' = GetLastMatchedBidsLen(j)
  <2> DEFINE key == GetLastMatchedBidsLenKey(j)
  <2>1. key # len BY <1>1, KeysDiffer
  <2>2. StartsWith(key, 51) BY FirstBytes
  <2>3. \A k \in ks : key # bk(k) /\ key # ik(k)
    <3>1. 51 # 49 /\ 51 # 50 OBVIOUS
    <3> HIDE DEF key, bk, ik
    <3> QED BY <1>6, <2>2, <3>1, OneKind
  <2>4. /\ key \in DOMAIN kv' <=> key \in DOMAIN kv
        /\ key \in DOMAIN kv => kv'[key] = kv[key]
    <3> HIDE DEF key, bk, ik, len
    <3> QED BY <1>13, <1>14, <1>11, <2>1, <2>3
  <2> QED BY <2>4 DEF GetLastMatchedBidsLen, Number, Has
<1>20. ASSUME NEW j \in Uint64, NEW k \in Uint64
       PROVE  /\ Has(GetBidKey(j, k))' <=> Has(GetBidKey(j, k))
              /\ Has(GetBidKey(j, k)) =>
                   kv'[GetBidKey(j, k)] =
                     IF j = id /\ k \in ks
                       THEN [kv[GetBidKey(j, k)] EXCEPT !.isMatched = TRUE]
                       ELSE kv[GetBidKey(j, k)]
  <2> DEFINE key == GetBidKey(j, k)
  <2>1. StartsWith(key, 49) BY FirstBytes
  <2>2. key # len /\ \A i \in ks : key # ik(i)
    <3>1. 49 # 51 /\ 49 # 50 OBVIOUS
    <3> HIDE DEF key, ik, len
    <3> QED BY <1>6, <1>8, <2>1, <3>1, OneKind
  <2>3. Has(key)' <=> Has(key) BY <1>13, <2>2 DEF Has
  <2>4. CASE j = id /\ k \in ks
    <3>1. key = bk(k) BY <2>4
    <3>2. kv'[key] = marked(k) BY <1>9, <1>12, <1>14, <2>2, <2>4, <3>1
    <3> QED BY <2>3, <2>4, <3>2 DEF marked
  <2>5. CASE ~(j = id /\ k \in ks)
    <3>1. \A i \in ks : key # bk(i)
      <4> SUFFICES ASSUME NEW i \in ks, key = bk(i) PROVE FALSE OBVIOUS
      <4>1. i \in Uint64 BY <1>1
      <4>2. j = id /\ k = i BY <1>1, <4>1, KeysDiffer
      <4> QED BY <2>5, <4>2
    <3>2. Has(key) => kv'[key] = kv[key]
      <4> HIDE DEF key, bk, ik, len
      <4> QED BY <1>11, <1>14, <2>2, <3>1 DEF Has
    <3> QED BY <2>3, <2>5, <3>2
  <2> QED BY <2>4, <2>5
<1>21. ASSUME NEW a \in Addresses, NEW j \in Uint64, NEW k \in Uint64
       PROVE  Has(GetBidIndexKey(a, j, k))' <=> Has(GetBidIndexKey(a, j, k))
  <2> DEFINE key == GetBidIndexKey(a, j, k)
  <2>1. StartsWith(key, 50) BY FirstBytes
  <2>2. key # len
    <3>1. 50 # 51 OBVIOUS
    <3> HIDE DEF key, len
    <3> QED BY <1>8, <2>1, <3>1, OneKind
  <2> QED BY <1>13, <2>2 DEF Has
<1>22. BidsMarked(id, ks) BY <1>20 DEF BidsMarked
<1> QED BY <1>13, <1>17, <1>18, <1>19, <1>21, <1>22

LEMMA VestWrites ==
  ASSUME StoreInv, NEW id \in Ids, NEW ts \in SUBSET Times, Vest(id, ts)
  PROVE  /\ SameBut({33, 65})
         /\ Wrote({GetVestingQueueKey(id, t) : t \in ts} \cup {GetAuctionKey(id)})
         /\ GetAuction(id).status = "Started"
         /\ kv'[GetAuctionKey(id)] = [GetAuction(id) EXCEPT !.status = "Vesting"]
         /\ \A t \in ts : kv'[GetVestingQueueKey(id, t)] =
              [auctionId |-> id, releaseTime |-> t, released |-> FALSE]
<1> DEFINE auction == [GetAuction(id) EXCEPT !.status = "Vesting"]
           ak == GetAuctionKey(id)
           qk(t) == GetVestingQueueKey(id, t)
           queue(t) == [auctionId |-> id, releaseTime |-> t, released |-> FALSE]
           map == SetVestingQueues(kv, id, ts)
           W == {qk(t) : t \in ts} \cup {ak}
<1>1. /\ id \in Uint64 /\ GetAuction(id) \in AuctionOf(id) /\ Has(ak)
      /\ ts \subseteq Uint64
  BY AuctionInUse, IdsInUse DEF StoreInv
<1>2. auction.id = id BY <1>1 DEF AuctionOf
<1>3. kv' = Set(map, ak, auction)
  <2>1. kv' = Set(map, GetAuctionKey(auction.id), auction)
    BY DEF Vest, SetAuction
  <2> HIDE DEF auction, map
  <2> QED BY <1>2, <2>1
<1>4. StartsWith(ak, 33) /\ \A t \in ts : StartsWith(qk(t), 65)
  BY <1>1, FirstBytes
<1>5. \A t \in ts : qk(t) # ak
  <2>1. 33 # 65 OBVIOUS
  <2> HIDE DEF ak, qk
  <2> QED BY <1>4, <2>1, OneKind
<1>6. \A t, u \in ts : qk(t) = qk(u) => t = u BY <1>1, KeysDiffer
<1>7. DOMAIN map = {qk(t) : t \in ts} \cup DOMAIN kv BY DEF SetVestingQueues
<1>8. ASSUME NEW t \in ts PROVE map[qk(t)] = queue(t)
  <2> DEFINE key == qk(t)
             chosen == CHOOSE u \in ts : key = qk(u)
  <2>1. chosen \in ts /\ key = qk(chosen)
    <3> HIDE DEF qk, queue, map, W, auction, ak
    <3> QED BY ZenonT(60)
  <2>2. chosen = t BY <1>6, <2>1
  <2>3. map[key] = [auctionId |-> id, released |-> FALSE, releaseTime |-> chosen]
    <3>1. key \in {qk(u) : u \in ts} OBVIOUS
    <3>2. \E u \in ts : key = qk(u) OBVIOUS
    <3> HIDE DEF key
    <3> QED BY <3>1, <3>2 DEF SetVestingQueues
  <2> HIDE DEF chosen
  <2> QED BY <2>2, <2>3
<1>9. ASSUME NEW key \in DOMAIN kv, \A t \in ts : key # qk(t)
      PROVE  map[key] = kv[key]
  BY <1>9 DEF SetVestingQueues
<1> HIDE DEF map, auction
<1>10. /\ DOMAIN kv' = {ak} \cup DOMAIN map /\ kv'[ak] = auction
       /\ \A key \in DOMAIN map \ {ak} : kv'[key] = map[key]
  BY <1>3 DEF Set
<1>11. Wrote(W)
  <2> HIDE DEF ak, qk
  <2>1. DOMAIN kv' = W \cup DOMAIN kv BY <1>7, <1>10
  <2>2. ASSUME NEW key \in DOMAIN kv \ W PROVE kv'[key] = kv[key]
    BY <1>7, <1>9, <1>10, <2>2
  <2> QED BY <2>1, <2>2 DEF Wrote
<1>12. \A t \in ts : kv'[qk(t)] = queue(t)
  <2> HIDE DEF ak, qk, queue
  <2> QED BY <1>5, <1>7, <1>8, <1>10
<1>13. SameBut({33, 65})
  <2>1. \A key \in W : \E b \in {33, 65} : StartsWith(key, b)
    <3> HIDE DEF ak, qk
    <3> QED BY <1>4
  <2> HIDE DEF W
  <2> QED BY <1>11, <2>1, KindsWritten
<1>14. GetAuction(id).status = "Started" BY DEF Vest
<1> QED BY <1>10, <1>11, <1>12, <1>13, <1>14 DEF auction

LEMMA ReleaseWrites ==
  ASSUME StoreInv, NEW id \in Ids,
         NEW i \in 1..Len(GetVestingQueuesByAuctionId(id)), Release(id, i)
  PROVE  LET T == TimesOf(id)
             t == Nth(T, i)
             status == IF i = Cardinality(T) THEN "Finished" ELSE "Vesting"
         IN  /\ SameBut({33, 65})
             /\ Wrote({GetVestingQueueKey(id, t), GetAuctionKey(id)})
             /\ i \in 1..Cardinality(T)
             /\ t \in Uint64 /\ Has(GetVestingQueueKey(id, t))
             /\ kv'[GetVestingQueueKey(id, t)] =
                  [auctionId |-> id, releaseTime |-> t, released |-> TRUE]
             /\ GetAuction(id).status = "Vesting"
             /\ kv'[GetAuctionKey(id)] = [GetAuction(id) EXCEPT !.status = status]
<1> DEFINE T == TimesOf(id)
           t == Nth(T, i)
           n == Cardinality(T)
           queues == GetVestingQueuesByAuctionId(id)
           key == GetVestingQueueKey(id, t)
           ak == GetAuctionKey(id)
           queue == [queues[i] EXCEPT !.released = TRUE]
           status == IF i = Len(queues) THEN "Finished" ELSE GetAuction(id).status
           auction == [GetAuction(id) EXCEPT !.status = status]
<1>1. id \in Uint64 /\ GetAuction(id) \in AuctionOf(id) BY AuctionInUse
<1>2. /\ T \in SUBSET Nat /\ IsFiniteSet(T)
      /\ queues = [j \in 1..n |-> kv[GetVestingQueueKey(id, Nth(T, j))]]
  BY <1>1, QueueList
<1>3. n \in Nat BY <1>2, FS_CardinalityType
<1>4. Len(queues) = n
  <2> HIDE DEF queues, n
  <2> QED BY <1>2, <1>3
<1>5. i \in 1..n BY <1>4
<1>6. t \in T
  <2> HIDE DEF T
  <2> QED BY <1>2, <1>5, NthHasItsRank
<1>7. t \in Uint64 /\ Has(key) BY <1>6 DEF TimesOf
<1>8. queues[i] = kv[key]
  <2> HIDE DEF queues, n
  <2> QED BY <1>2, <1>5
<1>9. kv[key] \in QueueOf(id, t) BY <1>1, <1>7 DEF StoreInv, QueuesOk
<1>10. queue = [auctionId |-> id, releaseTime |-> t, released |-> TRUE]
  <2> DEFINE q == queues[i]
  <2>1. q \in [auctionId : {id}, releaseTime : {t}, released : BOOLEAN]
    BY <1>8, <1>9 DEF QueueOf
  <2> HIDE DEF q, t
  <2>2. [q EXCEPT !.released = TRUE] \in
          [auctionId : {id}, releaseTime : {t}, released : {TRUE}]
    BY <2>1
  <2>3. ASSUME NEW r \in [auctionId : {id}, releaseTime : {t}, released : {TRUE}]
        PROVE  r = [auctionId |-> id, releaseTime |-> t, released |-> TRUE]
    OBVIOUS
  <2> QED BY <2>2, <2>3 DEF q
<1>11. auction.id = id BY <1>1 DEF AuctionOf
<1>12. kv' = Set(Set(kv, key, queue), ak, auction)
  <2>1. kv' = Set(Set(kv, GetVestingQueueKey(queue.auctionId, queue.releaseTime),
                      queue),
                  GetAuctionKey(auction.id), auction)
    BY DEF Release, SetAuction, SetVestingQueue
  <2>2. queue.auctionId = id /\ queue.releaseTime = t
    <3> HIDE DEF queue
    <3> QED BY <1>10
  <2> HIDE DEF queue, auction, t
  <2> QED BY <1>11, <2>1, <2>2
<1>13. StartsWith(key, 65) /\ StartsWith(ak, 33) BY <1>1, <1>7, FirstBytes
<1>14. key # ak
  <2>1. 33 # 65 OBVIOUS
  <2> HIDE DEF ak, key
  <2> QED BY <1>13, <2>1, OneKind
<1> HIDE DEF key, ak, queue, auction
<1>15. Wrote({key, ak}) /\ kv'[key] = queue /\ kv'[ak] = auction
  BY <1>12, <1>14, WroteTwo
<1>16. SameBut({33, 65}) BY <1>13, <1>15, KindsWritten
<1>17. GetAuction(id).status = "Vesting" BY DEF Release
<1>18. auction = [GetAuction(id) EXCEPT
                    !.status = IF i = n THEN "Finished" ELSE "Vesting"]
  BY <1>4, <1>17 DEF auction
<1> HIDE DEF n, t
<1> QED BY <1>5, <1>7, <1>10, <1>15, <1>16, <1>17, <1>18 DEF n, t, key, ak

-----------------------------------------------------------------------------
(***************************************************************************)
(* Every handler keeps the invariant.                                      *)
(***************************************************************************)
LEMMA StoreInvInit == Init => StoreInv
<1> SUFFICES ASSUME Init PROVE StoreInv OBVIOUS
<1>1. DOMAIN kv = {} BY DEF Init
<1>2. MaxAuctions \in Nat /\ MaxBids \in Nat
  <2>1. Power[IdBytes] \in Nat BY StoreAssumption, PowerFacts
  <2> QED BY <2>1, StoreAssumption DEF Uint64
<1>3. GetLastAuctionId = 0 /\ \A id \in Uint64 : GetLastBidId(id) = 0
  BY <1>1 DEF GetLastAuctionId, GetLastBidId, Number, Has
<1>4. NumbersOk BY <1>2, <1>3 DEF NumbersOk
<1>5. AuctionsOk BY <1>1, <1>3 DEF AuctionsOk, Ids, Has
<1>6. BidsOk BY <1>1, <1>3 DEF BidsOk, Has
<1>7. IndexOk /\ QueuesOk BY <1>1 DEF IndexOk, QueuesOk, Has
<1> QED BY <1>1, <1>4, <1>5, <1>6, <1>7 DEF StoreInv

LEMMA CreateAuctionKeeps ==
  ASSUME StoreInv, NEW type \in {"FixedPrice", "Batch"},
         NEW status \in {"StandBy", "Started"}, CreateAuction(type, status)
  PROVE  StoreInv'
<1> DEFINE n == GetLastAuctionId
           id == n + 1
           W == {LastAuctionIdKey, GetAuctionKey(id)}
           auction == [id |-> id, type |-> type, status |-> status]
<1>1. /\ SameBut({17, 33}) /\ id \in AuctionIds /\ Wrote(W)
      /\ GetLastAuctionId' = id /\ kv'[GetAuctionKey(id)] = auction
  BY CreateAuctionWrites
<1>2. n \in Nat /\ AuctionIds \subseteq Uint64 /\ id \in Uint64
  BY <1>1, IdsInUse DEF StoreInv
<1>3. Same(18) /\ Same(34) /\ Same(49) /\ Same(50) /\ Same(65)
  BY <1>1 DEF SameBut
<1>4. BidsOk' /\ IndexOk' BY <1>3, PartsKept
<1>5. NumbersOk'
  <2>1. GetLastAuctionId' \in 0..MaxAuctions BY <1>1, <1>2 DEF AuctionIds
  <2>2. \A j \in Uint64 : GetLastBidId(j)' \in 0..MaxBids
    BY <1>3, SameRecords DEF StoreInv, NumbersOk
  <2> QED BY <2>1, <2>2 DEF NumbersOk
<1>6. ASSUME NEW j \in Uint64
      PROVE  /\ Has(GetAuctionKey(j))' <=> Has(GetAuctionKey(j)) \/ j = id
             /\ j # id /\ Has(GetAuctionKey(j)) =>
                  kv'[GetAuctionKey(j)] = kv[GetAuctionKey(j)]
  <2>1. GetAuctionKey(j) = GetAuctionKey(id) => j = id BY <1>2, KeysDiffer
  <2>2. GetAuctionKey(j) # LastAuctionIdKey
    <3>1. /\ StartsWith(GetAuctionKey(j), 33) /\ StartsWith(LastAuctionIdKey, 17)
          /\ 17 # 33
      BY FirstBytes
    <3> QED BY <3>1, OneKind
  <2> HIDE DEF id
  <2> QED BY <1>1, <2>1, <2>2 DEF Wrote, Has
<1>7. auction \in AuctionOf(id) BY DEF AuctionOf, Statuses
<1>8. Ids = 1..n /\ Ids' = 1..id /\ 1..id = (1..n) \cup {id} /\ id \notin 1..n
  BY <1>1, <1>2 DEF Ids
<1>9. AuctionsOk'
  <2> SUFFICES ASSUME NEW j \in Uint64
               PROVE  /\ Has(GetAuctionKey(j))' <=> j \in Ids'
                      /\ Has(GetAuctionKey(j))' =>
                           kv'[GetAuctionKey(j)] \in AuctionOf(j)
    BY DEF AuctionsOk
  <2>1. /\ Has(GetAuctionKey(j)) <=> j \in Ids
        /\ Has(GetAuctionKey(j)) => kv[GetAuctionKey(j)] \in AuctionOf(j)
    BY DEF StoreInv, AuctionsOk
  <2> HIDE DEF id, auction, n
  <2> QED BY <1>1, <1>6, <1>7, <1>8, <2>1
<1>10. QueuesOk'
  <2> SUFFICES ASSUME NEW j \in Uint64, NEW t \in Uint64,
                      Has(GetVestingQueueKey(j, t))'
               PROVE  /\ kv'[GetVestingQueueKey(j, t)] \in QueueOf(j, t)
                      /\ j \in Ids'
                      /\ kv'[GetAuctionKey(j)].status \in {"Vesting", "Finished"}
    BY DEF QueuesOk
  <2>1. /\ Has(GetVestingQueueKey(j, t))
        /\ kv'[GetVestingQueueKey(j, t)] = kv[GetVestingQueueKey(j, t)]
    BY <1>3, SameRecords
  <2>2. /\ kv[GetVestingQueueKey(j, t)] \in QueueOf(j, t) /\ j \in Ids
        /\ kv[GetAuctionKey(j)].status \in {"Vesting", "Finished"}
        /\ Has(GetAuctionKey(j))
    BY <2>1 DEF StoreInv, QueuesOk, AuctionsOk
  <2> HIDE DEF id, n
  <2> QED BY <1>6, <1>8, <2>1, <2>2
<1>11. (DOMAIN kv \subseteq Keys)'
  <2>1. W \subseteq Keys BY <1>2, KeysOfRecords
  <2> HIDE DEF W
  <2> QED BY <1>1, <2>1 DEF Wrote, StoreInv
<1> QED BY <1>4, <1>5, <1>9, <1>10, <1>11 DEF StoreInv

\* Auction id is written again, with nothing but queues of its own.
LEMMA AuctionRewritten ==
  ASSUME StoreInv, NEW id \in Ids, NEW W, Wrote(W), GetAuctionKey(id) \in W,
         \A j \in Uint64 : GetAuctionKey(j) \in W => j = id, Same(17),
         kv'[GetAuctionKey(id)] \in AuctionOf(id)
  PROVE  /\ AuctionsOk'
         /\ \A j \in Uint64 \ {id} : Has(GetAuctionKey(j)) =>
              kv'[GetAuctionKey(j)] = kv[GetAuctionKey(j)]
<1>1. id \in Uint64 /\ Has(GetAuctionKey(id)) BY AuctionInUse
<1>2. Ids' = Ids BY SameRecords DEF Ids
<1>3. ASSUME NEW j \in Uint64
      PROVE  /\ Has(GetAuctionKey(j))' <=> Has(GetAuctionKey(j))
             /\ j # id /\ Has(GetAuctionKey(j)) =>
                  kv'[GetAuctionKey(j)] = kv[GetAuctionKey(j)]
  BY <1>1 DEF Wrote, Has
<1>4. \A j \in Uint64 :
        /\ Has(GetAuctionKey(j)) <=> j \in Ids
        /\ Has(GetAuctionKey(j)) => kv[GetAuctionKey(j)] \in AuctionOf(j)
  BY DEF StoreInv, AuctionsOk
<1>5. AuctionsOk' BY <1>1, <1>2, <1>3, <1>4 DEF AuctionsOk
<1> QED BY <1>3, <1>5

LEMMA SetStatusKeeps ==
  ASSUME StoreInv, NEW id \in Ids, NEW status, SetStatus(id, status)
  PROVE  StoreInv'
<1> DEFINE ak == GetAuctionKey(id)
<1>1. /\ SameBut({33}) /\ Wrote({ak})
      /\ GetAuction(id).status \in {"StandBy", "Started"} /\ status \in Statuses
      /\ kv'[ak] = [GetAuction(id) EXCEPT !.status = status]
  BY SetStatusWrites
<1>2. id \in Uint64 /\ kv'[ak] \in AuctionOf(id) BY <1>1, AuctionInUse
<1>3. Same(17) /\ Same(18) /\ Same(49) /\ Same(50) /\ Same(65)
  BY <1>1 DEF SameBut
<1>4. NumbersOk' /\ BidsOk' /\ IndexOk' BY <1>3, PartsKept
<1>5. /\ AuctionsOk'
      /\ \A j \in Uint64 \ {id} : Has(GetAuctionKey(j)) =>
           kv'[GetAuctionKey(j)] = kv[GetAuctionKey(j)]
  <2>1. \A j \in Uint64 : GetAuctionKey(j) \in {ak} => j = id
    BY <1>2, KeysDiffer
  <2>2. ak \in {ak} OBVIOUS
  <2> QED BY <1>1, <1>2, <1>3, <2>1, <2>2, AuctionRewritten
<1>6. QueuesOk'
  <2> SUFFICES ASSUME NEW j \in Uint64, NEW t \in Uint64,
                      Has(GetVestingQueueKey(j, t))'
               PROVE  /\ kv'[GetVestingQueueKey(j, t)] \in QueueOf(j, t)
                      /\ j \in Ids'
                      /\ kv'[GetAuctionKey(j)].status \in {"Vesting", "Finished"}
    BY DEF QueuesOk
  <2>1. /\ Has(GetVestingQueueKey(j, t))
        /\ kv'[GetVestingQueueKey(j, t)] = kv[GetVestingQueueKey(j, t)]
    BY <1>3, SameRecords
  <2>2. /\ kv[GetVestingQueueKey(j, t)] \in QueueOf(j, t) /\ j \in Ids
        /\ kv[GetAuctionKey(j)].status \in {"Vesting", "Finished"}
        /\ Has(GetAuctionKey(j))
    BY <2>1 DEF StoreInv, QueuesOk, AuctionsOk
  <2>3. j # id BY <1>1, <2>2 DEF GetAuction
  <2>4. Ids' = Ids BY <1>3, SameRecords DEF Ids
  <2> QED BY <1>5, <2>1, <2>2, <2>3, <2>4
<1>7. (DOMAIN kv \subseteq Keys)'
  <2>1. ak \in Keys BY <1>2, KeysOfRecords
  <2> QED BY <1>1, <2>1 DEF Wrote, StoreInv
<1> QED BY <1>4, <1>5, <1>6, <1>7 DEF StoreInv

LEMMA AllowBidderKeeps ==
  ASSUME StoreInv, NEW id \in Ids, NEW a \in Addresses, NEW max,
         AllowBidder(id, a, max)
  PROVE  StoreInv'
<1>1. SameBut({34}) /\ Wrote({GetAllowedBidderKey(id, a)}) BY AllowBidderWrites
<1>2. Same(17) /\ Same(18) /\ Same(33) /\ Same(49) /\ Same(50) /\ Same(65)
  BY <1>1 DEF SameBut
<1>3. NumbersOk' /\ AuctionsOk' /\ BidsOk' /\ IndexOk' /\ QueuesOk'
  BY <1>2, PartsKept
<1>4. GetAllowedBidderKey(id, a) \in Keys BY AuctionInUse, KeysOfRecords
<1>5. (DOMAIN kv \subseteq Keys)' BY <1>1, <1>4 DEF Wrote, StoreInv
<1> QED BY <1>3, <1>5 DEF StoreInv

LEMMA PlaceBidKeeps ==
  ASSUME StoreInv, NEW id \in Ids, NEW a \in Addresses, PlaceBid(id, a)
  PROVE  /\ StoreInv'
         /\ \A j \in Uint64 \ {id} : GetLastBidId(j)' = GetLastBidId(j)
         /\ \A j, i \in Uint64 :
              ~(j = id /\ i = GetLastBidId(id) + 1) /\ Has(GetBidKey(j, i)) =>
                kv'[GetBidKey(j, i)] = kv[GetBidKey(j, i)]
<1> DEFINE n == GetLastBidId(id)
           k == n + 1
           lk == GetLastBidIdKey(id)
           bk == GetBidKey(id, k)
           ik == GetBidIndexKey(a, id, k)
           W == {lk, bk, ik}
           fixed == GetAuction(id).type = "FixedPrice"
           bid == [auctionId |-> id, id |-> k, bidder |-> a, isMatched |-> fixed]
<1>1. /\ SameBut({18, 49, 50}) /\ k \in 1..MaxBids /\ Wrote(W)
      /\ GetLastBidId(id)' = k /\ kv'[bk] = bid
  BY PlaceBidWrites
<1>2. /\ id \in Uint64 /\ n \in Nat /\ k \in Uint64
      /\ \A j \in Uint64 : 1..GetLastBidId(j) \subseteq Uint64
  BY <1>1, AuctionInUse, IdsInUse DEF StoreInv
<1>3. Same(17) /\ Same(33) /\ Same(65) BY <1>1 DEF SameBut
<1>4. AuctionsOk' /\ QueuesOk' BY <1>3, PartsKept
<1>5. StartsWith(lk, 18) /\ StartsWith(bk, 49) /\ StartsWith(ik, 50)
  BY <1>2, FirstBytes
<1> HIDE DEF k, n
<1>6. ASSUME NEW j \in Uint64 \ {id} PROVE GetLastBidId(j)' = GetLastBidId(j)
  <2> DEFINE key == GetLastBidIdKey(j)
  <2>1. key # lk BY <1>2, KeysDiffer
  <2>2. key # bk /\ key # ik
    <3>1. StartsWith(key, 18) /\ 18 # 49 /\ 18 # 50 BY FirstBytes
    <3> HIDE DEF key, bk, ik
    <3> QED BY <1>5, <3>1, OneKind
  <2> HIDE DEF lk, bk, ik
  <2> QED BY <1>1, <2>1, <2>2 DEF GetLastBidId, Number, Has, Wrote
<1>7. NumbersOk'
  <2>1. GetLastAuctionId' \in 0..MaxAuctions
    BY <1>3, SameRecords DEF StoreInv, NumbersOk
  <2>2. ASSUME NEW j \in Uint64 PROVE GetLastBidId(j)' \in 0..MaxBids
    <3>1. k \in 0..MaxBids BY <1>1
    <3>2. GetLastBidId(j) \in 0..MaxBids BY DEF StoreInv, NumbersOk
    <3> QED BY <1>1, <1>6, <3>1, <3>2
  <2> QED BY <2>1, <2>2 DEF NumbersOk
<1>8. ASSUME NEW j \in Uint64, NEW i \in Uint64
      PROVE  /\ Has(GetBidKey(j, i))' <=>
                  Has(GetBidKey(j, i)) \/ (j = id /\ i = k)
             /\ ~(j = id /\ i = k) /\ Has(GetBidKey(j, i)) =>
                  kv'[GetBidKey(j, i)] = kv[GetBidKey(j, i)]
  <2> DEFINE key == GetBidKey(j, i)
  <2>1. key = bk => j = id /\ i = k BY <1>2, KeysDiffer
  <2>2. j = id /\ i = k => key = bk OBVIOUS
  <2>3. key # lk /\ key # ik
    <3>1. StartsWith(key, 49) /\ 18 # 49 /\ 49 # 50 BY FirstBytes
    <3> HIDE DEF key, lk, ik
    <3> QED BY <1>5, <3>1, OneKind
  <2> HIDE DEF lk, bk, ik, key
  <2>4. /\ Has(key)' <=> Has(key) \/ (j = id /\ i = k)
        /\ ~(j = id /\ i = k) /\ Has(key) => kv'[key] = kv[key]
    BY <1>1, <2>1, <2>2, <2>3 DEF Wrote, Has
  <2> QED BY <2>4 DEF key
<1>9. ASSUME NEW b \in Addresses, NEW j \in Uint64, NEW i \in Uint64
      PROVE  Has(GetBidIndexKey(b, j, i))' <=>
               Has(GetBidIndexKey(b, j, i)) \/ (b = a /\ j = id /\ i = k)
  <2> DEFINE key == GetBidIndexKey(b, j, i)
  <2>1. key = ik => b = a /\ j = id /\ i = k BY <1>2, KeysDiffer
  <2>2. b = a /\ j = id /\ i = k => key = ik OBVIOUS
  <2>3. key # lk /\ key # bk
    <3>1. StartsWith(key, 50) /\ 18 # 50 /\ 49 # 50 BY FirstBytes
    <3> HIDE DEF key, lk, bk
    <3> QED BY <1>5, <3>1, OneKind
  <2> HIDE DEF lk, bk, ik, key
  <2>4. Has(key)' <=> Has(key) \/ (b = a /\ j = id /\ i = k)
    BY <1>1, <2>1, <2>2, <2>3 DEF Wrote, Has
  <2> QED BY <2>4 DEF key
<1>10. bid \in BidOf(id, k) /\ bid.bidder = a
  <2>1. fixed \in BOOLEAN OBVIOUS
  <2> HIDE DEF fixed
  <2> QED BY <2>1 DEF BidOf
<1>11. k = n + 1 BY DEF k
<1> HIDE DEF bid
<1>12. BidsOk'
  <2> SUFFICES ASSUME NEW j \in Uint64, NEW i \in Uint64
               PROVE  /\ Has(GetBidKey(j, i))' <=> i \in 1..(GetLastBidId(j)')
                      /\ Has(GetBidKey(j, i))' =>
                           kv'[GetBidKey(j, i)] \in BidOf(j, i)
    BY DEF BidsOk
  <2>1. /\ Has(GetBidKey(j, i)) <=> i \in 1..GetLastBidId(j)
        /\ Has(GetBidKey(j, i)) => kv[GetBidKey(j, i)] \in BidOf(j, i)
    BY DEF StoreInv, BidsOk
  <2>2. j # id => GetLastBidId(j)' = GetLastBidId(j) BY <1>6
  <2>3. 1..k = (1..n) \cup {k} BY <1>2, <1>11
  <2>4. j = id => GetLastBidId(j) = n BY DEF n
  <2> QED BY <1>1, <1>8, <1>10, <2>1, <2>2, <2>3, <2>4
<1>13. IndexOk'
  <2> SUFFICES ASSUME NEW b \in Addresses, NEW j \in Uint64, NEW i \in Uint64
               PROVE  Has(GetBidIndexKey(b, j, i))' <=>
                        /\ Has(GetBidKey(j, i))'
                        /\ kv'[GetBidKey(j, i)].bidder = b
    BY DEF IndexOk
  <2>1. Has(GetBidIndexKey(b, j, i)) <=>
          Has(GetBidKey(j, i)) /\ kv[GetBidKey(j, i)].bidder = b
    BY DEF StoreInv, IndexOk
  <2>2. CASE j = id /\ i = k
    <3>1. ~Has(GetBidKey(j, i))
      <4>1. k \notin 1..n BY <1>2, <1>11
      <4> QED BY <2>2, <4>1 DEF StoreInv, BidsOk, n
    <3> QED BY <1>1, <1>8, <1>9, <1>10, <2>1, <2>2, <3>1
  <2>3. CASE ~(j = id /\ i = k) BY <1>8, <1>9, <2>1, <2>3
  <2> QED BY <2>2, <2>3
<1>14. (DOMAIN kv \subseteq Keys)'
  <2>1. W \subseteq Keys BY <1>2, KeysOfRecords
  <2> HIDE DEF W
  <2> QED BY <1>1, <2>1 DEF Wrote, StoreInv
<1>15. StoreInv' BY <1>4, <1>7, <1>12, <1>13, <1>14 DEF StoreInv
<1>16. \A j, i \in Uint64 :
         ~(j = id /\ i = k) /\ Has(GetBidKey(j, i)) =>
           kv'[GetBidKey(j, i)] = kv[GetBidKey(j, i)]
  BY <1>8
<1> QED BY <1>6, <1>15, <1>16 DEF k, n

LEMMA MatchBidsKeeps ==
  ASSUME StoreInv, NEW id \in Ids, NEW ks \in SUBSET (1..GetLastBidId(id)),
         MatchBids(id, ks)
  PROVE  StoreInv'
<1>1. /\ SameBut({49, 50, 51})
      /\ DOMAIN kv' = {GetLastMatchedBidsLenKey(id)} \cup DOMAIN kv
      /\ BidsMarked(id, ks)
      /\ \A a \in Addresses, j \in Uint64, k \in Uint64 :
           Has(GetBidIndexKey(a, j, k))' <=> Has(GetBidIndexKey(a, j, k))
  BY MatchBidsWrites
<1>2. Same(17) /\ Same(18) /\ Same(33) /\ Same(65) BY <1>1 DEF SameBut
<1>3. NumbersOk' /\ AuctionsOk' /\ QueuesOk' BY <1>2, PartsKept
<1>4. ASSUME NEW j \in Uint64, NEW k \in Uint64, Has(GetBidKey(j, k))
      PROVE  /\ kv'[GetBidKey(j, k)] \in BidOf(j, k)
             /\ kv'[GetBidKey(j, k)].bidder = kv[GetBidKey(j, k)].bidder
  <2> DEFINE bid == kv[GetBidKey(j, k)]
  <2>1. bid \in BidOf(j, k) BY <1>4 DEF StoreInv, BidsOk
  <2> HIDE DEF bid
  <2>2. /\ [bid EXCEPT !.isMatched = TRUE] \in BidOf(j, k)
        /\ [bid EXCEPT !.isMatched = TRUE].bidder = bid.bidder
    BY <2>1 DEF BidOf
  <2>3. \/ kv'[GetBidKey(j, k)] = bid
        \/ kv'[GetBidKey(j, k)] = [bid EXCEPT !.isMatched = TRUE]
    BY <1>1, <1>4 DEF bid, BidsMarked
  <2> QED BY <2>1, <2>2, <2>3 DEF bid
<1>5. BidsOk'
  <2>1. \A j \in Uint64 : GetLastBidId(j)' = GetLastBidId(j)
    BY <1>2, SameRecords
  <2> QED BY <1>1, <1>4, <2>1 DEF StoreInv, BidsOk, BidsMarked
<1>6. IndexOk'
  <2> SUFFICES ASSUME NEW a \in Addresses, NEW j \in Uint64, NEW k \in Uint64
               PROVE  Has(GetBidIndexKey(a, j, k))' <=>
                        /\ Has(GetBidKey(j, k))'
                        /\ kv'[GetBidKey(j, k)].bidder = a
    BY DEF IndexOk
  <2>1. Has(GetBidIndexKey(a, j, k)) <=>
          Has(GetBidKey(j, k)) /\ kv[GetBidKey(j, k)].bidder = a
    BY DEF StoreInv, IndexOk
  <2> QED BY <1>1, <1>4, <2>1 DEF BidsMarked
<1>7. (DOMAIN kv \subseteq Keys)'
  <2>1. GetLastMatchedBidsLenKey(id) \in Keys BY AuctionInUse, KeysOfRecords
  <2> QED BY <1>1, <2>1 DEF StoreInv
<1> QED BY <1>3, <1>5, <1>6, <1>7 DEF StoreInv

\* Queues of auction id are written, and the auction, which vests or has finished.
LEMMA QueuesRewritten ==
  ASSUME StoreInv, NEW id \in Ids, NEW ts \in SUBSET Uint64,
         Wrote({GetVestingQueueKey(id, t) : t \in ts} \cup {GetAuctionKey(id)}),
         NEW status \in {"Vesting", "Finished"},
         kv'[GetAuctionKey(id)] = [GetAuction(id) EXCEPT !.status = status],
         \A t \in ts : kv'[GetVestingQueueKey(id, t)] \in QueueOf(id, t)
  PROVE  /\ StoreInv'
         /\ \A j \in Uint64 \ {id} : Has(GetAuctionKey(j)) =>
              kv'[GetAuctionKey(j)] = kv[GetAuctionKey(j)]
         /\ \A j, t \in Uint64 :
              /\ Has(GetVestingQueueKey(j, t))' <=>
                   Has(GetVestingQueueKey(j, t)) \/ (j = id /\ t \in ts)
              /\ ~(j = id /\ t \in ts) /\ Has(GetVestingQueueKey(j, t)) =>
                   kv'[GetVestingQueueKey(j, t)] = kv[GetVestingQueueKey(j, t)]
<1> DEFINE ak == GetAuctionKey(id)
           W == {GetVestingQueueKey(id, t) : t \in ts} \cup {ak}
<1>1. /\ id \in Uint64 /\ GetAuction(id) \in AuctionOf(id)
      /\ kv'[ak] \in AuctionOf(id) /\ kv'[ak].status = status
  <2>1. id \in Uint64 /\ GetAuction(id) \in AuctionOf(id) BY AuctionInUse
  <2>2. status \in Statuses BY DEF Statuses
  <2>3. kv'[ak] \in AuctionOf(id) BY <2>2, AuctionInUse
  <2> QED BY <2>1, <2>3 DEF AuctionOf
<1>2. StartsWith(ak, 33) /\ \A t \in ts : StartsWith(GetVestingQueueKey(id, t), 65)
  BY <1>1, FirstBytes
<1>3. SameBut({33, 65})
  <2>1. \A key \in W : \E b \in {33, 65} : StartsWith(key, b) BY <1>2
  <2> QED BY <2>1, KindsWritten
<1>4. Same(17) /\ Same(18) /\ Same(49) /\ Same(50) BY <1>3 DEF SameBut
<1>5. NumbersOk' /\ BidsOk' /\ IndexOk' BY <1>4, PartsKept
<1>6. ASSUME NEW key \in W, ~StartsWith(key, 65) PROVE key = ak
  BY <1>2, <1>6
<1>7. /\ AuctionsOk'
      /\ \A j \in Uint64 \ {id} : Has(GetAuctionKey(j)) =>
           kv'[GetAuctionKey(j)] = kv[GetAuctionKey(j)]
  <2>1. ASSUME NEW j \in Uint64, GetAuctionKey(j) \in W PROVE j = id
    <3>1. StartsWith(GetAuctionKey(j), 33) /\ 33 # 65 BY FirstBytes
    <3>2. ~StartsWith(GetAuctionKey(j), 65) BY <3>1, OneKind
    <3> QED BY <1>1, <1>6, <2>1, <3>2, KeysDiffer
  <2>2. Wrote(W) /\ ak \in W OBVIOUS
  <2> HIDE DEF W
  <2> QED BY <1>1, <1>4, <2>1, <2>2, AuctionRewritten
<1>8. ASSUME NEW j \in Uint64, NEW t \in Uint64
      PROVE  /\ Has(GetVestingQueueKey(j, t))' <=>
                  Has(GetVestingQueueKey(j, t)) \/ (j = id /\ t \in ts)
             /\ ~(j = id /\ t \in ts) /\ Has(GetVestingQueueKey(j, t)) =>
                  kv'[GetVestingQueueKey(j, t)] = kv[GetVestingQueueKey(j, t)]
  <2> DEFINE key == GetVestingQueueKey(j, t)
  <2>1. key # ak
    <3>1. StartsWith(key, 65) /\ 33 # 65 BY FirstBytes
    <3> HIDE DEF key, ak
    <3> QED BY <1>2, <3>1, OneKind
  <2>2. key \in W <=> j = id /\ t \in ts
    <3>1. \A u \in ts : key = GetVestingQueueKey(id, u) => j = id /\ t = u
      BY <1>1, KeysDiffer
    <3> HIDE DEF ak
    <3> QED BY <2>1, <3>1
  <2>3. Wrote(W) OBVIOUS
  <2> HIDE DEF W, key
  <2>4. /\ Has(key)' <=> Has(key) \/ (j = id /\ t \in ts)
        /\ ~(j = id /\ t \in ts) /\ Has(key) => kv'[key] = kv[key]
    BY <2>2, <2>3 DEF Wrote, Has
  <2> QED BY <2>4 DEF key
<1>9. Ids' = Ids BY <1>4, SameRecords DEF Ids
<1>10. QueuesOk'
  <2> SUFFICES ASSUME NEW j \in Uint64, NEW t \in Uint64,
                      Has(GetVestingQueueKey(j, t))'
               PROVE  /\ kv'[GetVestingQueueKey(j, t)] \in QueueOf(j, t)
                      /\ j \in Ids'
                      /\ kv'[GetAuctionKey(j)].status \in {"Vesting", "Finished"}
    BY DEF QueuesOk
  <2>1. CASE j = id
    <3>1. kv'[GetVestingQueueKey(j, t)] \in QueueOf(j, t)
      <4>1. Has(GetVestingQueueKey(j, t)) =>
              kv[GetVestingQueueKey(j, t)] \in QueueOf(j, t)
        BY DEF StoreInv, QueuesOk
      <4> QED BY <1>8, <2>1, <4>1
    <3> QED BY <1>1, <1>9, <2>1, <3>1
  <2>2. CASE j # id
    <3>1. /\ Has(GetVestingQueueKey(j, t))
          /\ kv'[GetVestingQueueKey(j, t)] = kv[GetVestingQueueKey(j, t)]
      BY <1>8, <2>2
    <3>2. /\ kv[GetVestingQueueKey(j, t)] \in QueueOf(j, t) /\ j \in Ids
          /\ kv[GetAuctionKey(j)].status \in {"Vesting", "Finished"}
          /\ Has(GetAuctionKey(j))
      BY <3>1 DEF StoreInv, QueuesOk, AuctionsOk
    <3> QED BY <1>7, <1>9, <2>2, <3>1, <3>2
  <2> QED BY <2>1, <2>2
<1>11. (DOMAIN kv \subseteq Keys)'
  <2>1. W \subseteq Keys BY <1>1, KeysOfRecords
  <2>2. Wrote(W) OBVIOUS
  <2> HIDE DEF W
  <2> QED BY <2>1, <2>2 DEF Wrote, StoreInv
<1> QED BY <1>5, <1>7, <1>8, <1>10, <1>11 DEF StoreInv

LEMMA QueueIs ==
  ASSUME NEW id, NEW t, NEW released \in BOOLEAN
  PROVE  [auctionId |-> id, releaseTime |-> t, released |-> released] \in
           QueueOf(id, t)
BY DEF QueueOf

LEMMA VestKeeps ==
  ASSUME StoreInv, NEW id \in Ids, NEW ts \in SUBSET Times, Vest(id, ts)
  PROVE  /\ StoreInv'
         /\ \A j \in Uint64 \ {id} : Has(GetAuctionKey(j)) =>
              kv'[GetAuctionKey(j)] = kv[GetAuctionKey(j)]
         /\ \A j, t \in Uint64 :
              /\ Has(GetVestingQueueKey(j, t))' <=>
                   Has(GetVestingQueueKey(j, t)) \/ (j = id /\ t \in ts)
              /\ ~(j = id /\ t \in ts) /\ Has(GetVestingQueueKey(j, t)) =>
                   kv'[GetVestingQueueKey(j, t)] = kv[GetVestingQueueKey(j, t)]
<1>1. /\ Wrote({GetVestingQueueKey(id, t) : t \in ts} \cup {GetAuctionKey(id)})
      /\ kv'[GetAuctionKey(id)] = [GetAuction(id) EXCEPT !.status = "Vesting"]
      /\ \A t \in ts : kv'[GetVestingQueueKey(id, t)] =
           [auctionId |-> id, releaseTime |-> t, released |-> FALSE]
  BY VestWrites
<1>2. ts \in SUBSET Uint64 BY IdsInUse DEF StoreInv
<1>3. ASSUME NEW t \in ts PROVE kv'[GetVestingQueueKey(id, t)] \in QueueOf(id, t)
  <2>1. [auctionId |-> id, releaseTime |-> t, released |-> FALSE] \in QueueOf(id, t)
    BY QueueIs
  <2> QED BY <1>1, <2>1, Zenon
<1>4. "Vesting" \in {"Vesting", "Finished"} OBVIOUS
<1> QED BY <1>1, <1>2, <1>3, <1>4, QueuesRewritten

LEMMA ReleaseKeeps ==
  ASSUME StoreInv, NEW id \in Ids,
         NEW i \in 1..Len(GetVestingQueuesByAuctionId(id)), Release(id, i)
  PROVE  LET u == Nth(TimesOf(id), i)
         IN  /\ StoreInv'
             /\ \A j \in Uint64 \ {id} : Has(GetAuctionKey(j)) =>
                  kv'[GetAuctionKey(j)] = kv[GetAuctionKey(j)]
             /\ \A j, t \in Uint64 :
                  /\ Has(GetVestingQueueKey(j, t))' <=>
                       Has(GetVestingQueueKey(j, t))
                  /\ ~(j = id /\ t = u) /\ Has(GetVestingQueueKey(j, t)) =>
                       kv'[GetVestingQueueKey(j, t)] = kv[GetVestingQueueKey(j, t)]
<1> DEFINE u == Nth(TimesOf(id), i)
           status == IF i = Cardinality(TimesOf(id)) THEN "Finished" ELSE "Vesting"
           key == GetVestingQueueKey(id, u)
           ts == {u}
<1>1. /\ Wrote({key, GetAuctionKey(id)})
      /\ u \in Uint64 /\ Has(key)
      /\ kv'[key] = [auctionId |-> id, releaseTime |-> u, released |-> TRUE]
      /\ kv'[GetAuctionKey(id)] = [GetAuction(id) EXCEPT !.status = status]
  BY ReleaseWrites
<1>2. status \in {"Vesting", "Finished"} OBVIOUS
<1> HIDE DEF status, u
<1>3. ts \in SUBSET Uint64 BY <1>1
<1>4. kv'[key] \in QueueOf(id, u)
  <2>1. [auctionId |-> id, releaseTime |-> u, released |-> TRUE] \in QueueOf(id, u)
    BY QueueIs
  <2> QED BY <1>1, <2>1, Zenon
<1>5. Wrote({GetVestingQueueKey(id, t) : t \in ts} \cup {GetAuctionKey(id)})
  <2>1. {GetVestingQueueKey(id, t) : t \in ts} \cup {GetAuctionKey(id)} =
          {key, GetAuctionKey(id)}
    OBVIOUS
  <2> QED BY <1>1, <2>1
<1>6. \A t \in ts : kv'[GetVestingQueueKey(id, t)] \in QueueOf(id, t)
  BY <1>4 DEF ts
<1> HIDE DEF ts
<1>7. /\ StoreInv'
      /\ \A j \in Uint64 \ {id} : Has(GetAuctionKey(j)) =>
           kv'[GetAuctionKey(j)] = kv[GetAuctionKey(j)]
      /\ \A j, t \in Uint64 :
           /\ Has(GetVestingQueueKey(j, t))' <=>
                Has(GetVestingQueueKey(j, t)) \/ (j = id /\ t \in ts)
           /\ ~(j = id /\ t \in ts) /\ Has(GetVestingQueueKey(j, t)) =>
                kv'[GetVestingQueueKey(j, t)] = kv[GetVestingQueueKey(j, t)]
  BY <1>1, <1>2, <1>3, <1>5, <1>6, QueuesRewritten, ZenonT(40)
<1>8. \A t : t \in ts <=> t = u BY DEF ts
<1>9. \A j, t \in Uint64 :
        /\ Has(GetVestingQueueKey(j, t))' <=> Has(GetVestingQueueKey(j, t))
        /\ ~(j = id /\ t = u) /\ Has(GetVestingQueueKey(j, t)) =>
             kv'[GetVestingQueueKey(j, t)] = kv[GetVestingQueueKey(j, t)]
  BY <1>1, <1>7, <1>8
<1> QED BY <1>7, <1>9 DEF u

LEMMA StoreInvStep == StoreInv /\ [Write]_kv => StoreInv'
<1> SUFFICES ASSUME StoreInv, [Write]_kv PROVE StoreInv' OBVIOUS
<1>1. ASSUME NEW type \in {"FixedPrice", "Batch"},
             NEW status \in {"StandBy", "Started"}, CreateAuction(type, status)
      PROVE  StoreInv'
  BY <1>1, CreateAuctionKeeps
<1>2. ASSUME NEW id \in Ids, NEW status, SetStatus(id, status) PROVE StoreInv'
  BY <1>2, SetStatusKeeps
<1>3. ASSUME NEW id \in Ids, NEW a \in Addresses, NEW max, AllowBidder(id, a, max)
      PROVE  StoreInv'
  BY <1>3, AllowBidderKeeps
<1>4. ASSUME NEW id \in Ids, NEW a \in Addresses, PlaceBid(id, a) PROVE StoreInv'
  BY <1>4, PlaceBidKeeps
<1>5. ASSUME NEW id \in Ids, NEW ks \in SUBSET (1..GetLastBidId(id)),
             MatchBids(id, ks)
      PROVE  StoreInv'
  BY <1>5, MatchBidsKeeps
<1>6. ASSUME NEW id \in Ids, NEW ts \in SUBSET Times, Vest(id, ts) PROVE StoreInv'
  BY <1>6, VestKeeps
<1>7. ASSUME NEW id \in Ids, NEW i \in 1..Len(GetVestingQueuesByAuctionId(id)),
             Release(id, i)
      PROVE  StoreInv'
  BY <1>7, ReleaseKeeps
<1>8. CASE UNCHANGED kv
  BY <1>8 DEF StoreInv, NumbersOk, AuctionsOk, BidsOk, IndexOk, QueuesOk, Ids,
              GetLastAuctionId, GetLastBidId, Number, Has
<1> QED BY <1>1, <1>2, <1>3, <1>4, <1>5, <1>6, <1>7, <1>8 DEF Write

-----------------------------------------------------------------------------
(***************************************************************************)
(* What the keeper relies on.                                              *)
(***************************************************************************)
LEMMA StoreInvFinds == StoreInv => PrefixesAreExact
<1> SUFFICES ASSUME StoreInv PROVE PrefixesAreExact OBVIOUS
<1>1. DOMAIN kv \subseteq Keys BY DEF StoreInv
<1>2. Found(AuctionKeyPrefix) = {GetAuctionKey(id) : id \in Uint64} \cap DOMAIN kv
  BY <1>1, KeysFound DEF Found
<1>3. Found(BidKeyPrefix) = {GetBidKey(id, k) : id, k \in Uint64} \cap DOMAIN kv
  BY <1>1, KeysFound DEF Found
<1>4. Found(VestingQueueKeyPrefix) =
        {GetVestingQueueKey(id, t) : id, t \in Uint64} \cap DOMAIN kv
  BY <1>1, KeysFound DEF Found
<1>5. ASSUME NEW id \in Uint64
      PROVE  /\ Found(GetAllowedBiddersByAuctionKeyPrefix(id)) =
                  {GetAllowedBidderKey(id, a) : a \in Addresses} \cap DOMAIN kv
             /\ Found(GetBidByAuctionIdPrefix(id)) =
                  {GetBidKey(id, k) : k \in Uint64} \cap DOMAIN kv
             /\ Found(GetVestingQueueByAuctionIdPrefix(id)) =
                  {GetVestingQueueKey(id, t) : t \in Uint64} \cap DOMAIN kv
  BY <1>1, KeysFound DEF Found
<1>6. ASSUME NEW a \in Addresses
      PROVE  Found(GetBidIndexByBidderPrefix(a)) =
               {GetBidIndexKey(a, id, k) : id, k \in Uint64} \cap DOMAIN kv
  BY <1>1, KeysFound DEF Found
<1> QED BY <1>1, <1>2, <1>3, <1>4, <1>5, <1>6 DEF PrefixesAreExact

LEMMA StoreInvIndex == StoreInv => IndexIsExact
<1> SUFFICES ASSUME StoreInv PROVE IndexIsExact OBVIOUS
<1>1. ASSUME NEW id \in Uint64, NEW k \in Uint64, Has(GetBidKey(id, k))
      PROVE  Has(GetBidIndexKey(GetBid(id, k).bidder, id, k))
  <2>1. GetBid(id, k) = kv[GetBidKey(id, k)] BY <1>1 DEF GetBid
  <2>2. GetBid(id, k).bidder \in Addresses
    BY <1>1, <2>1 DEF StoreInv, BidsOk, BidOf
  <2> QED BY <1>1, <2>1, <2>2 DEF StoreInv, IndexOk
<1>2. ASSUME NEW a \in Addresses, NEW id \in Uint64, NEW k \in Uint64,
             Has(GetBidIndexKey(a, id, k))
      PROVE  Has(GetBidKey(id, k)) /\ GetBid(id, k).bidder = a
  BY <1>2 DEF StoreInv, IndexOk, GetBid
<1> QED BY <1>1, <1>2, IndexGivesBack DEF IndexIsExact

-----------------------------------------------------------------------------
(***************************************************************************)
(* Records, field by field.                                                *)
(***************************************************************************)
RecordsOf(auctions, allowed, bids, lens, queues) ==
  [auctions |-> auctions, allowed |-> allowed, bids |-> bids,
   matchedBidsLen |-> lens, queues |-> queues]

LEMMA FieldsOfRecords ==
  ASSUME NEW A, NEW B, NEW C, NEW D, NEW E
  PROVE  LET r == RecordsOf(A, B, C, D, E)
         IN  /\ r.auctions = A /\ r.allowed = B /\ r.bids = C
             /\ r.matchedBidsLen = D /\ r.queues = E
BY DEF RecordsOf

LEMMA CardinalityInR == ASSUME NEW S PROVE R!Cardinality(S) = Cardinality(S)
BY DEF R!Cardinality, Cardinality

\* What Append makes of a function on 1..n.
LEMMA AppendIs ==
  ASSUME NEW n \in Nat, NEW s, s = [i \in 1..n |-> s[i]], NEW x
  PROVE  /\ Len(s) = n
         /\ Append(s, x) = [i \in 1..(n + 1) |-> IF i = n + 1 THEN x ELSE s[i]]
<1> DEFINE S == {s[i] : i \in 1..n} \cup {x}
           t == [i \in 1..(n + 1) |-> IF i = n + 1 THEN x ELSE s[i]]
<1>1. s \in Seq(S)
  <2>1. \A i \in 1..n : s[i] \in S OBVIOUS
  <2> HIDE DEF S
  <2>2. s \in [1..n -> S] BY <2>1
  <2> QED BY <2>2
<1>2. x \in S OBVIOUS
<1>3. Len(s) = n BY <1>1
<1> HIDE DEF S
<1>4. /\ Append(s, x) \in Seq(S) /\ Len(Append(s, x)) = n + 1
      /\ \A i \in 1..n : Append(s, x)[i] = s[i]
      /\ Append(s, x)[n + 1] = x
  BY <1>1, <1>2, <1>3, AppendProperties
<1>5. Append(s, x) = [i \in 1..(n + 1) |-> Append(s, x)[i]] BY <1>4
<1>6. \A i \in 1..(n + 1) : Append(s, x)[i] = IF i = n + 1 THEN x ELSE s[i]
  BY <1>4
<1> DEFINE a == Append(s, x)
<1> HIDE DEF a
<1>7. a = t BY <1>5, <1>6 DEF a
<1> QED BY <1>3, <1>7 DEF a

\* The choice of Vest: the i-th element of ts is the one with i - 1 smaller ones.
LEMMA NthInR ==
  ASSUME NEW ts \in SUBSET Nat, IsFiniteSet(ts), NEW i \in 1..Cardinality(ts)
  PROVE  (CHOOSE t \in ts : Cardinality({u \in ts : u < t}) = i - 1) = Nth(ts, i)
<1> DEFINE below(t) == {u \in ts : u < t}
           nth == CHOOSE t \in ts : Cardinality(below(t)) = i - 1
<1>1. ASSUME NEW t \in ts
      PROVE  Cardinality(below(t)) \in Nat /\ Rank(ts, t) = Cardinality(below(t)) + 1
  <2>1. below(t) \in SUBSET ts /\ t \notin below(t) OBVIOUS
  <2>2. {u \in ts : u <= t} = below(t) \cup {t}
    <3>1. \A u \in ts : u <= t <=> u < t \/ u = t
      <4> SUFFICES ASSUME NEW u \in ts PROVE u <= t <=> u < t \/ u = t OBVIOUS
      <4>1. u \in Nat /\ t \in Nat OBVIOUS
      <4> QED BY <4>1
    <3> QED BY <3>1
  <2> HIDE DEF below
  <2>3. IsFiniteSet(below(t)) BY <2>1, FS_Subset
  <2>4. Cardinality(below(t) \cup {t}) = Cardinality(below(t)) + 1
    BY <2>1, <2>3, FS_AddElement
  <2>5. Cardinality(below(t)) \in Nat BY <2>3, FS_CardinalityType
  <2> QED BY <2>2, <2>4, <2>5 DEF Rank
<1>2. Cardinality(ts) \in Nat BY FS_CardinalityType
<1>3. Nth(ts, i) \in ts /\ Rank(ts, Nth(ts, i)) = i BY NthHasItsRank
<1> HIDE DEF below
<1>4. Cardinality(below(Nth(ts, i))) = i - 1
  <2> DEFINE m == Nth(ts, i)
             c == Cardinality(below(m))
  <2>1. m \in ts /\ Rank(ts, m) = i BY <1>3
  <2> HIDE DEF m
  <2>2. c \in Nat /\ Rank(ts, m) = c + 1 BY <1>1, <2>1
  <2> HIDE DEF c
  <2>3. c = i - 1 BY <2>1, <2>2
  <2> QED BY <2>3 DEF c, m
<1>5. nth \in ts /\ Cardinality(below(nth)) = i - 1 BY <1>3, <1>4
<1> HIDE DEF nth
<1>6. Rank(ts, nth) = i BY <1>1, <1>2, <1>5
<1>7. nth = Nth(ts, i) BY <1>3, <1>5, <1>6, NthHasItsRank
<1> QED BY <1>7 DEF nth, below

-----------------------------------------------------------------------------
(***************************************************************************)
(* The records of the store.                                               *)
(***************************************************************************)
Allowed == [id \in AuctionIds |-> [a \in Addresses |-> MaxBidAmountOf(id, a)]]
Bids == [id \in AuctionIds |-> GetBidsByAuctionId(id)]
MatchedBidsLen == [id \in AuctionIds |-> GetLastMatchedBidsLen(id)]
Queues == [id \in AuctionIds |-> GetVestingQueuesByAuctionId(id)]

RecordsInStore == RecordsOf(GetAuctions, Allowed, Bids, MatchedBidsLen, Queues)

LEMMA FieldsNow ==
  LET r == RecordsInStore
  IN  /\ r = RecordsOf(GetAuctions, Allowed, Bids, MatchedBidsLen, Queues)
      /\ r.auctions = GetAuctions /\ r.allowed = Allowed /\ r.bids = Bids
      /\ r.matchedBidsLen = MatchedBidsLen /\ r.queues = Queues
BY DEF RecordsInStore, RecordsOf

\* The lists, by the keys of their records.
Listed ==
  /\ GetAuctions = [i \in 1..GetLastAuctionId |-> kv[GetAuctionKey(i)]]
  /\ \A id \in Uint64 :
       /\ GetBidsByAuctionId(id) =
            [k \in 1..GetLastBidId(id) |-> kv[GetBidKey(id, k)]]
       /\ GetVestingQueuesByAuctionId(id) =
            [i \in 1..Cardinality(TimesOf(id)) |->
               kv[GetVestingQueueKey(id, Nth(TimesOf(id), i))]]

LEMMA ListsNow == StoreInv => Listed
<1> SUFFICES ASSUME StoreInv PROVE Listed OBVIOUS
<1>1. ASSUME NEW id \in Uint64
      PROVE  /\ GetBidsByAuctionId(id) =
                  [k \in 1..GetLastBidId(id) |-> kv[GetBidKey(id, k)]]
             /\ GetVestingQueuesByAuctionId(id) =
                  [i \in 1..Cardinality(TimesOf(id)) |->
                     kv[GetVestingQueueKey(id, Nth(TimesOf(id), i))]]
  BY BidList, QueueList
<1> QED BY <1>1, AuctionList DEF Listed

LEMMA ListsNext == StoreInv' => Listed'
BY ListsNow, PTL

LEMMA TimesNow ==
  ASSUME StoreInv, NEW id \in Uint64
  PROVE  /\ TimesOf(id) \in SUBSET Nat /\ IsFiniteSet(TimesOf(id))
         /\ Cardinality(TimesOf(id)) \in Nat
         /\ \A i \in 1..Cardinality(TimesOf(id)) :
              /\ Nth(TimesOf(id), i) \in Uint64
              /\ Has(GetVestingQueueKey(id, Nth(TimesOf(id), i)))
<1> DEFINE T == TimesOf(id)
<1>1. T \in SUBSET Nat /\ IsFiniteSet(T) BY QueueList
<1>2. \A t \in T : t \in Uint64 /\ Has(GetVestingQueueKey(id, t)) BY DEF TimesOf
<1> HIDE DEF T
<1>3. Cardinality(T) \in Nat BY <1>1, FS_CardinalityType
<1>4. \A i \in 1..Cardinality(T) : Nth(T, i) \in T BY <1>1, NthHasItsRank
<1> QED BY <1>1, <1>2, <1>3, <1>4 DEF T

LEMMA BidListKept ==
  ASSUME StoreInv, StoreInv', NEW id \in Uint64, GetLastBidId(id)' = GetLastBidId(id),
         \A k \in 1..GetLastBidId(id) : kv'[GetBidKey(id, k)] = kv[GetBidKey(id, k)]
  PROVE  GetBidsByAuctionId(id)' = GetBidsByAuctionId(id)
<1>1. GetBidsByAuctionId(id) = [k \in 1..GetLastBidId(id) |-> kv[GetBidKey(id, k)]]
  BY ListsNow DEF Listed
<1>2. GetBidsByAuctionId(id)' =
        [k \in 1..GetLastBidId(id)' |-> kv'[GetBidKey(id, k)]]
  BY ListsNext DEF Listed
<1> QED BY <1>1, <1>2

LEMMA QueueListKept ==
  ASSUME StoreInv, StoreInv', NEW id \in Uint64,
         \A t \in Uint64 : /\ Has(GetVestingQueueKey(id, t))' <=>
                                Has(GetVestingQueueKey(id, t))
                           /\ Has(GetVestingQueueKey(id, t)) =>
                                kv'[GetVestingQueueKey(id, t)] =
                                  kv[GetVestingQueueKey(id, t)]
  PROVE  GetVestingQueuesByAuctionId(id)' = GetVestingQueuesByAuctionId(id)
<1>1. TimesOf(id)' = TimesOf(id) BY DEF TimesOf
<1>2. \A i \in 1..Cardinality(TimesOf(id)) :
        LET t == Nth(TimesOf(id), i)
        IN  kv'[GetVestingQueueKey(id, t)] = kv[GetVestingQueueKey(id, t)]
  BY TimesNow
<1>3. GetVestingQueuesByAuctionId(id) =
        [i \in 1..Cardinality(TimesOf(id)) |->
           kv[GetVestingQueueKey(id, Nth(TimesOf(id), i))]]
  BY ListsNow DEF Listed
<1>4. GetVestingQueuesByAuctionId(id)' =
        [i \in 1..Cardinality(TimesOf(id)') |->
           kv'[GetVestingQueueKey(id, Nth(TimesOf(id)', i))]]
  BY ListsNext DEF Listed
<1> QED BY <1>1, <1>2, <1>3, <1>4

LEMMA FieldsKept ==
  ASSUME StoreInv, StoreInv'
  PROVE  /\ Same(17) /\ Same(33) => GetAuctions' = GetAuctions
         /\ Same(34) => Allowed' = Allowed
         /\ Same(18) /\ Same(49) => Bids' = Bids
         /\ Same(51) => MatchedBidsLen' = MatchedBidsLen
         /\ Same(65) => Queues' = Queues
<1>1. AuctionIds \subseteq Uint64 /\ AuctionIds' = AuctionIds
  BY IdsInUse DEF StoreInv, AuctionIds
<1>2. ASSUME Same(17), Same(33) PROVE GetAuctions' = GetAuctions
  <2>1. GetLastAuctionId' = GetLastAuctionId BY <1>2, SameRecords
  <2>2. ASSUME NEW i \in 1..GetLastAuctionId
        PROVE  kv'[GetAuctionKey(i)] = kv[GetAuctionKey(i)]
    <3>1. i \in Uint64 /\ Has(GetAuctionKey(i)) BY AuctionInUse DEF Ids
    <3> QED BY <1>2, <3>1, SameRecords
  <2>3. GetAuctions = [i \in 1..GetLastAuctionId |-> kv[GetAuctionKey(i)]]
    BY ListsNow DEF Listed
  <2>4. GetAuctions' = [i \in 1..GetLastAuctionId' |-> kv'[GetAuctionKey(i)]]
    BY ListsNext DEF Listed
  <2> QED BY <2>1, <2>2, <2>3, <2>4
<1>3. ASSUME Same(34) PROVE Allowed' = Allowed
  BY <1>1, <1>3, SameRecords DEF Allowed
<1>4. ASSUME Same(18), Same(49) PROVE Bids' = Bids
  <2>1. ASSUME NEW id \in Uint64
        PROVE  GetBidsByAuctionId(id)' = GetBidsByAuctionId(id)
    <3>1. GetLastBidId(id)' = GetLastBidId(id) BY <1>4, SameRecords
    <3>2. ASSUME NEW k \in 1..GetLastBidId(id)
          PROVE  kv'[GetBidKey(id, k)] = kv[GetBidKey(id, k)]
      <4>1. k \in Uint64 BY IdsInUse DEF StoreInv
      <4>2. Has(GetBidKey(id, k)) BY <4>1 DEF StoreInv, BidsOk
      <4> QED BY <1>4, <4>1, <4>2, SameRecords
    <3> QED BY <3>1, <3>2, BidListKept
  <2> QED BY <1>1, <2>1 DEF Bids
<1>5. ASSUME Same(51) PROVE MatchedBidsLen' = MatchedBidsLen
  BY <1>1, <1>5, SameRecords DEF MatchedBidsLen
<1>6. ASSUME Same(65) PROVE Queues' = Queues
  <2>1. ASSUME NEW id \in Uint64
        PROVE  GetVestingQueuesByAuctionId(id)' = GetVestingQueuesByAuctionId(id)
    BY <1>6, SameRecords, QueueListKept
  <2> QED BY <1>1, <2>1 DEF Queues
<1> QED BY <1>2, <1>3, <1>4, <1>5, <1>6

-----------------------------------------------------------------------------
(***************************************************************************)
(* Every handler is an operation of the records.                           *)
(***************************************************************************)
LEMMA RecordsNext ==
  ASSUME NEW A, NEW B, NEW C, NEW D, NEW E, GetAuctions' = A, Allowed' = B,
         Bids' = C, MatchedBidsLen' = D, Queues' = E
  PROVE  RecordsInStore' = RecordsOf(A, B, C, D, E)
BY DEF RecordsInStore, RecordsOf

LEMMA CreateAuctionInRecords ==
  ASSUME StoreInv, StoreInv', NEW type, NEW status, CreateAuction(type, status)
  PROVE  RecordsInStore' = R!CreateAuction(RecordsInStore, type, status)
<1> DEFINE n == GetLastAuctionId
           auction == [id |-> n + 1, type |-> type, status |-> status]
           A == GetAuctions
<1>1. /\ SameBut({17, 33}) /\ n + 1 \in AuctionIds
      /\ Wrote({LastAuctionIdKey, GetAuctionKey(n + 1)})
      /\ GetLastAuctionId' = n + 1 /\ kv'[GetAuctionKey(n + 1)] = auction
  BY CreateAuctionWrites
<1>2. /\ Allowed' = Allowed /\ Bids' = Bids /\ MatchedBidsLen' = MatchedBidsLen
      /\ Queues' = Queues
  BY <1>1, FieldsKept DEF SameBut
<1>3. n \in Nat /\ n + 1 \in Uint64 /\ 1..n \subseteq Uint64
  BY <1>1, IdsInUse DEF StoreInv, Ids
<1>4. A = [i \in 1..n |-> kv[GetAuctionKey(i)]] BY ListsNow DEF Listed
<1>5. GetAuctions' = [i \in 1..(n + 1) |-> kv'[GetAuctionKey(i)]]
  BY <1>1, ListsNext DEF Listed
<1>6. ASSUME NEW i \in 1..n PROVE kv'[GetAuctionKey(i)] = A[i]
  <2>1. i \in Uint64 /\ Has(GetAuctionKey(i)) BY AuctionInUse DEF Ids
  <2>2. GetAuctionKey(i) # GetAuctionKey(n + 1)
    BY <1>3, <2>1, KeysDiffer
  <2>3. GetAuctionKey(i) # LastAuctionIdKey
    <3>1. /\ StartsWith(GetAuctionKey(i), 33) /\ StartsWith(LastAuctionIdKey, 17)
          /\ 17 # 33
      BY <2>1, FirstBytes
    <3> QED BY <3>1, OneKind
  <2> QED BY <1>1, <1>4, <2>1, <2>2, <2>3 DEF Wrote, Has
<1> HIDE DEF n, A, auction
<1>7. A = [i \in 1..n |-> A[i]] BY <1>4
<1>8. Len(A) = n /\ Append(A, auction) =
        [i \in 1..(n + 1) |-> IF i = n + 1 THEN auction ELSE A[i]]
  BY <1>3, <1>7, AppendIs
<1>9. GetAuctions' = Append(A, auction)
  <2>1. ASSUME NEW i \in 1..(n + 1)
        PROVE  kv'[GetAuctionKey(i)] = IF i = n + 1 THEN auction ELSE A[i]
    BY <1>1, <1>3, <1>6
  <2> QED BY <1>5, <1>8, <2>1
<1>10. RecordsInStore' =
         RecordsOf(Append(A, auction), Allowed, Bids, MatchedBidsLen, Queues)
  BY <1>2, <1>9, RecordsNext
<1>11. auction = [id |-> Len(A) + 1, type |-> type, status |-> status]
  BY <1>8 DEF auction
<1>12. R!CreateAuction(RecordsInStore, type, status) =
         RecordsOf(Append(A, [id |-> Len(A) + 1, type |-> type, status |-> status]),
                   Allowed, Bids, MatchedBidsLen, Queues)
  <2> DEFINE x == Append(A, [id |-> Len(A) + 1, type |-> type, status |-> status])
  <2>1. R!CreateAuction(RecordsInStore, type, status) =
          [RecordsInStore EXCEPT !.auctions = x]
    BY FieldsNow DEF R!CreateAuction, A
  <2> HIDE DEF x
  <2>2. [RecordsInStore EXCEPT !.auctions = x] =
          RecordsOf(x, Allowed, Bids, MatchedBidsLen, Queues)
    BY FieldsNow DEF RecordsOf
  <2> QED BY <2>1, <2>2 DEF x
<1> QED BY <1>10, <1>11, <1>12

\* The auction id is rewritten.
LEMMA AuctionsWithout ==
  ASSUME StoreInv, StoreInv', NEW id \in Ids, Same(17), NEW status,
         kv'[GetAuctionKey(id)] = [GetAuction(id) EXCEPT !.status = status],
         \A j \in Uint64 \ {id} : Has(GetAuctionKey(j)) =>
           kv'[GetAuctionKey(j)] = kv[GetAuctionKey(j)]
  PROVE  GetAuctions' = [GetAuctions EXCEPT ![id].status = status]
<1> DEFINE n == GetLastAuctionId
<1>1. GetAuctions = [i \in 1..n |-> kv[GetAuctionKey(i)]] BY ListsNow DEF Listed
<1>2. GetAuctions' = [i \in 1..n |-> kv'[GetAuctionKey(i)]]
  BY ListsNext, SameRecords DEF Listed
<1>3. id \in 1..n /\ GetAuctions[id] = GetAuction(id)
  BY <1>1 DEF Ids, GetAuction
<1>4. ASSUME NEW i \in 1..n, i # id
      PROVE  kv'[GetAuctionKey(i)] = GetAuctions[i]
  <2>1. i \in Uint64 /\ Has(GetAuctionKey(i)) BY AuctionInUse DEF Ids
  <2> QED BY <1>1, <1>4, <2>1
<1> HIDE DEF n
<1> QED BY <1>1, <1>2, <1>3, <1>4

LEMMA SetStatusInRecords ==
  ASSUME StoreInv, StoreInv', NEW id \in Ids, NEW status, SetStatus(id, status)
  PROVE  RecordsInStore' = R!SetStatus(RecordsInStore, id, status)
<1>1. /\ SameBut({33}) /\ Wrote({GetAuctionKey(id)})
      /\ kv'[GetAuctionKey(id)] = [GetAuction(id) EXCEPT !.status = status]
  BY SetStatusWrites
<1>2. /\ Allowed' = Allowed /\ Bids' = Bids /\ MatchedBidsLen' = MatchedBidsLen
      /\ Queues' = Queues
  BY <1>1, FieldsKept DEF SameBut
<1>3. \A j \in Uint64 \ {id} : Has(GetAuctionKey(j)) =>
        kv'[GetAuctionKey(j)] = kv[GetAuctionKey(j)]
  BY <1>1, AuctionInUse, KeysDiffer DEF Wrote, Has
<1>4. GetAuctions' = [GetAuctions EXCEPT ![id].status = status]
  <2>1. Same(17) BY <1>1 DEF SameBut
  <2> QED BY <1>1, <1>3, <2>1, AuctionsWithout
<1>5. RecordsInStore' = RecordsOf([GetAuctions EXCEPT ![id].status = status],
                                  Allowed, Bids, MatchedBidsLen, Queues)
  BY <1>2, <1>4, RecordsNext
<1>6. R!SetStatus(RecordsInStore, id, status) =
        RecordsOf([GetAuctions EXCEPT ![id].status = status],
                  Allowed, Bids, MatchedBidsLen, Queues)
  BY FieldsNow DEF R!SetStatus, RecordsOf
<1> QED BY <1>5, <1>6

LEMMA AllowBidderInRecords ==
  ASSUME StoreInv, StoreInv', NEW id \in Ids, NEW a \in Addresses, NEW max,
         AllowBidder(id, a, max)
  PROVE  RecordsInStore' = R!AllowBidder(RecordsInStore, id, a, max)
<1> DEFINE key == GetAllowedBidderKey(id, a)
           B == [Allowed EXCEPT ![id][a] = max]
<1>1. SameBut({34}) /\ Wrote({key}) /\ kv'[key].maxBidAmount = max
  <2> DEFINE entry == [bidder |-> a, maxBidAmount |-> max]
  <2>1. entry.maxBidAmount = max OBVIOUS
  <2> HIDE DEF entry
  <2>2. SameBut({34}) /\ Wrote({key}) /\ kv'[key] = entry
    BY AllowBidderWrites DEF entry
  <2> QED BY <2>1, <2>2
<1>2. /\ GetAuctions' = GetAuctions /\ Bids' = Bids
      /\ MatchedBidsLen' = MatchedBidsLen /\ Queues' = Queues
  BY <1>1, FieldsKept DEF SameBut
<1>3. id \in AuctionIds /\ AuctionIds \subseteq Uint64
  BY AuctionInUse, IdsInUse DEF StoreInv
<1>4. ASSUME NEW j \in AuctionIds, NEW b \in Addresses
      PROVE  MaxBidAmountOf(j, b)' =
               IF j = id /\ b = a THEN max ELSE MaxBidAmountOf(j, b)
  <2>1. CASE j = id /\ b = a BY <1>1, <2>1 DEF MaxBidAmountOf, Wrote, Has
  <2>2. CASE ~(j = id /\ b = a)
    <3>1. GetAllowedBidderKey(j, b) # key BY <1>3, <2>2, KeysDiffer
    <3> HIDE DEF key
    <3> QED BY <1>1, <2>2, <3>1 DEF MaxBidAmountOf, Wrote, Has
  <2> QED BY <2>1, <2>2
<1>5. Allowed' = B
  <2>1. Allowed' = [j \in AuctionIds |-> [b \in Addresses |-> MaxBidAmountOf(j, b)']]
    BY DEF Allowed, AuctionIds
  <2>2. Allowed' = [j \in AuctionIds |->
          [b \in Addresses |->
             IF j = id /\ b = a THEN max ELSE MaxBidAmountOf(j, b)]]
    BY <1>4, <2>1
  <2>3. Allowed = [j \in AuctionIds |-> [b \in Addresses |-> MaxBidAmountOf(j, b)]]
    BY DEF Allowed
  <2> QED BY <1>3, <2>2, <2>3
<1> HIDE DEF B
<1>6. RecordsInStore' = RecordsOf(GetAuctions, B, Bids, MatchedBidsLen, Queues)
  BY <1>2, <1>5, RecordsNext
<1>7. R!AllowBidder(RecordsInStore, id, a, max) =
        RecordsOf(GetAuctions, B, Bids, MatchedBidsLen, Queues)
  BY FieldsNow DEF R!AllowBidder, RecordsOf, B
<1> QED BY <1>6, <1>7

LEMMA PlaceBidInRecords ==
  ASSUME StoreInv, StoreInv', NEW id \in Ids, NEW a \in Addresses, PlaceBid(id, a)
  PROVE  RecordsInStore' = R!PlaceBid(RecordsInStore, id, a)
<1> DEFINE n == GetLastBidId(id)
           bs == GetBidsByAuctionId(id)
           fixed == GetAuction(id).type = "FixedPrice"
           bid == [auctionId |-> id, id |-> n + 1, bidder |-> a, isMatched |-> fixed]
           C == [Bids EXCEPT ![id] = Append(bs, bid)]
<1>1. /\ SameBut({18, 49, 50})
      /\ GetLastBidId(id)' = n + 1 /\ kv'[GetBidKey(id, n + 1)] = bid
  BY PlaceBidWrites
<1>2. /\ \A j \in Uint64 \ {id} : GetLastBidId(j)' = GetLastBidId(j)
      /\ \A j, i \in Uint64 :
           ~(j = id /\ i = n + 1) /\ Has(GetBidKey(j, i)) =>
             kv'[GetBidKey(j, i)] = kv[GetBidKey(j, i)]
  BY PlaceBidKeeps
<1>3. /\ GetAuctions' = GetAuctions /\ Allowed' = Allowed
      /\ MatchedBidsLen' = MatchedBidsLen /\ Queues' = Queues
  BY <1>1, FieldsKept DEF SameBut
<1>4. /\ id \in Uint64 /\ id \in AuctionIds /\ AuctionIds \subseteq Uint64
      /\ n \in Nat
      /\ \A j \in Uint64 : 1..GetLastBidId(j) \subseteq Uint64
  BY AuctionInUse, IdsInUse DEF StoreInv
<1>5. \A j \in Uint64 : \A i \in 1..GetLastBidId(j) :
        i \in Uint64 /\ Has(GetBidKey(j, i))
  BY <1>4 DEF StoreInv, BidsOk
<1>6. ASSUME NEW j \in AuctionIds, j # id
      PROVE  GetBidsByAuctionId(j)' = GetBidsByAuctionId(j)
  BY <1>2, <1>4, <1>5, <1>6, BidListKept
<1>7. GetBidsByAuctionId(id)' = Append(bs, bid)
  <2>1. bs = [i \in 1..n |-> kv[GetBidKey(id, i)]] BY <1>4, ListsNow DEF Listed
  <2>2. GetBidsByAuctionId(id)' = [i \in 1..(n + 1) |-> kv'[GetBidKey(id, i)]]
    BY <1>1, <1>4, ListsNext DEF Listed
  <2> HIDE DEF bid
  <2>3. ASSUME NEW i \in 1..(n + 1)
        PROVE  kv'[GetBidKey(id, i)] = IF i = n + 1 THEN bid ELSE bs[i]
    <3>1. CASE i = n + 1 BY <1>1, <3>1
    <3>2. CASE i # n + 1
      <4>1. i \in 1..n BY <1>4, <3>2
      <4> QED BY <1>2, <1>4, <1>5, <2>1, <3>2, <4>1
    <3> QED BY <3>1, <3>2
  <2> HIDE DEF bs, n
  <2>4. bs = [i \in 1..n |-> bs[i]] BY <2>1
  <2>5. Append(bs, bid) = [i \in 1..(n + 1) |-> IF i = n + 1 THEN bid ELSE bs[i]]
    BY <1>4, <2>4, AppendIs
  <2> QED BY <2>2, <2>3, <2>5
<1>8. Bids[id] = bs /\ Len(bs) = n
  <2>1. bs = [i \in 1..n |-> kv[GetBidKey(id, i)]] BY <1>4, ListsNow DEF Listed
  <2> HIDE DEF n
  <2>2. Len(bs) = n BY <1>4, <2>1
  <2> QED BY <1>4, <2>2 DEF Bids
<1> HIDE DEF bs, bid, n
<1>9. Bids' = C
  <2>1. Bids' = [j \in AuctionIds |-> GetBidsByAuctionId(j)'] BY DEF Bids, AuctionIds
  <2>2. Bids = [j \in AuctionIds |-> GetBidsByAuctionId(j)] BY DEF Bids
  <2> QED BY <1>4, <1>6, <1>7, <2>1, <2>2
<1> HIDE DEF C
<1>10. RecordsInStore' = RecordsOf(GetAuctions, Allowed, C, MatchedBidsLen, Queues)
  BY <1>3, <1>9, RecordsNext
<1>11. R!PlaceBid(RecordsInStore, id, a) =
         RecordsOf(GetAuctions, Allowed, C, MatchedBidsLen, Queues)
  <2> DEFINE x == Append(bs, bid)
  <2>1. R!PlaceBid(RecordsInStore, id, a) = [RecordsInStore EXCEPT !.bids[id] = x]
    <3>1. (RecordsInStore.auctions[id].type = "FixedPrice") = fixed
      <4>1. RecordsInStore.auctions[id] = GetAuction(id)
        BY FieldsNow, ListsNow DEF Listed, Ids, GetAuction
      <4> QED BY <4>1
    <3> QED BY <1>8, <3>1, FieldsNow DEF R!PlaceBid, bid
  <2> HIDE DEF x
  <2>2. [RecordsInStore EXCEPT !.bids[id] = x] =
          RecordsOf(GetAuctions, Allowed, [Bids EXCEPT ![id] = x],
                    MatchedBidsLen, Queues)
    BY FieldsNow DEF RecordsOf
  <2> QED BY <2>1, <2>2 DEF x, C
<1> QED BY <1>10, <1>11

LEMMA MatchBidsInRecords ==
  ASSUME StoreInv, StoreInv', NEW id \in Ids,
         NEW ks \in SUBSET (1..GetLastBidId(id)), MatchBids(id, ks)
  PROVE  RecordsInStore' = R!MatchBids(RecordsInStore, id, ks)
<1> DEFINE n == GetLastBidId(id)
           bs == GetBidsByAuctionId(id)
           x == [k \in DOMAIN bs |->
                   IF k \in ks THEN [bs[k] EXCEPT !.isMatched = TRUE] ELSE bs[k]]
           y == Cardinality(ks)
           C == [Bids EXCEPT ![id] = x]
           D == [MatchedBidsLen EXCEPT ![id] = y]
<1>1. /\ SameBut({49, 50, 51}) /\ GetLastMatchedBidsLen(id)' = y
      /\ \A j \in Uint64 \ {id} :
           GetLastMatchedBidsLen(j)' = GetLastMatchedBidsLen(j)
      /\ BidsMarked(id, ks)
  BY MatchBidsWrites
<1>2. GetAuctions' = GetAuctions /\ Allowed' = Allowed /\ Queues' = Queues
  BY <1>1, FieldsKept DEF SameBut
<1>3. \A j \in Uint64 : GetLastBidId(j)' = GetLastBidId(j)
  BY <1>1, SameRecords DEF SameBut
<1>4. /\ id \in Uint64 /\ id \in AuctionIds /\ AuctionIds \subseteq Uint64
      /\ n \in Nat
      /\ \A j \in Uint64 : 1..GetLastBidId(j) \subseteq Uint64
  BY AuctionInUse, IdsInUse DEF StoreInv
<1>5. \A j \in Uint64 : \A i \in 1..GetLastBidId(j) :
        i \in Uint64 /\ Has(GetBidKey(j, i))
  BY <1>4 DEF StoreInv, BidsOk
<1>6. ASSUME NEW j \in AuctionIds, j # id
      PROVE  GetBidsByAuctionId(j)' = GetBidsByAuctionId(j)
  <2>1. \A i \in 1..GetLastBidId(j) : kv'[GetBidKey(j, i)] = kv[GetBidKey(j, i)]
    BY <1>1, <1>4, <1>5, <1>6 DEF BidsMarked
  <2> QED BY <1>3, <1>4, <2>1, BidListKept
<1>7. GetBidsByAuctionId(id)' = x
  <2>1. bs = [i \in 1..n |-> kv[GetBidKey(id, i)]] BY <1>4, ListsNow DEF Listed
  <2>2. GetBidsByAuctionId(id)' = [i \in 1..n |-> kv'[GetBidKey(id, i)]]
    BY <1>3, <1>4, ListsNext DEF Listed
  <2>3. ASSUME NEW i \in 1..n
        PROVE  kv'[GetBidKey(id, i)] =
                 IF i \in ks THEN [bs[i] EXCEPT !.isMatched = TRUE] ELSE bs[i]
    <3>1. bs[i] = kv[GetBidKey(id, i)] BY <2>1
    <3>2. i \in Uint64 /\ Has(GetBidKey(id, i)) BY <1>4, <1>5
    <3>3. kv'[GetBidKey(id, i)] =
            IF id = id /\ i \in ks
              THEN [kv[GetBidKey(id, i)] EXCEPT !.isMatched = TRUE]
              ELSE kv[GetBidKey(id, i)]
      BY <1>1, <1>4, <3>2, Zenon DEF BidsMarked
    <3> QED BY <3>1, <3>3, Zenon
  <2>4. DOMAIN bs = 1..n BY <2>1
  <2> HIDE DEF bs, n
  <2> QED BY <2>2, <2>3, <2>4
<1>8. Bids[id] = bs BY <1>4 DEF Bids
<1> HIDE DEF x, y, bs, n
<1>9. Bids' = C
  <2>1. Bids' = [j \in AuctionIds |-> GetBidsByAuctionId(j)'] BY DEF Bids, AuctionIds
  <2>2. Bids = [j \in AuctionIds |-> GetBidsByAuctionId(j)] BY DEF Bids
  <2> QED BY <1>4, <1>6, <1>7, <2>1, <2>2
<1>10. MatchedBidsLen' = D
  <2>1. MatchedBidsLen' = [j \in AuctionIds |-> GetLastMatchedBidsLen(j)']
    BY DEF MatchedBidsLen, AuctionIds
  <2>2. MatchedBidsLen = [j \in AuctionIds |-> GetLastMatchedBidsLen(j)]
    BY DEF MatchedBidsLen
  <2> QED BY <1>1, <1>4, <2>1, <2>2
<1>11. RecordsInStore' = RecordsOf(GetAuctions, Allowed, C, D, Queues)
  BY <1>2, <1>9, <1>10, RecordsNext
<1>12. R!MatchBids(RecordsInStore, id, ks) =
         RecordsOf(GetAuctions, Allowed, C, D, Queues)
  <2> DEFINE s == [RecordsInStore EXCEPT !.bids[id] = x]
  <2>1. R!MatchBids(RecordsInStore, id, ks) = [s EXCEPT !.matchedBidsLen[id] = y]
    BY <1>8, FieldsNow, CardinalityInR DEF R!MatchBids, x, y
  <2>2. s = RecordsOf(GetAuctions, Allowed, C, MatchedBidsLen, Queues)
    BY FieldsNow DEF RecordsOf
  <2> HIDE DEF s, C
  <2>3. [s EXCEPT !.matchedBidsLen[id] = y] =
          RecordsOf(GetAuctions, Allowed, C, D, Queues)
    BY <2>2 DEF RecordsOf
  <2> QED BY <2>1, <2>3
<1> QED BY <1>11, <1>12

LEMMA VestInRecords ==
  ASSUME StoreInv, StoreInv', NEW id \in Ids, NEW ts \in SUBSET Times, Vest(id, ts)
  PROVE  RecordsInStore' = R!Vest(RecordsInStore, id, ts)
<1> DEFINE A == [GetAuctions EXCEPT ![id].status = "Vesting"]
           x == [i \in 1..Cardinality(ts) |->
                   [auctionId |-> id, releaseTime |-> Nth(ts, i),
                    released |-> FALSE]]
           E == [Queues EXCEPT ![id] = x]
<1>1. /\ SameBut({33, 65}) /\ GetAuction(id).status = "Started"
      /\ kv'[GetAuctionKey(id)] = [GetAuction(id) EXCEPT !.status = "Vesting"]
      /\ \A t \in ts : kv'[GetVestingQueueKey(id, t)] =
           [auctionId |-> id, releaseTime |-> t, released |-> FALSE]
  BY VestWrites
<1>2. /\ \A j \in Uint64 \ {id} : Has(GetAuctionKey(j)) =>
           kv'[GetAuctionKey(j)] = kv[GetAuctionKey(j)]
      /\ \A j, t \in Uint64 :
           /\ Has(GetVestingQueueKey(j, t))' <=>
                Has(GetVestingQueueKey(j, t)) \/ (j = id /\ t \in ts)
           /\ ~(j = id /\ t \in ts) /\ Has(GetVestingQueueKey(j, t)) =>
                kv'[GetVestingQueueKey(j, t)] = kv[GetVestingQueueKey(j, t)]
  BY VestKeeps
<1>3. Same(17) /\ Allowed' = Allowed /\ Bids' = Bids
      /\ MatchedBidsLen' = MatchedBidsLen
  BY <1>1, FieldsKept DEF SameBut
<1>4. /\ id \in Uint64 /\ id \in AuctionIds /\ AuctionIds \subseteq Uint64
      /\ ts \in SUBSET Uint64 /\ Uint64 \in SUBSET Nat /\ IsFiniteSet(Uint64)
  BY AuctionInUse, IdsInUse DEF StoreInv
<1>5. ts \in SUBSET Nat /\ IsFiniteSet(ts) BY <1>4, FS_Subset
<1>6. GetAuctions' = A BY <1>1, <1>2, <1>3, AuctionsWithout
<1>7. ASSUME NEW j \in AuctionIds, j # id
      PROVE  GetVestingQueuesByAuctionId(j)' = GetVestingQueuesByAuctionId(j)
  BY <1>2, <1>4, <1>7, QueueListKept
<1>8. GetVestingQueuesByAuctionId(id)' = x
  <2>1. \A t \in Uint64 : ~Has(GetVestingQueueKey(id, t))
    BY <1>1, <1>4 DEF StoreInv, QueuesOk, GetAuction
  <2>2. TimesOf(id)' = ts BY <1>2, <1>4, <2>1 DEF TimesOf
  <2>3. GetVestingQueuesByAuctionId(id)' =
          [i \in 1..Cardinality(TimesOf(id)') |->
             kv'[GetVestingQueueKey(id, Nth(TimesOf(id)', i))]]
    BY <1>4, ListsNext DEF Listed
  <2>4. \A i \in 1..Cardinality(ts) :
          kv'[GetVestingQueueKey(id, Nth(ts, i))] =
            [auctionId |-> id, releaseTime |-> Nth(ts, i), released |-> FALSE]
    <3>1. \A i \in 1..Cardinality(ts) : Nth(ts, i) \in ts BY <1>5, NthHasItsRank
    <3> QED BY <1>1, <3>1, Zenon
  <2> QED BY <2>2, <2>3, <2>4
<1> HIDE DEF A, x
<1>9. Queues' = E
  <2>1. Queues' = [j \in AuctionIds |-> GetVestingQueuesByAuctionId(j)']
    BY DEF Queues, AuctionIds
  <2>2. Queues = [j \in AuctionIds |-> GetVestingQueuesByAuctionId(j)] BY DEF Queues
  <2> QED BY <1>4, <1>7, <1>8, <2>1, <2>2
<1>10. RecordsInStore' = RecordsOf(A, Allowed, Bids, MatchedBidsLen, E)
  BY <1>3, <1>6, <1>9, RecordsNext
<1>11. R!Vest(RecordsInStore, id, ts) =
         RecordsOf(A, Allowed, Bids, MatchedBidsLen, E)
  <2> DEFINE s == R!SetStatus(RecordsInStore, id, "Vesting")
             nth(i) == CHOOSE t \in ts : Cardinality({u \in ts : u < t}) = i - 1
             z == [i \in 1..Cardinality(ts) |->
                     [auctionId |-> id, releaseTime |-> nth(i), released |-> FALSE]]
  <2>1. R!Vest(RecordsInStore, id, ts) = [s EXCEPT !.queues[id] = z]
    BY CardinalityInR DEF R!Vest
  <2>2. z = x
    <3>1. \A i \in 1..Cardinality(ts) : nth(i) = Nth(ts, i) BY <1>5, NthInR
    <3> HIDE DEF nth
    <3> QED BY <3>1 DEF x
  <2>3. s = RecordsOf(A, Allowed, Bids, MatchedBidsLen, Queues)
    BY FieldsNow DEF R!SetStatus, RecordsOf, A
  <2> HIDE DEF s, z
  <2>4. [s EXCEPT !.queues[id] = x] = RecordsOf(A, Allowed, Bids, MatchedBidsLen, E)
    BY <2>3 DEF RecordsOf
  <2> QED BY <2>1, <2>2, <2>4
<1> QED BY <1>10, <1>11

LEMMA QueueReleased ==
  ASSUME NEW id, NEW t, NEW q \in QueueOf(id, t)
  PROVE  [q EXCEPT !.released = TRUE] =
           [auctionId |-> id, releaseTime |-> t, released |-> TRUE]
<1>1. [q EXCEPT !.released = TRUE] \in
        [auctionId : {id}, releaseTime : {t}, released : {TRUE}]
  BY DEF QueueOf
<1>2. ASSUME NEW r \in [auctionId : {id}, releaseTime : {t}, released : {TRUE}]
      PROVE  r = [auctionId |-> id, releaseTime |-> t, released |-> TRUE]
  OBVIOUS
<1> QED BY <1>1, <1>2

LEMMA ReleaseInRecords ==
  ASSUME StoreInv, StoreInv', NEW id \in Ids,
         NEW i \in 1..Len(GetVestingQueuesByAuctionId(id)), Release(id, i)
  PROVE  RecordsInStore' = R!Release(RecordsInStore, id, i)
<1> DEFINE T == TimesOf(id)
           n == Cardinality(T)
           u == Nth(T, i)
           qs == GetVestingQueuesByAuctionId(id)
           key == GetVestingQueueKey(id, u)
           status == IF i = n THEN "Finished" ELSE "Vesting"
           A == [GetAuctions EXCEPT ![id].status = status]
           E == [Queues EXCEPT ![id][i].released = TRUE]
<1>1. /\ SameBut({33, 65}) /\ i \in 1..n /\ u \in Uint64 /\ Has(key)
      /\ GetAuction(id).status = "Vesting"
      /\ kv'[key] = [auctionId |-> id, releaseTime |-> u, released |-> TRUE]
      /\ kv'[GetAuctionKey(id)] = [GetAuction(id) EXCEPT !.status = status]
  BY ReleaseWrites
<1>2. /\ \A j \in Uint64 \ {id} : Has(GetAuctionKey(j)) =>
           kv'[GetAuctionKey(j)] = kv[GetAuctionKey(j)]
      /\ \A j, t \in Uint64 :
           /\ Has(GetVestingQueueKey(j, t))' <=> Has(GetVestingQueueKey(j, t))
           /\ ~(j = id /\ t = u) /\ Has(GetVestingQueueKey(j, t)) =>
                kv'[GetVestingQueueKey(j, t)] = kv[GetVestingQueueKey(j, t)]
  BY ReleaseKeeps
<1>3. Same(17) /\ Allowed' = Allowed /\ Bids' = Bids
      /\ MatchedBidsLen' = MatchedBidsLen
  BY <1>1, FieldsKept DEF SameBut
<1>4. /\ id \in Uint64 /\ id \in AuctionIds /\ AuctionIds \subseteq Uint64
      /\ T \in SUBSET Nat /\ IsFiniteSet(T) /\ n \in Nat
      /\ \A k \in 1..n : /\ Nth(T, k) \in Uint64
                         /\ Has(GetVestingQueueKey(id, Nth(T, k)))
  BY AuctionInUse, IdsInUse, TimesNow DEF StoreInv
<1> HIDE DEF status
<1>5. GetAuctions' = A BY <1>1, <1>2, <1>3, AuctionsWithout
<1>6. ASSUME NEW j \in AuctionIds, j # id
      PROVE  GetVestingQueuesByAuctionId(j)' = GetVestingQueuesByAuctionId(j)
  BY <1>2, <1>4, <1>6, QueueListKept
<1>7. qs = [k \in 1..n |-> kv[GetVestingQueueKey(id, Nth(T, k))]]
  BY <1>4, ListsNow DEF Listed
<1>8. qs' = [k \in 1..n |-> kv'[GetVestingQueueKey(id, Nth(T, k))]]
  <2>1. TimesOf(id)' = T BY <1>2, <1>4 DEF TimesOf
  <2>2. qs' = [k \in 1..Cardinality(TimesOf(id)') |->
                 kv'[GetVestingQueueKey(id, Nth(TimesOf(id)', k))]]
    BY <1>4, ListsNext DEF Listed
  <2> QED BY <2>1, <2>2
<1>9. Len(qs) = n /\ qs[i] = kv[key]
  <2> HIDE DEF n, qs
  <2> QED BY <1>1, <1>4, <1>7
<1>10. kv'[key] = [qs[i] EXCEPT !.released = TRUE]
  <2>1. kv[key] \in QueueOf(id, u) BY <1>1, <1>4 DEF StoreInv, QueuesOk
  <2> HIDE DEF key, u
  <2>2. [kv[key] EXCEPT !.released = TRUE] =
          [auctionId |-> id, releaseTime |-> u, released |-> TRUE]
    BY <2>1, QueueReleased, Zenon
  <2> QED BY <1>1, <1>9, <2>2
<1>11. ASSUME NEW k \in 1..n, k # i
       PROVE  kv'[GetVestingQueueKey(id, Nth(T, k))] = qs[k]
  <2>1. Nth(T, k) # u
    <3>1. Rank(T, Nth(T, k)) = k /\ Rank(T, u) = i BY <1>1, <1>4, NthHasItsRank
    <3> QED BY <1>11, <3>1
  <2> QED BY <1>2, <1>4, <1>7, <2>1
<1> HIDE DEF qs, n, T
<1>12. qs' = [qs EXCEPT ![i].released = TRUE]
  BY <1>1, <1>7, <1>8, <1>10, <1>11
<1>13. Queues[id] = qs BY <1>4 DEF Queues, qs
<1>14. Queues' = E
  <2>1. Queues' = [j \in AuctionIds |-> GetVestingQueuesByAuctionId(j)']
    BY DEF Queues, AuctionIds
  <2>2. Queues = [j \in AuctionIds |-> GetVestingQueuesByAuctionId(j)] BY DEF Queues
  <2>3. GetVestingQueuesByAuctionId(id)' = [Queues[id] EXCEPT ![i].released = TRUE]
    BY <1>12, <1>13 DEF qs
  <2> QED BY <1>4, <1>6, <2>1, <2>2, <2>3
<1>15. RecordsInStore' = RecordsOf(A, Allowed, Bids, MatchedBidsLen, E)
  <2> HIDE DEF A, E
  <2> QED BY <1>3, <1>5, <1>14, RecordsNext
<1>16. i # n => A = GetAuctions
  <2> SUFFICES ASSUME i # n PROVE A = GetAuctions OBVIOUS
  <2>1. GetAuctions = [k \in 1..GetLastAuctionId |-> kv[GetAuctionKey(k)]]
    BY ListsNow DEF Listed
  <2>2. id \in 1..GetLastAuctionId /\ GetAuctions[id] = GetAuction(id)
    BY <2>1 DEF Ids, GetAuction
  <2>3. [GetAuction(id) EXCEPT !.status = "Vesting"] = GetAuction(id)
    BY <1>1, AuctionInUse DEF AuctionOf
  <2>4. status = "Vesting" BY DEF status
  <2> QED BY <2>1, <2>2, <2>3, <2>4
<1>17. R!Release(RecordsInStore, id, i) =
         RecordsOf(A, Allowed, Bids, MatchedBidsLen, E)
  <2> DEFINE s == [RecordsInStore EXCEPT !.queues[id][i].released = TRUE]
  <2>1. R!Release(RecordsInStore, id, i) =
          IF i = n THEN R!SetStatus(s, id, "Finished") ELSE s
    BY <1>9, <1>13, FieldsNow DEF R!Release
  <2>2. s = RecordsOf(GetAuctions, Allowed, Bids, MatchedBidsLen, E)
    <3>1. ASSUME NEW x
          PROVE  [RecordsInStore EXCEPT !.queues[id][i].released = x] =
                   RecordsOf(GetAuctions, Allowed, Bids, MatchedBidsLen,
                             [Queues EXCEPT ![id][i].released = x])
      BY FieldsNow DEF RecordsOf
    <3> QED BY <3>1, Zenon
  <2> HIDE DEF s, E
  <2>3. CASE i = n
    <3>1. status = "Finished" BY <2>3 DEF status
    <3>2. R!SetStatus(s, id, "Finished") =
            RecordsOf([GetAuctions EXCEPT ![id].status = "Finished"],
                      Allowed, Bids, MatchedBidsLen, E)
      BY <2>2 DEF R!SetStatus, RecordsOf
    <3> QED BY <2>1, <2>3, <3>1, <3>2
  <2>4. CASE i # n
    <3> HIDE DEF A
    <3> QED BY <1>16, <2>1, <2>2, <2>4
  <2> QED BY <2>3, <2>4
<1> QED BY <1>15, <1>17

LEMMA RecordsInit == Init => RecordsInStore = R!NoRecords
<1> SUFFICES ASSUME Init PROVE RecordsInStore = R!NoRecords OBVIOUS
<1>1. DOMAIN kv = {} BY DEF Init
<1>2. StoreInv BY StoreInvInit
<1>3. /\ GetLastAuctionId = 0
      /\ \A id \in Uint64 : /\ GetLastBidId(id) = 0
                            /\ GetLastMatchedBidsLen(id) = 0
                            /\ TimesOf(id) = {}
                            /\ \A a \in Addresses : MaxBidAmountOf(id, a) = 0
  BY <1>1 DEF GetLastAuctionId, GetLastBidId, GetLastMatchedBidsLen, Number, Has,
              TimesOf, MaxBidAmountOf
<1>4. AuctionIds \subseteq Uint64 BY <1>2, IdsInUse DEF StoreInv
<1>5. ASSUME NEW f PROVE [i \in 1..0 |-> f[i]] = <<>> OBVIOUS
<1>6. GetAuctions = <<>>
  <2>1. GetAuctions = [i \in 1..0 |-> kv[GetAuctionKey(i)]]
    BY <1>2, <1>3, ListsNow DEF Listed
  <2> QED BY <2>1
<1>7. ASSUME NEW id \in Uint64
      PROVE  GetBidsByAuctionId(id) = <<>> /\ GetVestingQueuesByAuctionId(id) = <<>>
  <2>1. GetBidsByAuctionId(id) = [k \in 1..0 |-> kv[GetBidKey(id, k)]]
    BY <1>2, <1>3, ListsNow DEF Listed
  <2>2. GetVestingQueuesByAuctionId(id) =
          [i \in 1..Cardinality({}) |-> kv[GetVestingQueueKey(id, Nth({}, i))]]
    BY <1>2, <1>3, ListsNow DEF Listed
  <2>3. Cardinality({}) = 0 BY FS_EmptySet
  <2> QED BY <2>1, <2>2, <2>3
<1>8. /\ Allowed = [id \in AuctionIds |-> [a \in Addresses |-> 0]]
      /\ Bids = [id \in AuctionIds |-> <<>>]
      /\ MatchedBidsLen = [id \in AuctionIds |-> 0]
      /\ Queues = [id \in AuctionIds |-> <<>>]
  BY <1>3, <1>4, <1>7 DEF Allowed, Bids, MatchedBidsLen, Queues
<1> QED BY <1>6, <1>8
     DEF RecordsInStore, RecordsOf, R!NoRecords, R!AuctionIds, AuctionIds

LEMMA LengthsInRecords ==
  ASSUME StoreInv
  PROVE  /\ RecordsInStore.auctions = GetAuctions /\ Len(GetAuctions) = GetLastAuctionId
         /\ \A id \in Ids :
              /\ Len(RecordsInStore.bids[id]) = GetLastBidId(id)
              /\ RecordsInStore.queues[id] = GetVestingQueuesByAuctionId(id)
<1>1. Len(GetAuctions) = GetLastAuctionId
  <2>1. GetLastAuctionId \in Nat BY IdsInUse DEF StoreInv
  <2>2. GetAuctions = [i \in 1..GetLastAuctionId |-> kv[GetAuctionKey(i)]]
    BY ListsNow DEF Listed
  <2> QED BY <2>1, <2>2
<1>2. ASSUME NEW id \in Ids
      PROVE  /\ Len(Bids[id]) = GetLastBidId(id)
             /\ Queues[id] = GetVestingQueuesByAuctionId(id)
  <2>1. id \in Uint64 /\ id \in AuctionIds /\ GetLastBidId(id) \in Nat
    BY AuctionInUse, IdsInUse DEF StoreInv
  <2>2. Bids[id] = [k \in 1..GetLastBidId(id) |-> kv[GetBidKey(id, k)]]
    BY <2>1, ListsNow DEF Listed, Bids
  <2>3. Queues[id] = GetVestingQueuesByAuctionId(id) BY <2>1 DEF Queues
  <2> QED BY <2>1, <2>2, <2>3
<1> QED BY <1>1, <1>2, FieldsNow

LEMMA RecordsStep ==
  StoreInv /\ StoreInv' /\ [Write]_kv =>
    \/ RecordsInStore' = RecordsInStore
    \/ R!Operation(RecordsInStore, RecordsInStore')
<1> SUFFICES ASSUME StoreInv, StoreInv', [Write]_kv
             PROVE  \/ RecordsInStore' = RecordsInStore
                    \/ R!Operation(RecordsInStore, RecordsInStore')
  OBVIOUS
<1> DEFINE r == RecordsInStore
           s == RecordsInStore'
<1>1. /\ 1..Len(r.auctions) = Ids
      /\ \A id \in Ids : /\ 1..Len(r.bids[id]) = 1..GetLastBidId(id)
                         /\ r.queues[id] = GetVestingQueuesByAuctionId(id)
  BY LengthsInRecords DEF Ids
<1>2. ASSUME NEW type \in {"FixedPrice", "Batch"},
             NEW status \in {"StandBy", "Started"}, CreateAuction(type, status)
      PROVE  R!Operation(r, s)
  BY <1>2, CreateAuctionInRecords DEF R!Operation
<1>3. ASSUME NEW id \in Ids, NEW status \in {"Started", "Finished", "Cancelled"},
             SetStatus(id, status)
      PROVE  R!Operation(r, s)
  BY <1>1, <1>3, SetStatusInRecords DEF R!Operation
<1>4. ASSUME NEW id \in Ids, NEW a \in Addresses, NEW max \in MaxBidAmounts,
             AllowBidder(id, a, max)
      PROVE  R!Operation(r, s)
  BY <1>1, <1>4, AllowBidderInRecords DEF R!Operation
<1>5. ASSUME NEW id \in Ids, NEW a \in Addresses, PlaceBid(id, a)
      PROVE  R!Operation(r, s)
  BY <1>1, <1>5, PlaceBidInRecords DEF R!Operation
<1>6. ASSUME NEW id \in Ids, NEW ks \in SUBSET (1..GetLastBidId(id)),
             MatchBids(id, ks)
      PROVE  R!Operation(r, s)
  BY <1>1, <1>6, MatchBidsInRecords DEF R!Operation
<1>7. ASSUME NEW id \in Ids, NEW ts \in SUBSET Times, Vest(id, ts)
      PROVE  R!Operation(r, s)
  BY <1>1, <1>7, VestInRecords DEF R!Operation
<1>8. ASSUME NEW id \in Ids, NEW i \in 1..Len(GetVestingQueuesByAuctionId(id)),
             Release(id, i)
      PROVE  R!Operation(r, s)
  BY <1>1, <1>8, ReleaseInRecords DEF R!Operation
<1>9. CASE UNCHANGED kv
  <2>1. \A b : Same(b) BY <1>9 DEF Same, Has
  <2> QED BY <2>1, FieldsKept DEF RecordsInStore
<1> QED BY <1>2, <1>3, <1>4, <1>5, <1>6, <1>7, <1>8, <1>9 DEF Write

LEMMA StoreIsRecordsInit == Init => R!Init
BY RecordsInit DEF R!Init, RecordsInStore, RecordsOf, Allowed, Bids,
   MatchedBidsLen, Queues

LEMMA StoreIsRecordsStep ==
  StoreInv /\ StoreInv' /\ [Write]_kv =>
    R!Next
BY RecordsStep DEF R!Next, RecordsInStore, RecordsOf, Allowed, Bids,
   MatchedBidsLen, Queues

-----------------------------------------------------------------------------
(***************************************************************************)
(* The order of the bytes is total.                                        *)
(***************************************************************************)

\* s and t are the same up to byte k - 1, and s has the lesser byte k.
Lesser(s, t, k) ==
  /\ k \in 1..Len(s) /\ k <= Len(t)
  /\ s[k] < t[k]
  /\ SameStart(s, t, k - 1)

LEMMA BeforeIs ==
  ASSUME NEW s, NEW t
  PROVE  Before(s, t) <=> IsPrefix(s, t) \/ \E k \in Nat : Lesser(s, t, k)
<1>1. ASSUME NEW k, Lesser(s, t, k) PROVE k \in Nat BY <1>1 DEF Lesser
<1> QED BY <1>1 DEF Before, Lesser, SameStart

LEMMA Compared ==
  ASSUME NEW s \in Seq(Nat), NEW t \in Seq(Nat)
  PROVE  \/ IsPrefix(s, t) \/ IsPrefix(t, s)
         \/ \E k \in Nat : Lesser(s, t, k) \/ Lesser(t, s, k)
<1> DEFINE D == {k \in Nat : k \in 1..Len(s) /\ k <= Len(t) /\ s[k] # t[k]}
<1>1. Len(s) \in Nat /\ Len(t) \in Nat BY LenProperties
<1>2. CASE D = {}
  <2>1. \A k \in 1..Len(s) : k <= Len(t) => s[k] = t[k] BY <1>1, <1>2
  <2>2. CASE Len(s) <= Len(t)
    <3>1. ASSUME NEW i \in 1..Len(s) PROVE s[i] = t[i]
      <4>1. i <= Len(t) BY <1>1, <2>2
      <4> QED BY <2>1, <4>1
    <3>2. SameStart(s, t, Len(s)) BY <3>1 DEF SameStart
    <3> QED BY <2>2, <3>2, PrefixIs
  <2>3. CASE Len(t) <= Len(s)
    <3>1. ASSUME NEW i \in 1..Len(t) PROVE t[i] = s[i]
      <4>1. i \in 1..Len(s) /\ i <= Len(t) BY <1>1, <2>3
      <4> QED BY <2>1, <4>1
    <3>2. SameStart(t, s, Len(t)) BY <3>1 DEF SameStart
    <3> QED BY <2>3, <3>2, PrefixIs
  <2> QED BY <1>1, <2>2, <2>3
<1>3. CASE D # {}
  <2>1. PICK k \in D : \A j \in D : k <= j BY <1>3, LeastNat
  <2>2. /\ k \in 1..Len(s) /\ k \in 1..Len(t) /\ k <= Len(t) /\ k <= Len(s)
        /\ s[k] \in Nat /\ t[k] \in Nat /\ s[k] # t[k]
    BY <1>1, ElementOfSeq
  <2>3. SameStart(s, t, k - 1) /\ SameStart(t, s, k - 1)
    <3>1. ASSUME NEW i \in 1..(k - 1) PROVE s[i] = t[i]
      <4>1. i \in Nat /\ i \in 1..Len(s) /\ i <= Len(t) /\ ~(k <= i)
        BY <1>1, <2>2
      <4> QED BY <2>1, <4>1
    <3> QED BY <3>1 DEF SameStart
  <2>4. s[k] < t[k] \/ t[k] < s[k] BY <2>2
  <2> QED BY <2>2, <2>3, <2>4 DEF Lesser
<1> QED BY <1>2, <1>3

LEMMA TotalOrder ==
  ASSUME NEW s \in Seq(Nat), NEW t \in Seq(Nat)
  PROVE  /\ Before(s, t) \/ Before(t, s)
         /\ Before(s, t) /\ Before(t, s) => s = t
<1>1. Before(s, t) \/ Before(t, s) BY Compared, BeforeIs
<1>2. ASSUME NEW x \in Seq(Nat), NEW y \in Seq(Nat), NEW k, Lesser(x, y, k)
      PROVE  Strictly(x, y)
  BY <1>2, DecidedAt DEF Lesser
<1>3. ASSUME Before(s, t), Before(t, s) PROVE s = t
  <2>1. IsPrefix(s, t) /\ IsPrefix(t, s) BY <1>2, <1>3, BeforeIs DEF Strictly
  <2>2. Len(s) = Len(t) /\ SameStart(s, t, Len(s))
    BY <2>1, PrefixIs, LenProperties
  <2> QED BY <2>2, SeqEqual DEF SameStart
<1> QED BY <1>1, <1>3

LEMMA StartsCompose ==
  ASSUME NEW s, NEW t, NEW u, NEW m \in Int, NEW n \in Int, NEW k \in Int,
         SameStart(s, t, m), SameStart(t, u, n), k <= m, k <= n
  PROVE  SameStart(s, u, k)
<1>1. ASSUME NEW i \in 1..k PROVE s[i] = u[i]
  <2>1. i \in 1..m /\ i \in 1..n OBVIOUS
  <2> QED BY <2>1 DEF SameStart
<1> QED BY <1>1 DEF SameStart

LEMMA Transitive ==
  ASSUME NEW s \in Seq(Nat), NEW t \in Seq(Nat), NEW u \in Seq(Nat),
         Before(s, t), Before(t, u)
  PROVE  Before(s, u)
<1>1. Len(s) \in Nat /\ Len(t) \in Nat /\ Len(u) \in Nat BY LenProperties
<1>2. CASE IsPrefix(s, t)
  <2>1. Len(s) <= Len(t) /\ SameStart(s, t, Len(s)) BY <1>2, PrefixIs
  <2>2. CASE IsPrefix(t, u)
    <3>1. Len(t) <= Len(u) /\ SameStart(t, u, Len(t)) BY <2>2, PrefixIs
    <3>2. Len(s) <= Len(u) /\ SameStart(s, u, Len(s))
      BY <1>1, <2>1, <3>1, StartsCompose
    <3> QED BY <3>2, PrefixIs DEF Before
  <2>3. ASSUME NEW k \in Nat, Lesser(t, u, k) PROVE Before(s, u)
    <3>1. /\ k \in 1..Len(t) /\ k <= Len(u) /\ t[k] < u[k]
          /\ SameStart(t, u, k - 1)
      BY <2>3 DEF Lesser
    <3>2. CASE k <= Len(s)
      <4>1. k \in 1..Len(s) /\ s[k] = t[k] BY <1>1, <2>1, <3>1, <3>2 DEF SameStart
      <4>2. k - 1 \in Int /\ k - 1 <= Len(s) BY <1>1, <3>2
      <4>3. SameStart(s, u, k - 1) BY <1>1, <2>1, <3>1, <4>2, StartsCompose
      <4>4. Lesser(s, u, k) BY <3>1, <4>1, <4>3 DEF Lesser
      <4> QED BY <4>4, BeforeIs
    <3>3. CASE k > Len(s)
      <4>1. Len(s) <= Len(u) /\ k - 1 \in Int /\ Len(s) <= k - 1
        BY <1>1, <3>1, <3>3
      <4>2. SameStart(s, u, Len(s)) BY <1>1, <2>1, <3>1, <4>1, StartsCompose
      <4> QED BY <4>1, <4>2, PrefixIs DEF Before
    <3> QED BY <1>1, <3>2, <3>3
  <2> QED BY <2>2, <2>3, BeforeIs
<1>3. ASSUME NEW k \in Nat, Lesser(s, t, k) PROVE Before(s, u)
  <2>1. /\ k \in 1..Len(s) /\ k <= Len(t) /\ s[k] < t[k]
        /\ SameStart(s, t, k - 1)
    BY <1>3 DEF Lesser
  <2>2. CASE IsPrefix(t, u)
    <3>1. Len(t) <= Len(u) /\ SameStart(t, u, Len(t)) BY <2>2, PrefixIs
    <3>2. k <= Len(u) /\ t[k] = u[k] BY <1>1, <2>1, <3>1 DEF SameStart
    <3>3. k - 1 \in Int /\ k - 1 <= Len(t) BY <1>1, <2>1
    <3>4. SameStart(s, u, k - 1) BY <1>1, <2>1, <3>1, <3>3, StartsCompose
    <3>5. Lesser(s, u, k) BY <2>1, <3>2, <3>4 DEF Lesser
    <3> QED BY <3>5, BeforeIs
  <2>3. ASSUME NEW j \in Nat, Lesser(t, u, j) PROVE Before(s, u)
    <3>1. /\ j \in 1..Len(t) /\ j <= Len(u) /\ t[j] < u[j]
          /\ SameStart(t, u, j - 1)
      BY <2>3 DEF Lesser
    <3>2. CASE k < j
      <4>1. k <= Len(u) /\ t[k] = u[k]
        BY <1>1, <2>1, <3>1, <3>2 DEF SameStart
      <4>2. k - 1 \in Int /\ j - 1 \in Int /\ k - 1 <= j - 1 BY <3>2
      <4>3. SameStart(s, u, k - 1) BY <2>1, <3>1, <4>2, StartsCompose
      <4>4. Lesser(s, u, k) BY <2>1, <4>1, <4>3 DEF Lesser
      <4> QED BY <4>4, BeforeIs
    <3>3. CASE j < k
      <4>1. j \in 1..Len(s) /\ s[j] = t[j]
        BY <1>1, <2>1, <3>1, <3>3 DEF SameStart
      <4>2. k - 1 \in Int /\ j - 1 \in Int /\ j - 1 <= k - 1 BY <3>3
      <4>3. SameStart(s, u, j - 1) BY <2>1, <3>1, <4>2, StartsCompose
      <4>4. Lesser(s, u, j) BY <3>1, <4>1, <4>3 DEF Lesser
      <4> QED BY <4>4, BeforeIs
    <3>4. CASE j = k
      <4>1. k \in 1..Len(t) /\ k \in 1..Len(u) BY <1>1, <2>1, <3>1, <3>4
      <4>2. s[k] \in Nat /\ t[k] \in Nat /\ u[k] \in Nat
        BY <2>1, <4>1, ElementOfSeq
      <4>3. SameStart(s, u, k - 1) BY <2>1, <3>1, <3>4, StartsCompose
      <4>4. s[k] < u[k] /\ k <= Len(u)
        <5>1. t[k] < u[k] /\ k <= Len(u) BY <3>1, <3>4
        <5>2. s[k] < t[k] BY <2>1
        <5> QED BY <4>2, <5>1, <5>2
      <4>5. Lesser(s, u, k) BY <2>1, <4>3, <4>4 DEF Lesser
      <4> QED BY <4>5, BeforeIs
    <3> QED BY <3>2, <3>3, <3>4
  <2> QED BY <2>2, <2>3, BeforeIs
<1> QED BY <1>2, <1>3, BeforeIs

-----------------------------------------------------------------------------
(***************************************************************************)
(* Keys in their order.                                                    *)
(***************************************************************************)
Position(S, key) == Cardinality({k \in S : Before(k, key)})

LEMMA PositionsGrow ==
  ASSUME NEW S \in SUBSET Seq(Nat), IsFiniteSet(S)
  PROVE  /\ Cardinality(S) \in Nat
         /\ \A key \in S : Position(S, key) \in 1..Cardinality(S)
         /\ \A k, l \in S : Before(k, l) <=> Position(S, k) <= Position(S, l)
<1> DEFINE upTo(key) == {k \in S : Before(k, key)}
<1>1. Cardinality(S) \in Nat BY FS_CardinalityType
<1>2. ASSUME NEW key \in S
      PROVE  /\ IsFiniteSet(upTo(key)) /\ Position(S, key) = Cardinality(upTo(key))
             /\ Position(S, key) \in 1..Cardinality(S)
  <2>1. upTo(key) \in SUBSET S /\ upTo(key) # {} BY BeforeItself
  <2> HIDE DEF upTo
  <2>2. IsFiniteSet(upTo(key)) /\ Cardinality(upTo(key)) <= Cardinality(S)
    BY <2>1, FS_Subset
  <2>3. Cardinality(upTo(key)) \in Nat /\ Cardinality(upTo(key)) # 0
    BY <2>1, <2>2, FS_CardinalityType, FS_EmptySet
  <2>4. Position(S, key) = Cardinality(upTo(key)) BY DEF Position, upTo
  <2> QED BY <1>1, <2>2, <2>3, <2>4
<1>3. ASSUME NEW k \in S, NEW l \in S, Before(k, l)
      PROVE  upTo(k) \in SUBSET upTo(l)
  <2>1. k \in Seq(Nat) /\ l \in Seq(Nat) OBVIOUS
  <2>2. ASSUME NEW x \in S, Before(x, k) PROVE Before(x, l)
    <3>1. x \in Seq(Nat) OBVIOUS
    <3> QED BY <1>3, <2>1, <2>2, <3>1, Transitive
  <2> QED BY <2>2
<1>4. ASSUME NEW k \in S, NEW l \in S, Before(k, l)
      PROVE  Position(S, k) <= Position(S, l)
  <2>1. upTo(k) \in SUBSET upTo(l) BY <1>3, <1>4
  <2> HIDE DEF upTo
  <2> QED BY <1>2, <2>1, FS_Subset
<1>5. ASSUME NEW k \in S, NEW l \in S, ~Before(k, l)
      PROVE  ~(Position(S, k) <= Position(S, l))
  <2>1. Before(l, k) /\ Before(k, k) BY <1>5, TotalOrder, BeforeItself
  <2>2. upTo(l) \in SUBSET upTo(k) BY <1>3, <2>1
  <2>3. k \in upTo(k) /\ k \notin upTo(l) BY <1>5, <2>1
  <2> HIDE DEF upTo
  <2>4. Cardinality(upTo(l)) <= Cardinality(upTo(k)) BY <1>2, <2>2, FS_Subset
  <2>5. Cardinality(upTo(l)) # Cardinality(upTo(k)) BY <1>2, <2>2, <2>3, FS_Subset
  <2>6. /\ Position(S, k) = Cardinality(upTo(k)) /\ Position(S, k) \in Nat
        /\ Position(S, l) = Cardinality(upTo(l)) /\ Position(S, l) \in Nat
    BY <1>1, <1>2
  <2> QED BY <2>4, <2>5, <2>6
<1> QED BY <1>1, <1>2, <1>4, <1>5

\* Store, InOrder: it has each of the keys, and in the order of their bytes.
LEMMA KeysInOrder ==
  ASSUME NEW S \in SUBSET Seq(Nat), IsFiniteSet(S)
  PROVE  LET n == Cardinality(S)
             s == InOrder(S)
         IN  /\ n \in Nat /\ s \in [1..n -> S] /\ s \in Seq(S) /\ Len(s) = n
             /\ ToSet(s) = S
             /\ \A i, j \in 1..n : Before(s[i], s[j]) <=> i <= j
             /\ \A i, j \in 1..n : s[i] = s[j] => i = j
<1> DEFINE n == Cardinality(S)
           s == InOrder(S)
           f == [key \in S |-> Position(S, key)]
<1>1. n \in Nat /\ \A key \in S : Position(S, key) \in 1..n BY PositionsGrow
<1>2. ASSUME NEW k \in S, NEW l \in S, Position(S, k) = Position(S, l)
      PROVE  k = l
  <2>1. Before(k, l) /\ Before(l, k)
    <3>1. Position(S, k) <= Position(S, l) /\ Position(S, l) <= Position(S, k)
      BY <1>1, <1>2
    <3> QED BY <3>1, PositionsGrow
  <2> QED BY <2>1, TotalOrder
<1>3. f \in Injection(S, 1..n)
  <2>1. f \in [S -> 1..n] BY <1>1
  <2>2. \A k, l \in S : f[k] = f[l] => k = l BY <1>2
  <2> QED BY <2>1, <2>2 DEF Injection, IsInjective
<1>4. IsFiniteSet(1..n) /\ Cardinality(1..n) = n BY <1>1, FS_Interval
<1> HIDE DEF f
<1>5. f \in Surjection(S, 1..n)
  <2>1. Cardinality(S) = Cardinality(1..n) BY <1>4
  <2> HIDE DEF n
  <2> QED BY <1>3, <1>4, <2>1, FS_Injection
<1>6. s = [i \in 1..n |-> CHOOSE key \in S : Position(S, key) = i]
  BY DEF InOrder, Position
<1> HIDE DEF n, s
<1>7. ASSUME NEW i \in 1..n PROVE s[i] \in S /\ Position(S, s[i]) = i
  <2>1. \E key \in S : f[key] = i BY <1>5 DEF Surjection
  <2>2. \E key \in S : Position(S, key) = i BY <2>1 DEF f
  <2> QED BY <1>6, <2>2
<1>8. s \in [1..n -> S] BY <1>6, <1>7
<1>9. s \in Seq(S) /\ Len(s) = n
  <2>1. s \in Seq(S) BY <1>1, <1>8, SeqDef
  <2>2. DOMAIN s = 1..n BY <1>8
  <2> QED BY <1>1, <2>1, <2>2, LenProperties
<1>10. ToSet(s) = S
  <2>1. ASSUME NEW key \in S PROVE \E i \in 1..n : s[i] = key
    <3>1. Position(S, key) \in 1..n BY <1>1
    <3>2. s[Position(S, key)] = key BY <1>2, <1>7, <3>1
    <3> QED BY <3>1, <3>2
  <2>2. ToSet(s) = {s[i] : i \in 1..n} BY <1>8 DEF ToSet
  <2> QED BY <1>7, <2>1, <2>2
<1>11. \A i, j \in 1..n : Before(s[i], s[j]) <=> i <= j BY <1>7, PositionsGrow
<1>12. \A i, j \in 1..n : s[i] = s[j] => i = j BY <1>7
<1> QED BY <1>1, <1>8, <1>9, <1>10, <1>11, <1>12 DEF n, s
-----------------------------------------------------------------------------
(***************************************************************************)
(* The entries of the store, and their number.                             *)
(***************************************************************************)

\* The bidders who are allowed have their entries under their own addresses.
AllowedOk ==
  \A id \in Uint64, a \in Addresses :
    Has(GetAllowedBidderKey(id, a)) =>
      kv[GetAllowedBidderKey(id, a)] =
        [bidder |-> a, maxBidAmount |-> MaxBidAmountOf(id, a)]

\* Only auctions have bids and allowed bidders.
OwnersOk ==
  \A id \in Uint64 :
    /\ GetLastBidId(id) # 0 => id \in Ids
    /\ \A a \in Addresses : Has(GetAllowedBidderKey(id, a)) => id \in Ids

\* A counter is written when something is counted.
CountersOk ==
  /\ Has(LastAuctionIdKey) => GetLastAuctionId # 0
  /\ \A id \in Uint64 : Has(GetLastBidIdKey(id)) => GetLastBidId(id) # 0

EntriesInv ==
  StoreInv /\ IsFiniteSet(DOMAIN kv) /\ AllowedOk /\ OwnersOk /\ CountersOk

LEMMA AllowedKept ==
  ASSUME AllowedOk, Same(34)
  PROVE  AllowedOk'
<1> SUFFICES ASSUME NEW id \in Uint64, NEW a \in Addresses,
                    Has(GetAllowedBidderKey(id, a))'
             PROVE  kv'[GetAllowedBidderKey(id, a)] =
                      [bidder |-> a, maxBidAmount |-> MaxBidAmountOf(id, a)']
  BY DEF AllowedOk
<1>1. /\ Has(GetAllowedBidderKey(id, a))
      /\ kv'[GetAllowedBidderKey(id, a)] = kv[GetAllowedBidderKey(id, a)]
  BY FirstBytes, KeysOfRecords DEF Same
<1>2. MaxBidAmountOf(id, a)' = MaxBidAmountOf(id, a) BY SameRecords
<1> QED BY <1>1, <1>2 DEF AllowedOk

LEMMA AllowedTheSame ==
  ASSUME Same(34), NEW id \in Uint64, NEW a \in Addresses
  PROVE  Has(GetAllowedBidderKey(id, a))' <=> Has(GetAllowedBidderKey(id, a))
BY FirstBytes, KeysOfRecords DEF Same

LEMMA OwnersKept ==
  ASSUME OwnersOk, Same(17), Same(18), Same(34)
  PROVE  OwnersOk'
<1>1. Ids' = Ids BY SameRecords DEF Ids
<1> QED BY <1>1, SameRecords, AllowedTheSame DEF OwnersOk

LEMMA CountersKept ==
  ASSUME CountersOk, Same(18), Same(17) \/ GetLastAuctionId' # 0
  PROVE  CountersOk'
<1>1. Has(LastAuctionIdKey)' => GetLastAuctionId' # 0
  <2>1. Same(17) => (Has(LastAuctionIdKey)' <=> Has(LastAuctionIdKey))
    BY FirstBytes, KeysOfRecords DEF Same
  <2> QED BY <2>1, SameRecords DEF CountersOk
<1>2. \A id \in Uint64 : Has(GetLastBidIdKey(id))' <=> Has(GetLastBidIdKey(id))
  BY FirstBytes, KeysOfRecords DEF Same
<1> QED BY <1>1, <1>2, SameRecords DEF CountersOk

LEMMA AllowedWritten ==
  ASSUME EntriesInv, NEW id \in Ids, NEW a \in Addresses, NEW max,
         AllowBidder(id, a, max)
  PROVE  AllowedOk'
<1> DEFINE key == GetAllowedBidderKey(id, a)
           entry == [bidder |-> a, maxBidAmount |-> max]
<1>1. Wrote({key}) /\ kv'[key] = entry BY AllowBidderWrites DEF EntriesInv
<1>2. id \in Uint64 BY AuctionInUse DEF EntriesInv
<1> SUFFICES ASSUME NEW j \in Uint64, NEW b \in Addresses,
                    Has(GetAllowedBidderKey(j, b))'
             PROVE  kv'[GetAllowedBidderKey(j, b)] =
                      [bidder |-> b, maxBidAmount |-> MaxBidAmountOf(j, b)']
  BY DEF AllowedOk
<1>3. CASE j = id /\ b = a
  <2>1. entry.maxBidAmount = max OBVIOUS
  <2> HIDE DEF entry
  <2>2. MaxBidAmountOf(j, b)' = max
    BY <1>1, <1>3, <2>1 DEF MaxBidAmountOf, Has, Wrote
  <2> QED BY <1>1, <1>3, <2>2 DEF entry
<1>4. CASE ~(j = id /\ b = a)
  <2>1. GetAllowedBidderKey(j, b) # key BY <1>2, <1>4, KeysDiffer
  <2> HIDE DEF key
  <2>2. /\ Has(GetAllowedBidderKey(j, b))
        /\ kv'[GetAllowedBidderKey(j, b)] = kv[GetAllowedBidderKey(j, b)]
    BY <1>1, <2>1 DEF Has, Wrote
  <2>3. MaxBidAmountOf(j, b)' = MaxBidAmountOf(j, b)
    BY <2>2 DEF MaxBidAmountOf, Has
  <2> QED BY <2>2, <2>3 DEF AllowedOk, EntriesInv
<1> QED BY <1>3, <1>4

LEMMA FinitelyMore ==
  ASSUME IsFiniteSet(DOMAIN kv), NEW W, IsFiniteSet(W), DOMAIN kv' = W \cup DOMAIN kv
  PROVE  IsFiniteSet(DOMAIN kv')
BY FS_Union

\* PlaceBid counts no bid of another auction.
LEMMA OtherBidIds ==
  ASSUME StoreInv, NEW id \in Ids, NEW a \in Addresses, PlaceBid(id, a),
         NEW j \in Uint64, j # id
  PROVE  /\ GetLastBidId(j)' = GetLastBidId(j)
         /\ Has(GetLastBidIdKey(j))' <=> Has(GetLastBidIdKey(j))
<1> DEFINE n == GetLastBidId(id) + 1
           W == {GetLastBidIdKey(id), GetBidKey(id, n), GetBidIndexKey(a, id, n)}
<1>1. Wrote(W) BY PlaceBidWrites
<1>2. id \in Uint64 /\ n \in Uint64
  BY PlaceBidWrites, AuctionInUse, IdsInUse DEF StoreInv
<1>3. StartsWith(GetLastBidIdKey(j), 18) BY FirstBytes
<1>4. GetLastBidIdKey(j) # GetLastBidIdKey(id) BY <1>2, KeysDiffer
<1>5. StartsWith(GetBidKey(id, n), 49) /\ StartsWith(GetBidIndexKey(a, id, n), 50)
  BY <1>2, FirstBytes
<1>6. 18 # 49 /\ 18 # 50 OBVIOUS
<1> HIDE DEF n
<1>7. GetLastBidIdKey(j) \notin W BY <1>3, <1>4, <1>5, <1>6, OneKind
<1> HIDE DEF W
<1> QED BY <1>1, <1>7 DEF Wrote, GetLastBidId, Number, Has

LEMMA FewAreFinite ==
  /\ \A x : IsFiniteSet({x})
  /\ \A x, y : IsFiniteSet({x, y})
  /\ \A x, y, z : IsFiniteSet({x, y, z})
<1>1. \A x : IsFiniteSet({x}) BY FS_Singleton
<1>2. ASSUME NEW x, NEW y PROVE IsFiniteSet({x, y})
  <2> DEFINE U == {x}
             V == {y}
  <2>1. {x, y} = U \cup V OBVIOUS
  <2>2. IsFiniteSet(U) /\ IsFiniteSet(V) BY <1>1
  <2> HIDE DEF U, V
  <2> QED BY <2>1, <2>2, FS_Union
<1>3. ASSUME NEW x, NEW y, NEW z PROVE IsFiniteSet({x, y, z})
  <2> DEFINE U == {x}
             V == {y, z}
  <2>1. {x, y, z} = U \cup V OBVIOUS
  <2>2. IsFiniteSet(U) /\ IsFiniteSet(V) BY <1>1, <1>2
  <2> HIDE DEF U, V
  <2> QED BY <2>1, <2>2, FS_Union
<1> QED BY <1>1, <1>2, <1>3

LEMMA EntriesInvStep == EntriesInv /\ [Write]_kv => EntriesInv'
<1> SUFFICES ASSUME EntriesInv, [Write]_kv PROVE EntriesInv' OBVIOUS
<1> DEFINE Ok == IsFiniteSet(DOMAIN kv') /\ AllowedOk' /\ OwnersOk' /\ CountersOk'
<1>0. StoreInv /\ AllowedOk /\ OwnersOk /\ CountersOk /\ IsFiniteSet(DOMAIN kv)
  BY DEF EntriesInv
<1>1. ASSUME NEW type \in {"FixedPrice", "Batch"},
             NEW status \in {"StandBy", "Started"}, CreateAuction(type, status)
      PROVE  Ok
  <2> DEFINE k == GetAuctionKey(GetLastAuctionId + 1)
             W == {LastAuctionIdKey, k}
  <2>1. /\ SameBut({17, 33}) /\ Wrote(W)
        /\ GetLastAuctionId' = GetLastAuctionId + 1
    BY <1>0, <1>1, CreateAuctionWrites
  <2>2. IsFiniteSet(W) BY FewAreFinite
  <2>3. Same(34) /\ Same(18) BY <2>1 DEF SameBut
  <2>4. OwnersOk'
    <3>1. GetLastAuctionId \in Nat BY <1>0, IdsInUse DEF StoreInv
    <3>2. Ids \subseteq Ids' BY <2>1, <3>1 DEF Ids
    <3> QED BY <1>0, <2>3, <3>2, SameRecords, AllowedTheSame DEF OwnersOk
  <2>5. CountersOk'
    <3>1. GetLastAuctionId \in Nat BY <1>0, IdsInUse DEF StoreInv
    <3>2. GetLastAuctionId' # 0 BY <2>1, <3>1
    <3> QED BY <1>0, <2>3, <3>2, CountersKept
  <2> HIDE DEF W
  <2> QED BY <1>0, <2>1, <2>2, <2>3, <2>4, <2>5, AllowedKept, FinitelyMore
          DEF Wrote
<1>2. ASSUME NEW id \in Ids, NEW status, SetStatus(id, status) PROVE Ok
  <2> DEFINE W == {GetAuctionKey(id)}
  <2>1. SameBut({33}) /\ Wrote(W) BY <1>0, <1>2, SetStatusWrites
  <2>2. IsFiniteSet(W) BY FewAreFinite
  <2> HIDE DEF W
  <2> QED BY <1>0, <2>1, <2>2, AllowedKept, OwnersKept, CountersKept, FinitelyMore
          DEF SameBut, Wrote
<1>3. ASSUME NEW id \in Ids, NEW a \in Addresses, NEW max, AllowBidder(id, a, max)
      PROVE  Ok
  <2>1. SameBut({34}) /\ Wrote({GetAllowedBidderKey(id, a)})
    BY <1>0, <1>3, AllowBidderWrites
  <2>2. AllowedOk' BY <1>3, AllowedWritten
  <2>3. Same(17) /\ Same(18) BY <2>1 DEF SameBut
  <2>4. Ids' = Ids BY <2>3, SameRecords DEF Ids
  <2>5. OwnersOk'
    <3> SUFFICES ASSUME NEW j \in Uint64, NEW b \in Addresses,
                        Has(GetAllowedBidderKey(j, b))'
                 PROVE  j \in Ids
      BY <1>0, <2>3, <2>4, SameRecords DEF OwnersOk
    <3>1. CASE j = id BY <3>1
    <3>2. CASE j # id
      <4>1. id \in Uint64 BY <1>0, AuctionInUse
      <4>2. GetAllowedBidderKey(j, b) # GetAllowedBidderKey(id, a)
        BY <3>2, <4>1, KeysDiffer
      <4>3. Has(GetAllowedBidderKey(j, b)) BY <2>1, <4>2 DEF Wrote, Has
      <4> QED BY <1>0, <4>3 DEF OwnersOk
    <3> QED BY <3>1, <3>2
  <2> QED BY <1>0, <2>1, <2>2, <2>3, <2>5, CountersKept, FinitelyMore, FS_Singleton
          DEF Wrote
<1>4. ASSUME NEW id \in Ids, NEW a \in Addresses, PlaceBid(id, a) PROVE Ok
  <2> DEFINE n == GetLastBidId(id) + 1
             W == {GetLastBidIdKey(id), GetBidKey(id, n), GetBidIndexKey(a, id, n)}
  <2>1. /\ SameBut({18, 49, 50}) /\ Wrote(W)
        /\ GetLastBidId(id)' = n /\ n \in 1..MaxBids
    BY <1>0, <1>4, PlaceBidWrites
  <2>2. IsFiniteSet(W) BY FewAreFinite
  <2>3. Same(34) /\ Same(17) BY <2>1 DEF SameBut
  <2>4. OwnersOk'
    <3>1. Ids' = Ids BY <2>3, SameRecords DEF Ids
    <3>2. \A j \in Uint64 : j # id => GetLastBidId(j)' = GetLastBidId(j)
      BY <1>0, <1>4, OtherBidIds
    <3> QED BY <1>0, <2>3, <3>1, <3>2, AllowedTheSame DEF OwnersOk
  <2>5. CountersOk'
    <3>1. Has(LastAuctionIdKey)' => GetLastAuctionId' # 0
      <4>1. Has(LastAuctionIdKey)' <=> Has(LastAuctionIdKey)
        BY <2>3, FirstBytes, KeysOfRecords DEF Same
      <4> QED BY <1>0, <2>3, <4>1, SameRecords DEF CountersOk
    <3>2. GetLastBidId(id)' # 0
      <4> HIDE DEF n
      <4> QED BY <2>1
    <3> QED BY <1>0, <1>4, <3>1, <3>2, OtherBidIds DEF CountersOk
  <2> HIDE DEF W
  <2> QED BY <1>0, <2>1, <2>2, <2>3, <2>4, <2>5, AllowedKept, FinitelyMore
          DEF Wrote
<1>5. ASSUME NEW id \in Ids, NEW ks \in SUBSET (1..GetLastBidId(id)),
             MatchBids(id, ks)
      PROVE  Ok
  <2> DEFINE W == {GetLastMatchedBidsLenKey(id)}
  <2>1. SameBut({49, 50, 51}) /\ DOMAIN kv' = W \cup DOMAIN kv
    BY <1>0, <1>5, MatchBidsWrites
  <2>2. IsFiniteSet(W) BY FewAreFinite
  <2> HIDE DEF W
  <2> QED BY <1>0, <2>1, <2>2, AllowedKept, OwnersKept, CountersKept, FinitelyMore
          DEF SameBut
<1>6. ASSUME NEW id \in Ids, NEW ts \in SUBSET Times, Vest(id, ts) PROVE Ok
  <2> DEFINE Q == {GetVestingQueueKey(id, t) : t \in ts}
             W == Q \cup {GetAuctionKey(id)}
  <2>1. SameBut({33, 65}) /\ Wrote(W) BY <1>0, <1>6, VestWrites
  <2>2. IsFiniteSet(ts) BY <1>0, IdsInUse, FS_Subset DEF StoreInv
  <2>3. IsFiniteSet(Q)
    <3> DEFINE f == [t \in ts |-> GetVestingQueueKey(id, t)]
    <3>1. f \in Surjection(ts, Q) BY DEF Surjection
    <3> QED BY <2>2, <3>1, FS_Surjection
  <2>4. IsFiniteSet(W) BY <2>3, FS_Union, FS_Singleton
  <2> HIDE DEF W
  <2> QED BY <1>0, <2>1, <2>4, AllowedKept, OwnersKept, CountersKept, FinitelyMore
          DEF SameBut, Wrote
<1>7. ASSUME NEW id \in Ids, NEW i \in 1..Len(GetVestingQueuesByAuctionId(id)),
             Release(id, i)
      PROVE  Ok
  <2> DEFINE t == Nth(TimesOf(id), i)
             W == {GetVestingQueueKey(id, t), GetAuctionKey(id)}
  <2>1. SameBut({33, 65}) /\ Wrote(W) BY <1>0, <1>7, ReleaseWrites
  <2>2. IsFiniteSet(W) BY FewAreFinite
  <2>3. Same(17) /\ Same(18) /\ Same(34) BY <2>1 DEF SameBut
  <2> HIDE DEF W
  <2> QED BY <1>0, <2>1, <2>2, <2>3, AllowedKept, OwnersKept, CountersKept,
             FinitelyMore
          DEF Wrote
<1>8. ASSUME UNCHANGED kv PROVE Ok
  BY <1>0, <1>8 DEF AllowedOk, OwnersOk, CountersOk, MaxBidAmountOf, Ids,
                    GetLastAuctionId, GetLastBidId, Number, Has
<1>9. StoreInv' BY <1>0, StoreInvStep
<1> HIDE DEF Ok
<1>10. Ok BY <1>1, <1>2, <1>3, <1>4, <1>5, <1>6, <1>7, <1>8 DEF Write
<1> QED BY <1>9, <1>10 DEF EntriesInv, Ok

\* No handler gives an id back.
LEMMA NumbersGrow ==
  ASSUME StoreInv, [Write]_kv
  PROVE  /\ GetLastAuctionId \in Nat /\ GetLastAuctionId' \in Nat
         /\ GetLastAuctionId <= GetLastAuctionId'
         /\ \A id \in Uint64 : /\ GetLastBidId(id) \in Nat
                               /\ GetLastBidId(id)' \in Nat
                               /\ GetLastBidId(id) <= GetLastBidId(id)'
<1> DEFINE Grow == /\ GetLastAuctionId' \in Nat
                   /\ GetLastAuctionId <= GetLastAuctionId'
                   /\ \A id \in Uint64 : /\ GetLastBidId(id)' \in Nat
                                         /\ GetLastBidId(id) <= GetLastBidId(id)'
<1>1. /\ GetLastAuctionId \in Nat
      /\ \A id \in Uint64 : GetLastBidId(id) \in Nat
  BY IdsInUse DEF StoreInv
<1>2. ASSUME Same(18), GetLastAuctionId' \in {GetLastAuctionId, GetLastAuctionId + 1}
      PROVE  Grow
  BY <1>1, <1>2, SameRecords
<1>3. ASSUME Same(17), Same(18) PROVE Grow BY <1>2, <1>3, SameRecords
<1>4. ASSUME NEW type \in {"FixedPrice", "Batch"},
             NEW status \in {"StandBy", "Started"}, CreateAuction(type, status)
      PROVE  Grow
  <2>1. SameBut({17, 33}) /\ GetLastAuctionId' = GetLastAuctionId + 1
    BY <1>4, CreateAuctionWrites
  <2>2. Same(18) BY <2>1 DEF SameBut
  <2> QED BY <1>2, <2>1, <2>2
<1>5. ASSUME NEW id \in Ids, NEW status, SetStatus(id, status) PROVE Grow
  <2>1. SameBut({33}) BY <1>5, SetStatusWrites
  <2>2. Same(17) /\ Same(18) BY <2>1 DEF SameBut
  <2> QED BY <1>3, <2>2
<1>6. ASSUME NEW id \in Ids, NEW a \in Addresses, NEW max, AllowBidder(id, a, max)
      PROVE  Grow
  <2>1. SameBut({34}) BY <1>6, AllowBidderWrites
  <2>2. Same(17) /\ Same(18) BY <2>1 DEF SameBut
  <2> QED BY <1>3, <2>2
<1>7. ASSUME NEW id \in Ids, NEW a \in Addresses, PlaceBid(id, a) PROVE Grow
  <2>1. SameBut({18, 49, 50}) /\ GetLastBidId(id)' = GetLastBidId(id) + 1
    BY <1>7, PlaceBidWrites
  <2>2. GetLastAuctionId' = GetLastAuctionId BY <2>1, SameRecords DEF SameBut
  <2>3. \A j \in Uint64 : j # id => GetLastBidId(j)' = GetLastBidId(j)
    BY <1>7, OtherBidIds
  <2>4. id \in Uint64 BY AuctionInUse
  <2> QED BY <1>1, <2>1, <2>2, <2>3, <2>4
<1>8. ASSUME NEW id \in Ids, NEW ks \in SUBSET (1..GetLastBidId(id)),
             MatchBids(id, ks)
      PROVE  Grow
  <2>1. SameBut({49, 50, 51}) BY <1>8, MatchBidsWrites
  <2>2. Same(17) /\ Same(18) BY <2>1 DEF SameBut
  <2> QED BY <1>3, <2>2
<1>9. ASSUME NEW id \in Ids, NEW ts \in SUBSET Times, Vest(id, ts) PROVE Grow
  <2>1. SameBut({33, 65}) BY <1>9, VestWrites
  <2>2. Same(17) /\ Same(18) BY <2>1 DEF SameBut
  <2> QED BY <1>3, <2>2
<1>10. ASSUME NEW id \in Ids, NEW i \in 1..Len(GetVestingQueuesByAuctionId(id)),
              Release(id, i)
       PROVE  Grow
  <2>1. SameBut({33, 65}) BY <1>10, ReleaseWrites
  <2>2. Same(17) /\ Same(18) BY <2>1 DEF SameBut
  <2> QED BY <1>3, <2>2
<1>11. ASSUME UNCHANGED kv PROVE Grow
  BY <1>1, <1>11 DEF GetLastAuctionId, GetLastBidId, Number, Has
<1> HIDE DEF Grow
<1>12. Grow
  BY <1>4, <1>5, <1>6, <1>7, <1>8, <1>9, <1>10, <1>11 DEF Write
<1> QED BY <1>1, <1>12 DEF Grow

LEMMA EntriesInvInit == Init => EntriesInv
<1> SUFFICES ASSUME Init PROVE EntriesInv OBVIOUS
<1>1. DOMAIN kv = {} BY DEF Init
<1>2. IsFiniteSet(DOMAIN kv) BY <1>1, FS_EmptySet
<1>3. AllowedOk /\ OwnersOk /\ CountersOk
  BY <1>1 DEF AllowedOk, OwnersOk, CountersOk, GetLastBidId, Number, Has
<1> QED BY <1>2, <1>3, StoreInvInit DEF EntriesInv

-----------------------------------------------------------------------------
(***************************************************************************)
(* Iterations by other prefixes.                                           *)
(***************************************************************************)

\* An iteration has the value of every key it finds, in the order of the keys.
LEMMA Iterates ==
  ASSUME EntriesInv, NEW prefix
  PROVE  LET S == Found(prefix)
             n == Cardinality(S)
             keys == KVStorePrefixIterator(prefix)
         IN  /\ S \in SUBSET Seq(Nat) /\ S \subseteq Keys /\ IsFiniteSet(S)
             /\ n \in Nat /\ keys \in [1..n -> S] /\ keys \in Seq(S)
             /\ Len(keys) = n /\ ToSet(keys) = S
             /\ \A i, j \in 1..n : Before(keys[i], keys[j]) <=> i <= j
             /\ \A i, j \in 1..n : keys[i] = keys[j] => i = j
             /\ Iterate(prefix) = [i \in 1..n |-> kv[keys[i]]]
             /\ Len(Iterate(prefix)) = n
             /\ ToSet(Iterate(prefix)) = {kv[key] : key \in S}
<1> DEFINE S == Found(prefix)
           n == Cardinality(S)
           keys == KVStorePrefixIterator(prefix)
<1>1. S \subseteq DOMAIN kv /\ DOMAIN kv \subseteq Keys /\ IsFiniteSet(DOMAIN kv)
  BY DEF Found, EntriesInv, StoreInv
<1>2. S \in SUBSET Seq(Nat) /\ IsFiniteSet(S)
  <2>1. Keys \subseteq Seq(Nat) BY KeyKinds
  <2> QED BY <1>1, <2>1, FS_Subset
<1>3. keys = InOrder(S) BY DEF KVStorePrefixIterator
<1> HIDE DEF S, keys
<1>4. /\ n \in Nat /\ keys \in [1..n -> S] /\ keys \in Seq(S)
      /\ Len(keys) = n /\ ToSet(keys) = S
      /\ \A i, j \in 1..n : Before(keys[i], keys[j]) <=> i <= j
      /\ \A i, j \in 1..n : keys[i] = keys[j] => i = j
  BY <1>2, <1>3, KeysInOrder
<1> HIDE DEF n
<1>5. Iterate(prefix) = [i \in 1..n |-> kv[keys[i]]] BY <1>4 DEF Iterate, keys
<1>6. Len(Iterate(prefix)) = n BY <1>4, <1>5
<1>7. ToSet(Iterate(prefix)) = {kv[key] : key \in S}
  <2>1. ToSet(Iterate(prefix)) = {kv[keys[i]] : i \in 1..n} BY <1>5 DEF ToSet
  <2>2. S = {keys[i] : i \in 1..n} BY <1>4 DEF ToSet
  <2> QED BY <2>1, <2>2
<1> QED BY <1>1, <1>2, <1>4, <1>5, <1>6, <1>7 DEF S, n, keys

LEMMA AllBids ==
  ASSUME EntriesInv
  PROVE  /\ ToSet(GetBids) =
              {kv[GetBidKey(ids[1], ids[2])] :
                 ids \in {x \in Uint64 \X Uint64 : Has(GetBidKey(x[1], x[2]))}}
         /\ BidsInOrder(GetBids)
<1> DEFINE S == Found(BidKeyPrefix)
           n == Cardinality(S)
           keys == KVStorePrefixIterator(BidKeyPrefix)
           P == {x \in Uint64 \X Uint64 : Has(GetBidKey(x[1], x[2]))}
<1>1. StoreInv BY DEF EntriesInv
<1>2. S = {GetBidKey(id, k) : id, k \in Uint64} \cap DOMAIN kv
  BY <1>1, StoreInvFinds DEF PrefixesAreExact
<1>3. /\ n \in Nat /\ keys \in [1..n -> S] /\ Len(GetBids) = n
      /\ \A i, j \in 1..n : Before(keys[i], keys[j]) <=> i <= j
      /\ GetBids = [i \in 1..n |-> kv[keys[i]]]
      /\ ToSet(GetBids) = {kv[key] : key \in S}
  BY Iterates DEF GetBids
<1>4. S = {GetBidKey(x[1], x[2]) : x \in P}
  <2>1. ASSUME NEW key \in S PROVE \E x \in P : key = GetBidKey(x[1], x[2])
    <3>1. PICK id \in Uint64, k \in Uint64 : key = GetBidKey(id, k) BY <1>2
    <3>2. <<id, k>> \in P BY <1>2, <3>1 DEF Has
    <3> QED BY <3>1, <3>2
  <2>2. \A x \in P : GetBidKey(x[1], x[2]) \in S BY <1>2 DEF Has
  <2> QED BY <2>1, <2>2
<1> HIDE DEF S, n, keys, P
<1>5. ToSet(GetBids) = {kv[GetBidKey(x[1], x[2])] : x \in P} BY <1>3, <1>4
<1>6. ASSUME NEW i \in 1..n, NEW j \in 1..n, i < j
      PROVE  \/ GetBids[i].auctionId < GetBids[j].auctionId
             \/ /\ GetBids[i].auctionId = GetBids[j].auctionId
                /\ GetBids[i].id < GetBids[j].id
  <2>1. keys[i] \in S /\ keys[j] \in S BY <1>3
  <2>2. PICK id \in Uint64, k \in Uint64 :
          keys[i] = GetBidKey(id, k) /\ Has(GetBidKey(id, k))
    BY <1>2, <2>1 DEF Has
  <2>3. PICK m \in Uint64, l \in Uint64 :
          keys[j] = GetBidKey(m, l) /\ Has(GetBidKey(m, l))
    BY <1>2, <2>1 DEF Has
  <2>4. id \in Nat /\ k \in Nat /\ m \in Nat /\ l \in Nat
    BY <1>1, IdsInUse DEF StoreInv
  <2>5. GetBids[i] = kv[GetBidKey(id, k)] /\ GetBids[j] = kv[GetBidKey(m, l)]
    BY <1>3, <2>2, <2>3
  <2>6. /\ GetBids[i].auctionId = id /\ GetBids[i].id = k
        /\ GetBids[j].auctionId = m /\ GetBids[j].id = l
    BY <1>1, <2>2, <2>3, <2>5 DEF StoreInv, BidsOk, BidOf
  <2>7. ~Before(GetBidKey(m, l), GetBidKey(id, k))
    <3>1. ~(j <= i) BY <1>3, <1>6
    <3> QED BY <1>3, <2>2, <2>3, <3>1
  <2>8. ~(m < id \/ (m = id /\ l <= k)) BY <2>7, OrderOfKeys
  <2> QED BY <2>4, <2>6, <2>8
<1> QED BY <1>3, <1>5, <1>6 DEF BidsInOrder, P

LEMMA AllQueues ==
  ASSUME EntriesInv
  PROVE  /\ ToSet(GetVestingQueues) =
              {kv[GetVestingQueueKey(ids[1], ids[2])] :
                 ids \in {x \in Uint64 \X Uint64 :
                            Has(GetVestingQueueKey(x[1], x[2]))}}
         /\ QueuesInOrder(GetVestingQueues)
<1> DEFINE S == Found(VestingQueueKeyPrefix)
           n == Cardinality(S)
           keys == KVStorePrefixIterator(VestingQueueKeyPrefix)
           P == {x \in Uint64 \X Uint64 : Has(GetVestingQueueKey(x[1], x[2]))}
           qs == GetVestingQueues
<1>1. StoreInv BY DEF EntriesInv
<1>2. S = {GetVestingQueueKey(id, t) : id, t \in Uint64} \cap DOMAIN kv
  BY <1>1, StoreInvFinds DEF PrefixesAreExact
<1>3. /\ n \in Nat /\ keys \in [1..n -> S] /\ Len(qs) = n
      /\ \A i, j \in 1..n : Before(keys[i], keys[j]) <=> i <= j
      /\ qs = [i \in 1..n |-> kv[keys[i]]]
      /\ ToSet(qs) = {kv[key] : key \in S}
  BY Iterates DEF GetVestingQueues
<1>4. S = {GetVestingQueueKey(x[1], x[2]) : x \in P}
  <2>1. ASSUME NEW key \in S
        PROVE  \E x \in P : key = GetVestingQueueKey(x[1], x[2])
    <3>1. PICK id \in Uint64, t \in Uint64 : key = GetVestingQueueKey(id, t)
      BY <1>2
    <3>2. <<id, t>> \in P BY <1>2, <3>1 DEF Has
    <3> QED BY <3>1, <3>2
  <2>2. \A x \in P : GetVestingQueueKey(x[1], x[2]) \in S BY <1>2 DEF Has
  <2> QED BY <2>1, <2>2
<1> HIDE DEF S, n, keys, P
<1>5. ToSet(qs) = {kv[GetVestingQueueKey(x[1], x[2])] : x \in P} BY <1>3, <1>4
<1>6. ASSUME NEW i \in 1..n, NEW j \in 1..n, i < j
      PROVE  \/ qs[i].auctionId < qs[j].auctionId
             \/ /\ qs[i].auctionId = qs[j].auctionId
                /\ qs[i].releaseTime < qs[j].releaseTime
  <2>1. keys[i] \in S /\ keys[j] \in S BY <1>3
  <2>2. PICK id \in Uint64, k \in Uint64 :
          keys[i] = GetVestingQueueKey(id, k) /\ Has(GetVestingQueueKey(id, k))
    BY <1>2, <2>1 DEF Has
  <2>3. PICK m \in Uint64, l \in Uint64 :
          keys[j] = GetVestingQueueKey(m, l) /\ Has(GetVestingQueueKey(m, l))
    BY <1>2, <2>1 DEF Has
  <2>4. id \in Nat /\ k \in Nat /\ m \in Nat /\ l \in Nat
    BY <1>1, IdsInUse DEF StoreInv
  <2>5. qs[i] = kv[GetVestingQueueKey(id, k)] /\ qs[j] = kv[GetVestingQueueKey(m, l)]
    BY <1>3, <2>2, <2>3
  <2>6. /\ qs[i].auctionId = id /\ qs[i].releaseTime = k
        /\ qs[j].auctionId = m /\ qs[j].releaseTime = l
    BY <1>1, <2>2, <2>3, <2>5 DEF StoreInv, QueuesOk, QueueOf
  <2>7. ~Before(GetVestingQueueKey(m, l), GetVestingQueueKey(id, k))
    <3>1. ~(j <= i) BY <1>3, <1>6
    <3> QED BY <1>3, <2>2, <2>3, <3>1
  <2>8. ~(m < id \/ (m = id /\ l <= k)) BY <2>7, OrderOfKeys
  <2> HIDE DEF qs
  <2> QED BY <2>4, <2>6, <2>8
<1> HIDE DEF qs
<1>7. QueuesInOrder(qs) BY <1>3, <1>6 DEF QueuesInOrder
<1> QED BY <1>5, <1>7 DEF qs, P

LEMMA BidsByAuction ==
  ASSUME EntriesInv
  PROVE  ToSet(GetBids) = UNION {ToSet(GetBidsByAuctionId(id)) : id \in AuctionIds}
<1> DEFINE S(id) == Found(GetBidByAuctionIdPrefix(id))
           of(id) == ToSet(GetBidsByAuctionId(id))
<1>1. StoreInv BY DEF EntriesInv
<1>2. AuctionIds \subseteq Uint64 /\ Ids \subseteq AuctionIds
  BY <1>1, IdsInUse DEF StoreInv
<1>3. ASSUME NEW id \in Uint64
      PROVE  /\ of(id) = {kv[key] : key \in S(id)}
             /\ S(id) = {GetBidKey(id, k) : k \in Uint64} \cap DOMAIN kv
  <2>1. of(id) = {kv[key] : key \in S(id)} BY Iterates DEF GetBidsByAuctionId
  <2>2. S(id) = {GetBidKey(id, k) : k \in Uint64} \cap DOMAIN kv
    BY <1>1, StoreInvFinds DEF PrefixesAreExact
  <2> QED BY <2>1, <2>2
<1> HIDE DEF S, of
<1>4. ASSUME NEW bid \in ToSet(GetBids)
      PROVE  \E id \in AuctionIds : bid \in of(id)
  <2>1. PICK x \in Uint64 \X Uint64 :
          Has(GetBidKey(x[1], x[2])) /\ bid = kv[GetBidKey(x[1], x[2])]
    BY AllBids
  <2>2. x[1] \in Uint64 /\ x[2] \in Uint64 OBVIOUS
  <2>3. x[1] \in AuctionIds
    <3>1. x[2] \in 1..GetLastBidId(x[1]) BY <1>1, <2>1, <2>2 DEF StoreInv, BidsOk
    <3>2. GetLastBidId(x[1]) # 0 BY <3>1
    <3> QED BY <1>2, <2>2, <3>2 DEF EntriesInv, OwnersOk
  <2>4. GetBidKey(x[1], x[2]) \in S(x[1]) BY <1>3, <2>1, <2>2 DEF Has
  <2>5. bid \in of(x[1]) BY <1>3, <2>1, <2>2, <2>4
  <2> QED BY <2>3, <2>5
<1>5. ASSUME NEW id \in AuctionIds, NEW bid \in of(id) PROVE bid \in ToSet(GetBids)
  <2>1. id \in Uint64 BY <1>2
  <2>2. PICK k \in Uint64 : Has(GetBidKey(id, k)) /\ bid = kv[GetBidKey(id, k)]
    BY <1>3, <2>1 DEF Has
  <2> DEFINE x == <<id, k>>
  <2>3. x \in Uint64 \X Uint64 /\ x[1] = id /\ x[2] = k BY <2>1
  <2> HIDE DEF x
  <2> QED BY <2>2, <2>3, AllBids
<1>6. ToSet(GetBids) = UNION {of(id) : id \in AuctionIds} BY <1>4, <1>5
<1> QED BY <1>6 DEF of

LEMMA QueuesByAuction ==
  ASSUME EntriesInv
  PROVE  ToSet(GetVestingQueues) =
           UNION {ToSet(GetVestingQueuesByAuctionId(id)) : id \in AuctionIds}
<1> DEFINE S(id) == Found(GetVestingQueueByAuctionIdPrefix(id))
           of(id) == ToSet(GetVestingQueuesByAuctionId(id))
<1>1. StoreInv BY DEF EntriesInv
<1>2. AuctionIds \subseteq Uint64 /\ Ids \subseteq AuctionIds
  BY <1>1, IdsInUse DEF StoreInv
<1>3. ASSUME NEW id \in Uint64
      PROVE  /\ of(id) = {kv[key] : key \in S(id)}
             /\ S(id) = {GetVestingQueueKey(id, t) : t \in Uint64} \cap DOMAIN kv
  <2>1. of(id) = {kv[key] : key \in S(id)}
    BY Iterates DEF GetVestingQueuesByAuctionId
  <2>2. S(id) = {GetVestingQueueKey(id, t) : t \in Uint64} \cap DOMAIN kv
    BY <1>1, StoreInvFinds DEF PrefixesAreExact
  <2> QED BY <2>1, <2>2
<1> HIDE DEF S, of
<1>4. ASSUME NEW queue \in ToSet(GetVestingQueues)
      PROVE  \E id \in AuctionIds : queue \in of(id)
  <2>1. PICK x \in Uint64 \X Uint64 :
          /\ Has(GetVestingQueueKey(x[1], x[2]))
          /\ queue = kv[GetVestingQueueKey(x[1], x[2])]
    BY AllQueues
  <2>2. x[1] \in Uint64 /\ x[2] \in Uint64 OBVIOUS
  <2>3. x[1] \in AuctionIds BY <1>1, <1>2, <2>1, <2>2 DEF StoreInv, QueuesOk
  <2>4. GetVestingQueueKey(x[1], x[2]) \in S(x[1]) BY <1>3, <2>1, <2>2 DEF Has
  <2>5. queue \in of(x[1]) BY <1>3, <2>1, <2>2, <2>4
  <2> QED BY <2>3, <2>5
<1>5. ASSUME NEW id \in AuctionIds, NEW queue \in of(id)
      PROVE  queue \in ToSet(GetVestingQueues)
  <2>1. id \in Uint64 BY <1>2
  <2>2. PICK t \in Uint64 : /\ Has(GetVestingQueueKey(id, t))
                            /\ queue = kv[GetVestingQueueKey(id, t)]
    BY <1>3, <2>1 DEF Has
  <2> DEFINE x == <<id, t>>
  <2>3. x \in Uint64 \X Uint64 /\ x[1] = id /\ x[2] = t BY <2>1
  <2> HIDE DEF x
  <2> QED BY <2>2, <2>3, AllQueues
<1>6. ToSet(GetVestingQueues) = UNION {of(id) : id \in AuctionIds} BY <1>4, <1>5
<1> QED BY <1>6 DEF of

LEMMA AllowedByAuction ==
  ASSUME EntriesInv, NEW id \in AuctionIds
  PROVE  ToSet(GetAllowedBiddersByAuction(id)) =
           {[bidder |-> a, maxBidAmount |-> MaxBidAmountOf(id, a)] :
              a \in {b \in Addresses : Has(GetAllowedBidderKey(id, b))}}
<1> DEFINE S == Found(GetAllowedBiddersByAuctionKeyPrefix(id))
           A == {b \in Addresses : Has(GetAllowedBidderKey(id, b))}
           key(a) == GetAllowedBidderKey(id, a)
           entry(a) == [bidder |-> a, maxBidAmount |-> MaxBidAmountOf(id, a)]
<1>1. StoreInv BY DEF EntriesInv
<1>2. id \in Uint64 BY <1>1, IdsInUse DEF StoreInv
<1>3. ToSet(GetAllowedBiddersByAuction(id)) = {kv[k] : k \in S}
  BY Iterates DEF GetAllowedBiddersByAuction
<1>4. S = {key(a) : a \in Addresses} \cap DOMAIN kv
  BY <1>1, <1>2, StoreInvFinds DEF PrefixesAreExact
<1>5. S = {key(a) : a \in A} BY <1>4 DEF Has
<1>6. \A a \in A : kv[key(a)] = entry(a) BY <1>2 DEF EntriesInv, AllowedOk
<1> HIDE DEF S, A, key, entry
<1>7. {kv[k] : k \in S} = {entry(a) : a \in A} BY <1>5, <1>6
<1> QED BY <1>3, <1>7 DEF entry, A

LEMMA BidsByBidder ==
  ASSUME EntriesInv, NEW a \in Addresses, Len(a) + 2 + IdBytes < 256
  PROVE  /\ ToSet(GetBidsByBidder(a)) = {bid \in ToSet(GetBids) : bid.bidder = a}
         /\ BidsInOrder(GetBidsByBidder(a))
<1> DEFINE prefix == GetBidIndexByBidderPrefix(a)
           S == Found(prefix)
           n == Cardinality(S)
           keys == KVStorePrefixIterator(prefix)
           bids == GetBidsByBidder(a)
<1>1. StoreInv /\ IndexIsExact BY StoreInvIndex DEF EntriesInv
<1>2. S = {GetBidIndexKey(a, id, k) : id, k \in Uint64} \cap DOMAIN kv
  BY <1>1, StoreInvFinds DEF PrefixesAreExact
<1>3. /\ n \in Nat /\ keys \in [1..n -> S] /\ Len(keys) = n /\ ToSet(keys) = S
      /\ \A i, j \in 1..n : Before(keys[i], keys[j]) <=> i <= j
  BY Iterates
<1> HIDE DEF S, n, keys
<1>4. bids = [i \in 1..n |-> LET ids == ParseBidIndexKey(keys[i])
                             IN  GetBid(ids[1], ids[2])]
  BY <1>3 DEF GetBidsByBidder, keys
<1>5. Len(bids) = n BY <1>3, <1>4
<1>6. ASSUME NEW i \in 1..n, NEW id \in Uint64, NEW k \in Uint64,
             keys[i] = GetBidIndexKey(a, id, k)
      PROVE  /\ Has(GetBidKey(id, k)) /\ bids[i] = kv[GetBidKey(id, k)]
             /\ bids[i].bidder = a /\ bids[i].auctionId = id /\ bids[i].id = k
  <2>1. Has(GetBidIndexKey(a, id, k)) BY <1>2, <1>3, <1>6 DEF Has
  <2>2. /\ Has(GetBidKey(id, k)) /\ GetBid(id, k).bidder = a
        /\ ParseBidIndexKey(GetBidIndexKey(a, id, k)) = <<id, k>>
    BY <1>1, <2>1 DEF IndexIsExact
  <2>3. bids[i] = GetBid(id, k) BY <1>4, <1>6, <2>2
  <2>4. GetBid(id, k) = kv[GetBidKey(id, k)] BY <2>2 DEF GetBid
  <2>5. kv[GetBidKey(id, k)] \in BidOf(id, k) BY <1>1, <2>2 DEF StoreInv, BidsOk
  <2> QED BY <2>2, <2>3, <2>4, <2>5 DEF BidOf
<1> HIDE DEF bids
<1>7. ASSUME NEW bid, bid \in ToSet(bids)
      PROVE  bid \in ToSet(GetBids) /\ bid.bidder = a
  <2>1. PICK i \in 1..n : bid = bids[i] BY <1>4, <1>7 DEF ToSet, bids
  <2>2. PICK id \in Uint64, k \in Uint64 : keys[i] = GetBidIndexKey(a, id, k)
    BY <1>2, <1>3
  <2>3. /\ Has(GetBidKey(id, k)) /\ bid = kv[GetBidKey(id, k)]
        /\ bid.bidder = a
    BY <1>6, <2>1, <2>2
  <2> DEFINE x == <<id, k>>
  <2>4. x \in Uint64 \X Uint64 /\ x[1] = id /\ x[2] = k OBVIOUS
  <2> HIDE DEF x
  <2> QED BY <2>3, <2>4, AllBids
<1>8. ASSUME NEW bid \in ToSet(GetBids), bid.bidder = a PROVE bid \in ToSet(bids)
  <2>1. PICK x \in Uint64 \X Uint64 :
          Has(GetBidKey(x[1], x[2])) /\ bid = kv[GetBidKey(x[1], x[2])]
    BY AllBids
  <2>2. x[1] \in Uint64 /\ x[2] \in Uint64 OBVIOUS
  <2>3. Has(GetBidIndexKey(a, x[1], x[2]))
    BY <1>1, <1>8, <2>1, <2>2 DEF StoreInv, IndexOk
  <2>4. GetBidIndexKey(a, x[1], x[2]) \in S BY <1>2, <2>2, <2>3 DEF Has
  <2>5. PICK i \in 1..n : keys[i] = GetBidIndexKey(a, x[1], x[2])
    BY <1>3, <2>4 DEF ToSet
  <2>6. bids[i] = bid BY <1>6, <2>1, <2>2, <2>5
  <2>7. DOMAIN bids = 1..n BY <1>4 DEF bids
  <2> QED BY <2>6, <2>7 DEF ToSet
<1>9. ASSUME NEW i \in 1..n, NEW j \in 1..n, i < j
      PROVE  \/ bids[i].auctionId < bids[j].auctionId
             \/ /\ bids[i].auctionId = bids[j].auctionId
                /\ bids[i].id < bids[j].id
  <2>1. PICK id \in Uint64, k \in Uint64 : keys[i] = GetBidIndexKey(a, id, k)
    BY <1>2, <1>3
  <2>2. PICK m \in Uint64, l \in Uint64 : keys[j] = GetBidIndexKey(a, m, l)
    BY <1>2, <1>3
  <2>3. id \in Nat /\ k \in Nat /\ m \in Nat /\ l \in Nat
    BY <1>1, IdsInUse DEF StoreInv
  <2>4. /\ bids[i].auctionId = id /\ bids[i].id = k
        /\ bids[j].auctionId = m /\ bids[j].id = l
    BY <1>6, <2>1, <2>2
  <2>5. ~Before(GetBidIndexKey(a, m, l), GetBidIndexKey(a, id, k))
    <3>1. ~(j <= i) BY <1>3, <1>9
    <3> QED BY <1>3, <2>1, <2>2, <3>1
  <2>6. ~(m < id \/ (m = id /\ l <= k)) BY <2>5, OrderOfKeys
  <2> QED BY <2>3, <2>4, <2>6
<1>10. BidsInOrder(bids) BY <1>5, <1>9 DEF BidsInOrder, bids
<1>11. ToSet(bids) = {bid \in ToSet(GetBids) : bid.bidder = a} BY <1>7, <1>8
<1> QED BY <1>10, <1>11 DEF bids

LEMMA EntriesInvAgree == EntriesInv => IterationsAgree
BY AllBids, AllQueues, BidsByAuction, QueuesByAuction, AllowedByAuction,
   BidsByBidder
   DEF IterationsAgree

-----------------------------------------------------------------------------
(***************************************************************************)
(* A restart.                                                              *)
(***************************************************************************)

\* The auctions of the export are those of the store, each under its id.
LEMMA ExportedAuctions ==
  ASSUME StoreInv
  PROVE  /\ Len(GetAuctions) = GetLastAuctionId
         /\ \A auction : auction \in ToSet(GetAuctions) <=>
                           \E id \in Ids : auction = kv[GetAuctionKey(id)]
         /\ \A id \in Ids : /\ id \in Uint64 /\ GetAuctionKey(id) \in DOMAIN kv
                            /\ kv[GetAuctionKey(id)].id = id
<1>1. GetLastAuctionId \in Nat BY IdsInUse DEF StoreInv
<1>2. GetAuctions = [i \in Ids |-> kv[GetAuctionKey(i)]] BY AuctionList DEF Ids
<1>3. Len(GetAuctions) = GetLastAuctionId BY <1>1, <1>2 DEF Ids
<1>4. ToSet(GetAuctions) = {kv[GetAuctionKey(i)] : i \in Ids} BY <1>2 DEF ToSet
<1>5. \A id \in Ids : /\ id \in Uint64 /\ GetAuctionKey(id) \in DOMAIN kv
                      /\ kv[GetAuctionKey(id)].id = id
  BY AuctionInUse DEF GetAuction, Has
<1> QED BY <1>3, <1>4, <1>5

\* So are the entries of the allowed bidders.
LEMMA ExportedBidders ==
  ASSUME EntriesInv
  PROVE  \A r : r \in ExportGenesis.allowedBidderRecords <=>
           \E id \in Ids, a \in Addresses :
             /\ GetAllowedBidderKey(id, a) \in DOMAIN kv
             /\ kv[GetAllowedBidderKey(id, a)].bidder = a
             /\ r = [auctionId |-> id, allowedBidder |-> kv[GetAllowedBidderKey(id, a)]]
<1> DEFINE entryOf(id, a) == kv[GetAllowedBidderKey(id, a)]
           of(id) == ToSet(GetAllowedBiddersByAuction(id))
           rec(id, entry) == [auctionId |-> id, allowedBidder |-> entry]
<1>1. StoreInv BY DEF EntriesInv
<1>2. \A id \in Ids : id \in Uint64 /\ id \in AuctionIds BY <1>1, AuctionInUse
<1>3. ASSUME NEW id \in Ids, NEW a \in Addresses,
             GetAllowedBidderKey(id, a) \in DOMAIN kv
      PROVE  /\ entryOf(id, a) = [bidder |-> a, maxBidAmount |-> MaxBidAmountOf(id, a)]
             /\ entryOf(id, a).bidder = a
  <2>1. entryOf(id, a) = [bidder |-> a, maxBidAmount |-> MaxBidAmountOf(id, a)]
    BY <1>2, <1>3 DEF EntriesInv, AllowedOk, Has
  <2> QED BY <2>1
<1>4. ASSUME NEW id \in Ids, NEW entry
      PROVE  entry \in of(id) <=>
               \E a \in Addresses : /\ GetAllowedBidderKey(id, a) \in DOMAIN kv
                                    /\ entry = entryOf(id, a)
  <2>1. of(id) = {[bidder |-> a, maxBidAmount |-> MaxBidAmountOf(id, a)] :
                    a \in {b \in Addresses : Has(GetAllowedBidderKey(id, b))}}
    BY <1>2, AllowedByAuction
  <2> HIDE DEF of, entryOf
  <2> QED BY <1>3, <2>1 DEF Has
<1>5. ASSUME NEW r
      PROVE  r \in ExportGenesis.allowedBidderRecords <=>
               \E id \in Ids : \E entry \in of(id) : r = rec(id, entry)
  <2> DEFINE recs(auction) == {rec(auction.id, entry) : entry \in of(auction.id)}
             auctions == ToSet(GetAuctions)
  <2>1. ExportGenesis.allowedBidderRecords =
          UNION {recs(auction) : auction \in auctions}
    BY DEF ExportGenesis
  <2> HIDE DEF of, rec
  <2>2. r \in ExportGenesis.allowedBidderRecords <=>
          \E auction \in auctions :
            \E entry \in of(auction.id) : r = rec(auction.id, entry)
    <3>1. \A auction \in auctions :
            r \in recs(auction) <=> \E entry \in of(auction.id) :
                                     r = rec(auction.id, entry)
      OBVIOUS
    <3> HIDE DEF recs, auctions
    <3>2. r \in ExportGenesis.allowedBidderRecords <=>
            \E auction \in auctions : r \in recs(auction)
      BY <2>1
    <3> QED BY <3>1, <3>2
  <2>3. \A id \in Ids : kv[GetAuctionKey(id)] \in ToSet(GetAuctions)
    BY <1>1, ExportedAuctions
  <2> QED BY <1>1, <2>2, <2>3, ExportedAuctions
<1> HIDE DEF of, entryOf, rec
<1>6. ASSUME NEW r
      PROVE  r \in ExportGenesis.allowedBidderRecords <=>
               \E id \in Ids, a \in Addresses :
                 /\ GetAllowedBidderKey(id, a) \in DOMAIN kv
                 /\ entryOf(id, a).bidder = a
                 /\ r = rec(id, entryOf(id, a))
  BY <1>3, <1>4, <1>5
<1> QED BY <1>6 DEF entryOf, rec

\* As many bids of the export belong to an auction as it has bids.
LEMMA BidsAreCounted ==
  ASSUME EntriesInv, NEW id \in Uint64
  PROVE  CountBids(GetBids, id) = GetLastBidId(id)
<1> DEFINE bs == GetBids
           n == Len(bs)
           I == {i \in 1..n : bs[i].auctionId = id}
           K == 1..GetLastBidId(id)
           f == [i \in I |-> bs[i].id]
<1>1. StoreInv BY DEF EntriesInv
<1>2. GetLastBidId(id) \in Nat /\ K \subseteq Uint64 /\ Uint64 \subseteq Nat
  BY <1>1, IdsInUse DEF StoreInv
<1>3. n \in Nat /\ DOMAIN bs = 1..n /\ BidsInOrder(bs)
  <2>1. Cardinality(Found(BidKeyPrefix)) \in Nat BY Iterates
  <2>2. /\ n = Cardinality(Found(BidKeyPrefix))
        /\ DOMAIN bs = 1..Cardinality(Found(BidKeyPrefix))
    BY Iterates DEF GetBids
  <2> QED BY <2>1, <2>2, AllBids
<1>4. \A bid : bid \in ToSet(bs) <=>
        \E x \in Uint64 \X Uint64 : /\ Has(GetBidKey(x[1], x[2]))
                                    /\ bid = kv[GetBidKey(x[1], x[2])]
  BY AllBids
<1> HIDE DEF bs, n
<1>5. ASSUME NEW i \in I PROVE f[i] \in K
  <2>1. bs[i] \in ToSet(bs) BY <1>3 DEF ToSet
  <2>2. PICK x \in Uint64 \X Uint64 : /\ Has(GetBidKey(x[1], x[2]))
                                      /\ bs[i] = kv[GetBidKey(x[1], x[2])]
    BY <1>4, <2>1
  <2>3. x[1] \in Uint64 /\ x[2] \in Uint64 OBVIOUS
  <2>4. bs[i].auctionId = x[1] /\ bs[i].id = x[2] /\ x[2] \in 1..GetLastBidId(x[1])
    BY <1>1, <2>2, <2>3 DEF StoreInv, BidsOk, BidOf
  <2> QED BY <2>4
<1>6. ASSUME NEW k \in K PROVE \E i \in I : f[i] = k
  <2>1. k \in Uint64 /\ Has(GetBidKey(id, k)) BY <1>1, <1>2 DEF StoreInv, BidsOk
  <2> DEFINE x == <<id, k>>
             bid == kv[GetBidKey(id, k)]
  <2>2. bid.auctionId = id /\ bid.id = k BY <1>1, <2>1 DEF StoreInv, BidsOk, BidOf
  <2>3. x \in Uint64 \X Uint64 /\ x[1] = id /\ x[2] = k BY <2>1
  <2>4. bid \in ToSet(bs)
    <3> HIDE DEF x
    <3> QED BY <1>4, <2>1, <2>3
  <2> HIDE DEF bid
  <2>5. PICK i \in 1..n : bs[i] = bid BY <1>3, <2>4 DEF ToSet
  <2> QED BY <2>2, <2>5
<1>7. ASSUME NEW i \in I, NEW j \in I, f[i] = f[j] PROVE i = j
  <2>1. f[i] \in Nat BY <1>2, <1>5
  <2>2. id \in Nat BY <1>2
  <2>3. i \in 1..n /\ j \in 1..n /\ bs[i].auctionId = id /\ bs[j].auctionId = id
        /\ f[i] = bs[i].id /\ f[j] = bs[j].id
    OBVIOUS
  <2>4. ~(i < j) /\ ~(j < i)
    BY <1>3, <1>7, <2>1, <2>2, <2>3 DEF BidsInOrder, n
  <2> QED BY <1>3, <2>3, <2>4
<1>8. f \in Bijection(I, K)
  <2>1. f \in [I -> K] BY <1>5
  <2>2. \A i, j \in I : f[i] = f[j] => i = j BY <1>7
  <2>3. \A k \in K : \E i \in I : f[i] = k BY <1>6
  <2> HIDE DEF f, I, K
  <2> QED BY <2>1, <2>2, <2>3 DEF Bijection, Injection, Surjection, IsInjective
<1>9. IsFiniteSet(I)
  <2>1. IsFiniteSet(1..n) /\ I \subseteq 1..n BY <1>3, FS_Interval
  <2> QED BY <2>1, FS_Subset
<1>10. Cardinality(K) = GetLastBidId(id) BY <1>2, FS_Interval
<1>11. Cardinality(I) = Cardinality(K)
  <2> HIDE DEF I, K, f
  <2> QED BY <1>8, <1>9, FS_Bijection DEF ExistsBijection
<1> QED BY <1>10, <1>11 DEF CountBids, n, bs

\* What InitGenesis writes, by the lists of the export.
LEMMA ImportedIs ==
  ASSUME NEW gs, NEW e
  PROVE  e \in Imported(gs) <=>
           \/ \E auction \in ToSet(gs.auctions) :
                \/ e = <<LastAuctionIdKey, Len(gs.auctions)>>
                \/ e = <<GetAuctionKey(auction.id), auction>>
           \/ \E r \in gs.allowedBidderRecords :
                e = <<GetAllowedBidderKey(r.auctionId, r.allowedBidder.bidder),
                      r.allowedBidder>>
           \/ \E bid \in ToSet(gs.bids) :
                \/ e = <<GetLastBidIdKey(bid.auctionId),
                         CountBids(gs.bids, bid.auctionId)>>
                \/ e = <<GetBidKey(bid.auctionId, bid.id), bid>>
                \/ e = <<GetBidIndexKey(bid.bidder, bid.auctionId, bid.id), <<>>>>
           \/ \E queue \in ToSet(gs.vestingQueues) :
                e = <<GetVestingQueueKey(queue.auctionId, queue.releaseTime), queue>>
<1> DEFINE auctions == ToSet(gs.auctions)
           bids == ToSet(gs.bids)
           queues == ToSet(gs.vestingQueues)
           last == <<LastAuctionIdKey, Len(gs.auctions)>>
           ofAuction(auction) == <<GetAuctionKey(auction.id), auction>>
           ofBidder(r) == <<GetAllowedBidderKey(r.auctionId, r.allowedBidder.bidder),
                            r.allowedBidder>>
           ofBid(bid) == ImportedBid(gs, bid)
           ofQueue(queue) ==
             <<GetVestingQueueKey(queue.auctionId, queue.releaseTime), queue>>
<1>1. Imported(gs) = {last : auction \in auctions}
                     \cup {ofAuction(auction) : auction \in auctions}
                     \cup {ofBidder(r) : r \in gs.allowedBidderRecords}
                     \cup (UNION {ofBid(bid) : bid \in bids})
                     \cup {ofQueue(queue) : queue \in queues}
  BY DEF Imported
<1>2. ASSUME NEW bid
      PROVE  e \in ofBid(bid) <=>
        \/ e = <<GetLastBidIdKey(bid.auctionId), CountBids(gs.bids, bid.auctionId)>>
        \/ e = <<GetBidKey(bid.auctionId, bid.id), bid>>
        \/ e = <<GetBidIndexKey(bid.bidder, bid.auctionId, bid.id), <<>>>>
  BY DEF ImportedBid
<1> HIDE DEF last, ofAuction, ofBidder, ofBid, ofQueue, auctions, bids, queues
<1>3. e \in Imported(gs) <=>
        \/ \E auction \in auctions : e = last \/ e = ofAuction(auction)
        \/ \E r \in gs.allowedBidderRecords : e = ofBidder(r)
        \/ \E bid \in bids : e \in ofBid(bid)
        \/ \E queue \in queues : e = ofQueue(queue)
  BY <1>1
<1> QED BY <1>2, <1>3 DEF last, ofAuction, ofBidder, ofQueue, auctions, bids, queues

LEMMA ExportIs ==
  /\ ExportGenesis.auctions = GetAuctions
  /\ ExportGenesis.bids = GetBids
  /\ ExportGenesis.vestingQueues = GetVestingQueues
BY DEF ExportGenesis

\* The bids and the queues of the store, each under its own ids.
LEMMA ExportedBids ==
  ASSUME EntriesInv
  PROVE  /\ \A bid \in ToSet(GetBids) :
              \E id \in Uint64, k \in Uint64 :
                /\ Has(GetBidKey(id, k)) /\ bid = kv[GetBidKey(id, k)]
         /\ \A id, k \in Uint64 :
              Has(GetBidKey(id, k)) =>
                LET bid == kv[GetBidKey(id, k)]
                IN  /\ bid \in ToSet(GetBids)
                    /\ bid.auctionId = id /\ bid.id = k
                    /\ bid.bidder \in Addresses
                    /\ Has(GetBidIndexKey(bid.bidder, id, k))
                    /\ Has(GetLastBidIdKey(id))
                    /\ kv[GetLastBidIdKey(id)] = CountBids(GetBids, id)
<1>1. StoreInv BY DEF EntriesInv
<1>2. ASSUME NEW bid \in ToSet(GetBids)
      PROVE  \E id \in Uint64, k \in Uint64 :
               Has(GetBidKey(id, k)) /\ bid = kv[GetBidKey(id, k)]
  <2>1. PICK x \in Uint64 \X Uint64 :
          Has(GetBidKey(x[1], x[2])) /\ bid = kv[GetBidKey(x[1], x[2])]
    BY AllBids
  <2>2. x[1] \in Uint64 /\ x[2] \in Uint64 OBVIOUS
  <2> QED BY <2>1, <2>2
<1>3. ASSUME NEW id \in Uint64, NEW k \in Uint64, Has(GetBidKey(id, k))
      PROVE  LET bid == kv[GetBidKey(id, k)]
             IN  /\ bid \in ToSet(GetBids)
                 /\ bid.auctionId = id /\ bid.id = k
                 /\ bid.bidder \in Addresses
                 /\ Has(GetBidIndexKey(bid.bidder, id, k))
                 /\ Has(GetLastBidIdKey(id))
                 /\ kv[GetLastBidIdKey(id)] = CountBids(GetBids, id)
  <2> DEFINE bid == kv[GetBidKey(id, k)]
             x == <<id, k>>
  <2>1. bid \in BidOf(id, k) /\ k \in 1..GetLastBidId(id)
    BY <1>1, <1>3 DEF StoreInv, BidsOk
  <2>2. bid.auctionId = id /\ bid.id = k /\ bid.bidder \in Addresses
    BY <2>1 DEF BidOf
  <2>3. x \in Uint64 \X Uint64 /\ x[1] = id /\ x[2] = k OBVIOUS
  <2>4. bid \in ToSet(GetBids)
    <3> HIDE DEF x
    <3> QED BY <1>3, <2>3, AllBids
  <2>5. Has(GetBidIndexKey(bid.bidder, id, k))
    BY <1>1, <1>3, <2>2 DEF StoreInv, IndexOk
  <2>6. Has(GetLastBidIdKey(id)) /\ kv[GetLastBidIdKey(id)] = GetLastBidId(id)
    <3>1. GetLastBidId(id) # 0 BY <2>1
    <3> QED BY <3>1 DEF GetLastBidId, Number
  <2> HIDE DEF bid
  <2>7. kv[GetLastBidIdKey(id)] = CountBids(GetBids, id) BY <2>6, BidsAreCounted
  <2> QED BY <2>2, <2>4, <2>5, <2>6, <2>7 DEF bid
<1> QED BY <1>2, <1>3

LEMMA ExportedQueues ==
  ASSUME EntriesInv
  PROVE  /\ \A queue \in ToSet(GetVestingQueues) :
              \E id \in Uint64, t \in Uint64 :
                /\ Has(GetVestingQueueKey(id, t))
                /\ queue = kv[GetVestingQueueKey(id, t)]
         /\ \A id, t \in Uint64 :
              Has(GetVestingQueueKey(id, t)) =>
                LET queue == kv[GetVestingQueueKey(id, t)]
                IN  /\ queue \in ToSet(GetVestingQueues)
                    /\ queue.auctionId = id /\ queue.releaseTime = t
<1>1. StoreInv BY DEF EntriesInv
<1>2. ASSUME NEW queue \in ToSet(GetVestingQueues)
      PROVE  \E id \in Uint64, t \in Uint64 :
               /\ Has(GetVestingQueueKey(id, t))
               /\ queue = kv[GetVestingQueueKey(id, t)]
  <2>1. PICK x \in Uint64 \X Uint64 :
          /\ Has(GetVestingQueueKey(x[1], x[2]))
          /\ queue = kv[GetVestingQueueKey(x[1], x[2])]
    BY AllQueues
  <2>2. x[1] \in Uint64 /\ x[2] \in Uint64 OBVIOUS
  <2> QED BY <2>1, <2>2
<1>3. ASSUME NEW id \in Uint64, NEW t \in Uint64, Has(GetVestingQueueKey(id, t))
      PROVE  LET queue == kv[GetVestingQueueKey(id, t)]
             IN  /\ queue \in ToSet(GetVestingQueues)
                 /\ queue.auctionId = id /\ queue.releaseTime = t
  <2> DEFINE x == <<id, t>>
  <2>1. kv[GetVestingQueueKey(id, t)] \in QueueOf(id, t)
    BY <1>1, <1>3 DEF StoreInv, QueuesOk
  <2>2. x \in Uint64 \X Uint64 /\ x[1] = id /\ x[2] = t OBVIOUS
  <2> HIDE DEF x
  <2>3. kv[GetVestingQueueKey(id, t)] \in ToSet(GetVestingQueues)
    BY <1>3, <2>2, AllQueues
  <2> QED BY <2>1, <2>3 DEF QueueOf
<1> QED BY <1>2, <1>3

\* What is imported was in the store.
LEMMA ImportsTheOld ==
  ASSUME EntriesInv, NEW e \in Imported(ExportGenesis)
  PROVE  /\ e[1] \in DOMAIN kv /\ ~StartsWith(e[1], 51)
         /\ StartsWith(e[1], 50) \/ e[2] = kv[e[1]]
<1> DEFINE gs == ExportGenesis
           Ok == /\ e[1] \in DOMAIN kv /\ ~StartsWith(e[1], 51)
                 /\ StartsWith(e[1], 50) \/ e[2] = kv[e[1]]
<1>1. StoreInv BY DEF EntriesInv
<1>2. ASSUME NEW key, NEW value, e = <<key, value>>, Has(key), NEW b \in Nat \ {51},
             StartsWith(key, b), b = 50 \/ value = kv[key]
      PROVE  Ok
  <2>1. ~StartsWith(key, 51) BY <1>2, OneKind
  <2> QED BY <1>2, <2>1 DEF Has
<1> HIDE DEF Ok
<1>3. ASSUME NEW auction \in ToSet(gs.auctions),
             \/ e = <<LastAuctionIdKey, Len(gs.auctions)>>
             \/ e = <<GetAuctionKey(auction.id), auction>>
      PROVE  Ok
  <2>1. PICK id \in Ids : auction = kv[GetAuctionKey(id)]
    BY <1>1, ExportIs, ExportedAuctions
  <2>2. /\ id \in Uint64 /\ Has(GetAuctionKey(id)) /\ auction.id = id
        /\ Len(gs.auctions) = GetLastAuctionId
    BY <1>1, <2>1, ExportIs, ExportedAuctions DEF Has
  <2>3. GetLastAuctionId # 0
    <3>1. GetLastAuctionId \in Nat BY <1>1, IdsInUse DEF StoreInv
    <3> QED BY <3>1 DEF Ids
  <2>4. Has(LastAuctionIdKey) /\ kv[LastAuctionIdKey] = GetLastAuctionId
    BY <2>3 DEF GetLastAuctionId, Number
  <2>5. StartsWith(LastAuctionIdKey, 17) /\ StartsWith(GetAuctionKey(id), 33)
    BY <2>2, FirstBytes
  <2>6. 17 \in Nat \ {51} /\ 33 \in Nat \ {51} OBVIOUS
  <2> HIDE DEF gs
  <2>7. CASE e = <<LastAuctionIdKey, Len(gs.auctions)>>
    BY <1>2, <2>2, <2>4, <2>5, <2>6, <2>7
  <2>8. CASE e = <<GetAuctionKey(auction.id), auction>>
    BY <1>2, <2>1, <2>2, <2>5, <2>6, <2>8
  <2> QED BY <1>3, <2>7, <2>8
<1>4. ASSUME NEW r \in gs.allowedBidderRecords,
             e = <<GetAllowedBidderKey(r.auctionId, r.allowedBidder.bidder),
                   r.allowedBidder>>
      PROVE  Ok
  <2>1. PICK id \in Ids, a \in Addresses :
          /\ GetAllowedBidderKey(id, a) \in DOMAIN kv
          /\ kv[GetAllowedBidderKey(id, a)].bidder = a
          /\ r = [auctionId |-> id, allowedBidder |-> kv[GetAllowedBidderKey(id, a)]]
    BY ExportedBidders
  <2> DEFINE key == GetAllowedBidderKey(id, a)
             value == kv[key]
  <2>2. StartsWith(key, 34) BY <1>1, AuctionInUse, FirstBytes
  <2>3. r.auctionId = id /\ r.allowedBidder = value BY <2>1
  <2> HIDE DEF value
  <2>4. e = <<key, value>> BY <1>4, <2>1, <2>3 DEF value
  <2>5. Has(key) /\ value = kv[key] BY <2>1 DEF Has, value
  <2> HIDE DEF key
  <2>6. 34 \in Nat \ {51} OBVIOUS
  <2> QED BY <1>2, <2>2, <2>4, <2>5, <2>6
<1>5. ASSUME NEW bid \in ToSet(gs.bids),
             \/ e = <<GetLastBidIdKey(bid.auctionId),
                      CountBids(gs.bids, bid.auctionId)>>
             \/ e = <<GetBidKey(bid.auctionId, bid.id), bid>>
             \/ e = <<GetBidIndexKey(bid.bidder, bid.auctionId, bid.id), <<>>>>
      PROVE  Ok
  <2>1. gs.bids = GetBids BY ExportIs
  <2>2. PICK id \in Uint64, k \in Uint64 :
          Has(GetBidKey(id, k)) /\ bid = kv[GetBidKey(id, k)]
    BY <2>1, ExportedBids
  <2>3. /\ bid.auctionId = id /\ bid.id = k /\ bid.bidder \in Addresses
        /\ Has(GetBidIndexKey(bid.bidder, id, k)) /\ Has(GetLastBidIdKey(id))
        /\ kv[GetLastBidIdKey(id)] = CountBids(gs.bids, id)
    BY <2>1, <2>2, ExportedBids
  <2>4. /\ StartsWith(GetLastBidIdKey(id), 18) /\ StartsWith(GetBidKey(id, k), 49)
        /\ StartsWith(GetBidIndexKey(bid.bidder, id, k), 50)
    BY <2>3, FirstBytes
  <2>5. 18 \in Nat \ {51} /\ 49 \in Nat \ {51} /\ 50 \in Nat \ {51} OBVIOUS
  <2> HIDE DEF gs
  <2>6. CASE e = <<GetLastBidIdKey(bid.auctionId),
                   CountBids(gs.bids, bid.auctionId)>>
    BY <1>2, <2>3, <2>4, <2>5, <2>6
  <2>7. CASE e = <<GetBidKey(bid.auctionId, bid.id), bid>>
    BY <1>2, <2>2, <2>3, <2>4, <2>5, <2>7
  <2>8. CASE e = <<GetBidIndexKey(bid.bidder, bid.auctionId, bid.id), <<>>>>
    BY <1>2, <2>3, <2>4, <2>5, <2>8
  <2> QED BY <1>5, <2>6, <2>7, <2>8
<1>6. ASSUME NEW queue \in ToSet(gs.vestingQueues),
             e = <<GetVestingQueueKey(queue.auctionId, queue.releaseTime), queue>>
      PROVE  Ok
  <2>1. PICK id \in Uint64, t \in Uint64 :
          /\ Has(GetVestingQueueKey(id, t))
          /\ queue = kv[GetVestingQueueKey(id, t)]
    BY ExportIs, ExportedQueues
  <2>2. queue.auctionId = id /\ queue.releaseTime = t BY <2>1, ExportedQueues
  <2>3. StartsWith(GetVestingQueueKey(id, t), 65) BY FirstBytes
  <2>4. 65 \in Nat \ {51} OBVIOUS
  <2> QED BY <1>2, <1>6, <2>1, <2>2, <2>3, <2>4
<1> HIDE DEF gs
<1>7. Ok
  <2>1. e \in Imported(gs) BY DEF gs
  <2> QED BY <1>3, <1>4, <1>5, <1>6, <2>1, ImportedIs
<1> QED BY <1>7 DEF Ok

\* And all that was in the store is imported, but the numbers of matched bids.
LEMMA ImportsAll ==
  ASSUME EntriesInv, NEW key \in DOMAIN kv, ~StartsWith(key, 51)
  PROVE  \E e \in Imported(ExportGenesis) : e[1] = key
<1> DEFINE gs == ExportGenesis
           Found1 == \E e \in Imported(gs) : e[1] = key
<1>1. StoreInv BY DEF EntriesInv
<1>2. ASSUME NEW k, NEW value, <<k, value>> \in Imported(gs), k = key PROVE Found1
  <2> DEFINE e == <<k, value>>
  <2>1. e \in Imported(gs) /\ e[1] = key BY <1>2
  <2> HIDE DEF e, gs
  <2> QED BY <2>1
<1> HIDE DEF Found1
<1>3. key \in Keys BY <1>1 DEF StoreInv
<1>4. /\ gs.auctions = GetAuctions /\ gs.bids = GetBids
      /\ gs.vestingQueues = GetVestingQueues
  BY ExportIs
<1>5. ASSUME NEW id \in Ids
      PROVE  LET auction == kv[GetAuctionKey(id)]
             IN  auction \in ToSet(gs.auctions) /\ auction.id = id
  BY <1>1, <1>4, ExportedAuctions
<1>6. ASSUME key = LastAuctionIdKey PROVE Found1
  <2>1. GetLastAuctionId # 0 BY <1>6 DEF EntriesInv, CountersOk, Has
  <2>2. 1 \in Ids
    <3>1. GetLastAuctionId \in Nat BY <1>1, IdsInUse DEF StoreInv
    <3> QED BY <2>1, <3>1 DEF Ids
  <2> DEFINE auction == kv[GetAuctionKey(1)]
  <2>3. auction \in ToSet(gs.auctions) BY <1>5, <2>2
  <2> HIDE DEF gs, auction
  <2> DEFINE e == <<LastAuctionIdKey, Len(gs.auctions)>>
  <2>4. e \in Imported(gs)
    <3>1. \E x \in ToSet(gs.auctions) : e = <<LastAuctionIdKey, Len(gs.auctions)>>
      BY <2>3
    <3> QED BY <3>1, ImportedIs
  <2> QED BY <1>2, <1>6, <2>4
<1>7. ASSUME NEW id \in Uint64, key = GetAuctionKey(id) PROVE Found1
  <2>1. id \in Ids BY <1>1, <1>7 DEF StoreInv, AuctionsOk, Has
  <2> DEFINE auction == kv[GetAuctionKey(id)]
  <2>2. auction \in ToSet(gs.auctions) /\ auction.id = id BY <1>5, <2>1
  <2> HIDE DEF gs, auction
  <2>3. <<GetAuctionKey(auction.id), auction>> \in Imported(gs) BY <2>2, ImportedIs
  <2> QED BY <1>2, <1>7, <2>2, <2>3
<1>8. ASSUME NEW id \in Uint64, NEW a \in Addresses, key = GetAllowedBidderKey(id, a)
      PROVE  Found1
  <2> DEFINE entry == kv[GetAllowedBidderKey(id, a)]
             r == [auctionId |-> id, allowedBidder |-> entry]
  <2>1. id \in Ids BY <1>8 DEF EntriesInv, OwnersOk, Has
  <2>2. entry.bidder = a
    <3>1. entry = [bidder |-> a, maxBidAmount |-> MaxBidAmountOf(id, a)]
      BY <1>8 DEF EntriesInv, AllowedOk, Has
    <3> QED BY <3>1
  <2>3. r \in gs.allowedBidderRecords BY <1>8, <2>1, <2>2, ExportedBidders
  <2>4. r.auctionId = id /\ r.allowedBidder = entry OBVIOUS
  <2> HIDE DEF gs, entry, r
  <2>5. <<GetAllowedBidderKey(r.auctionId, r.allowedBidder.bidder),
          r.allowedBidder>> \in Imported(gs)
    BY <2>3, ImportedIs
  <2> QED BY <1>2, <1>8, <2>2, <2>4, <2>5
<1>9. ASSUME NEW id \in Uint64, NEW k \in Uint64, Has(GetBidKey(id, k)),
             NEW a \in Addresses, a = kv[GetBidKey(id, k)].bidder,
             key \in {GetLastBidIdKey(id), GetBidKey(id, k), GetBidIndexKey(a, id, k)}
      PROVE  Found1
  <2> DEFINE bid == kv[GetBidKey(id, k)]
  <2>1. /\ bid \in ToSet(gs.bids) /\ bid.auctionId = id /\ bid.id = k
        /\ bid.bidder = a
    BY <1>4, <1>9, ExportedBids
  <2> HIDE DEF gs, bid
  <2>2. /\ <<GetLastBidIdKey(bid.auctionId), CountBids(gs.bids, bid.auctionId)>>
             \in Imported(gs)
        /\ <<GetBidKey(bid.auctionId, bid.id), bid>> \in Imported(gs)
        /\ <<GetBidIndexKey(bid.bidder, bid.auctionId, bid.id), <<>>>> \in Imported(gs)
    BY <2>1, ImportedIs
  <2> QED BY <1>2, <1>9, <2>1, <2>2
<1>10. ASSUME NEW id \in Uint64, NEW k \in Uint64, Has(GetBidKey(id, k))
       PROVE  kv[GetBidKey(id, k)].bidder \in Addresses
  BY <1>10, ExportedBids
<1>11. ASSUME NEW id \in Uint64, key = GetLastBidIdKey(id) PROVE Found1
  <2>1. GetLastBidId(id) # 0 BY <1>11 DEF EntriesInv, CountersOk, Has
  <2>2. GetLastBidId(id) \in Nat /\ 1..GetLastBidId(id) \subseteq Uint64
    BY <1>1, IdsInUse DEF StoreInv
  <2>3. 1 \in 1..GetLastBidId(id) /\ 1 \in Uint64 BY <2>1, <2>2
  <2>4. Has(GetBidKey(id, 1)) BY <1>1, <2>3 DEF StoreInv, BidsOk
  <2> QED BY <1>9, <1>10, <1>11, <2>3, <2>4
<1>12. ASSUME NEW id \in Uint64, NEW k \in Uint64, key = GetBidKey(id, k)
       PROVE  Found1
  BY <1>9, <1>10, <1>12 DEF Has
<1>13. ASSUME NEW a \in Addresses, NEW id \in Uint64, NEW k \in Uint64,
              key = GetBidIndexKey(a, id, k)
       PROVE  Found1
  <2>1. Has(GetBidKey(id, k)) /\ a = kv[GetBidKey(id, k)].bidder
    BY <1>1, <1>13 DEF StoreInv, IndexOk, Has
  <2> QED BY <1>9, <1>13, <2>1
<1>14. ASSUME NEW id \in Uint64, key = GetLastMatchedBidsLenKey(id) PROVE FALSE
  BY <1>14, FirstBytes
<1>15. ASSUME NEW id \in Uint64, NEW t \in Uint64, key = GetVestingQueueKey(id, t)
       PROVE  Found1
  <2> DEFINE queue == kv[GetVestingQueueKey(id, t)]
  <2>1. /\ queue \in ToSet(gs.vestingQueues)
        /\ queue.auctionId = id /\ queue.releaseTime = t
    BY <1>4, <1>15, ExportedQueues DEF Has
  <2> HIDE DEF gs, queue
  <2>2. <<GetVestingQueueKey(queue.auctionId, queue.releaseTime), queue>>
          \in Imported(gs)
    BY <2>1, ImportedIs
  <2> QED BY <1>2, <1>15, <2>1, <2>2
<1>16. \/ key = LastAuctionIdKey
       \/ \E id \in Uint64 : key = GetLastBidIdKey(id)
       \/ \E id \in Uint64 : key = GetAuctionKey(id)
       \/ \E id \in Uint64, a \in Addresses : key = GetAllowedBidderKey(id, a)
       \/ \E id, k \in Uint64 : key = GetBidKey(id, k)
       \/ \E a \in Addresses, id \in Uint64, k \in Uint64 :
            key = GetBidIndexKey(a, id, k)
       \/ \E id \in Uint64 : key = GetLastMatchedBidsLenKey(id)
       \/ \E id, t \in Uint64 : key = GetVestingQueueKey(id, t)
  BY <1>3 DEF Keys
<1>17. Found1
  BY <1>6, <1>7, <1>8, <1>11, <1>12, <1>13, <1>14, <1>15, <1>16
<1> QED BY <1>17 DEF Found1

\* A restart loses the numbers of matched bids and nothing else.
LEMMA RestartWrites ==
  ASSUME EntriesInv, Restart
  PROVE  /\ DOMAIN kv' \subseteq DOMAIN kv
         /\ \A key \in DOMAIN kv : key \in DOMAIN kv' <=> ~StartsWith(key, 51)
         /\ \A key \in DOMAIN kv' : StartsWith(key, 50) \/ kv'[key] = kv[key]
<1> DEFINE E == Imported(ExportGenesis)
<1>1. kv' = [key \in {e[1] : e \in E} |-> (CHOOSE e \in E : e[1] = key)[2]]
  BY DEF Restart, InitGenesis
<1>2. \A e \in E : /\ e[1] \in DOMAIN kv /\ ~StartsWith(e[1], 51)
                   /\ StartsWith(e[1], 50) \/ e[2] = kv[e[1]]
  BY ImportsTheOld
<1>3. \A key \in DOMAIN kv : ~StartsWith(key, 51) => \E e \in E : e[1] = key
  BY ImportsAll
<1> HIDE DEF E
<1>4. ASSUME NEW key \in DOMAIN kv'
      PROVE  /\ key \in DOMAIN kv /\ ~StartsWith(key, 51)
             /\ StartsWith(key, 50) \/ kv'[key] = kv[key]
  <2>1. \E e \in E : e[1] = key BY <1>1
  <2> DEFINE c == CHOOSE e \in E : e[1] = key
  <2>2. c \in E /\ c[1] = key BY <2>1
  <2>3. kv'[key] = c[2] BY <1>1
  <2> HIDE DEF c
  <2> QED BY <1>2, <2>2, <2>3
<1>5. \A key \in DOMAIN kv : ~StartsWith(key, 51) => key \in DOMAIN kv'
  BY <1>1, <1>3
<1> QED BY <1>4, <1>5

LEMMA RestartKeepsKinds ==
  ASSUME EntriesInv, Restart
  PROVE  /\ SameBut({50, 51})
         /\ \A a \in Addresses, id \in Uint64, k \in Uint64 :
              Has(GetBidIndexKey(a, id, k))' <=> Has(GetBidIndexKey(a, id, k))
         /\ \A id \in Uint64 : GetLastMatchedBidsLen(id)' = 0
<1>1. ASSUME NEW b \in Nat \ {50, 51} PROVE Same(b)
  <2> SUFFICES ASSUME NEW key \in Keys, StartsWith(key, b)
               PROVE  /\ Has(key)' <=> Has(key)
                      /\ Has(key) => kv'[key] = kv[key]
    BY DEF Same
  <2>1. ~StartsWith(key, 50) /\ ~StartsWith(key, 51) BY OneKind
  <2> QED BY <2>1, RestartWrites DEF Has
<1>2. ASSUME NEW a \in Addresses, NEW id \in Uint64, NEW k \in Uint64
      PROVE  Has(GetBidIndexKey(a, id, k))' <=> Has(GetBidIndexKey(a, id, k))
  <2>1. StartsWith(GetBidIndexKey(a, id, k), 50) BY FirstBytes
  <2>2. ~StartsWith(GetBidIndexKey(a, id, k), 51)
    <3> DEFINE key == GetBidIndexKey(a, id, k)
    <3>1. 50 # 51 OBVIOUS
    <3> HIDE DEF key
    <3> QED BY <2>1, <3>1, OneKind
  <2> QED BY <2>2, RestartWrites DEF Has
<1>3. ASSUME NEW id \in Uint64 PROVE GetLastMatchedBidsLen(id)' = 0
  <2>1. StartsWith(GetLastMatchedBidsLenKey(id), 51) BY FirstBytes
  <2>2. ~Has(GetLastMatchedBidsLenKey(id))' BY <2>1, RestartWrites DEF Has
  <2> QED BY <2>2 DEF GetLastMatchedBidsLen, Number
<1> QED BY <1>1, <1>2, <1>3 DEF SameBut

LEMMA RestartKeepsInv == EntriesInv /\ Restart => EntriesInv'
<1> SUFFICES ASSUME EntriesInv, Restart PROVE EntriesInv' OBVIOUS
<1>1. /\ Same(17) /\ Same(18) /\ Same(33) /\ Same(34) /\ Same(49) /\ Same(65)
      /\ \A a \in Addresses, id \in Uint64, k \in Uint64 :
           Has(GetBidIndexKey(a, id, k))' <=> Has(GetBidIndexKey(a, id, k))
  BY RestartKeepsKinds DEF SameBut
<1>2. StoreInv /\ IsFiniteSet(DOMAIN kv) /\ AllowedOk /\ OwnersOk /\ CountersOk
  BY DEF EntriesInv
<1>3. NumbersOk' /\ AuctionsOk' /\ BidsOk' /\ QueuesOk' BY <1>1, <1>2, PartsKept
<1>4. IndexOk' BY <1>1, <1>2, SameRecords DEF StoreInv, IndexOk
<1>5. (DOMAIN kv \subseteq Keys)' /\ IsFiniteSet(DOMAIN kv')
  <2>1. DOMAIN kv' \subseteq DOMAIN kv BY RestartWrites
  <2>2. Keys' = Keys BY DEF Keys
  <2> QED BY <1>2, <2>1, <2>2, FS_Subset DEF StoreInv
<1>6. AllowedOk' /\ OwnersOk' /\ CountersOk'
  BY <1>1, <1>2, AllowedKept, OwnersKept, CountersKept
<1> QED BY <1>3, <1>4, <1>5, <1>6 DEF EntriesInv, StoreInv

\* The lists are the same; the numbers of matched bids are gone.
LEMMA RestartIsRecordsStep == EntriesInv /\ EntriesInv' /\ Restart => R!Next
<1> SUFFICES ASSUME EntriesInv, EntriesInv', Restart PROVE R!Next OBVIOUS
<1> DEFINE r == RecordsInStore
           D == [id \in AuctionIds |-> 0]
<1>1. StoreInv /\ StoreInv' BY DEF EntriesInv
<1>2. /\ Same(17) /\ Same(18) /\ Same(33) /\ Same(34) /\ Same(49) /\ Same(65)
      /\ \A id \in Uint64 : GetLastMatchedBidsLen(id)' = 0
  BY RestartKeepsKinds DEF SameBut
<1>3. /\ GetAuctions' = GetAuctions /\ Allowed' = Allowed /\ Bids' = Bids
      /\ Queues' = Queues
  BY <1>1, <1>2, FieldsKept
<1>4. MatchedBidsLen' = D
  <2>1. AuctionIds \subseteq Uint64 BY <1>1, IdsInUse DEF StoreInv
  <2>2. MatchedBidsLen' = [id \in AuctionIds |-> GetLastMatchedBidsLen(id)']
    BY DEF MatchedBidsLen, AuctionIds
  <2> QED BY <1>2, <2>1, <2>2
<1> HIDE DEF D
<1>5. RecordsInStore' = RecordsOf(GetAuctions, Allowed, Bids, D, Queues)
  BY <1>3, <1>4, RecordsNext
<1>6. R!Restart(r) = RecordsOf(GetAuctions, Allowed, Bids, D, Queues)
  <2>1. R!Restart(r) = [r EXCEPT !.matchedBidsLen = D]
    BY DEF R!Restart, D, R!AuctionIds, AuctionIds
  <2>2. r = RecordsOf(GetAuctions, Allowed, Bids, MatchedBidsLen, Queues)
    BY FieldsNow
  <2> HIDE DEF r
  <2> QED BY <2>1, <2>2 DEF RecordsOf
<1>7. R!Operation(RecordsInStore, RecordsInStore')
  BY <1>5, <1>6 DEF R!Operation
<1> QED BY <1>7 DEF R!Next, RecordsInStore, RecordsOf, Allowed, Bids,
                    MatchedBidsLen, Queues

-----------------------------------------------------------------------------
(***************************************************************************)
(* The store of every handler and every restart.                           *)
(***************************************************************************)
LEMMA EntriesInvNext == EntriesInv /\ [Next]_kv => EntriesInv'
BY EntriesInvStep, RestartKeepsInv DEF Next

LEMMA EntriesAreConsistent == Spec => []EntriesInv
BY EntriesInvInit, EntriesInvNext, PTL DEF Spec

\* keeper/store.go, under every handler: the counters, the auctions, the bids with
\* their index and the queues belong together, and each record is under its key, after a
\* restart too.
THEOREM StoreIsConsistent == Spec => []StoreInv
<1>1. EntriesInv => StoreInv BY DEF EntriesInv
<1> QED BY <1>1, EntriesAreConsistent, PTL

\* types/keys.go: for any number of bytes of an id and any addresses, an iteration
\* over the store by a kind of record, by the id of an auction or by a bidder finds
\* the records of that kind, auction or bidder, and never one of another.
THEOREM IterationsFindTheirOwn == Spec => []PrefixesAreExact
BY StoreIsConsistent, StoreInvFinds, PTL

\* keeper/store.go, SetBid, and types/keys.go, ParseBidIndexKey and
\* SplitAuctionIdBidIdKey: the index by bidder has the bids of every bidder and no
\* others, and its entries give the bids back.
THEOREM IndexHasTheBids == Spec => []IndexIsExact
BY StoreIsConsistent, StoreInvIndex, PTL

\* keeper/store.go: for any number of auctions, bids, addresses and bytes of an id,
\* the iterations over all bids, over all queues, over the allowed bidders of an
\* auction and over the index of a bidder show the records that those by auction
\* and the lookups show, in the order of their ids and times.
THEOREM IterationsShowTheSame == Spec => []IterationsAgree
BY EntriesAreConsistent, EntriesInvAgree, PTL

\* keeper/store.go, over types/keys.go: read back through its iterators and lookups,
\* the store behaves like Records.  Every handler changes the records it is for, as
\* the operation of its name says, and none of another auction or bidder; auctions
\* and bids are listed by id, and vesting queues by release time; and a
\* restart loses nothing but the number of matched bids, and reuses no id.
THEOREM StoreIsRecords == Spec => ImplementsRecords
<1>1. EntriesInv /\ [Next]_kv => R!Next
  <2> SUFFICES ASSUME EntriesInv, [Next]_kv PROVE R!Next OBVIOUS
  <2>1. StoreInv /\ EntriesInv' BY EntriesInvNext DEF EntriesInv
  <2>2. StoreInv' BY <2>1 DEF EntriesInv
  <2>3. CASE [Write]_kv BY <2>1, <2>2, <2>3, StoreIsRecordsStep
  <2>4. CASE Restart BY <2>1, <2>4, RestartIsRecordsStep
  <2> QED BY <2>3, <2>4 DEF Next
<1> QED BY <1>1, EntriesAreConsistent, StoreIsRecordsInit, PTL
        DEF Spec, ImplementsRecords, R!Spec
=============================================================================
