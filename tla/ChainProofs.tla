----------------------------- MODULE ChainProofs -----------------------------
(***************************************************************************)
(* The chain as a whole: a restart from an exported genesis state loses no *)
(* record, what the keeper promises holds across restarts, and listeners   *)
(* are told what happens.                                                  *)
(***************************************************************************)
EXTENDS Chain, SettlementProofs

-----------------------------------------------------------------------------
(***************************************************************************)
(* OfAuction and FlattenSeq: the records of one auction in a list.         *)
(***************************************************************************)

\* own[i] is what the import loop has stored under id when
\* it has read i records.
Picks(list, id, own) ==
  own = [i \in 0..Len(list) |->
           IF i = 0 THEN <<>>
           ELSE IF list[i].auctionId = id THEN Append(own[i - 1], list[i])
           ELSE own[i - 1]]

\* The loop of InitGenesis does what OfAuction says, record by record.
LEMMA PicksExist ==
  ASSUME NEW S, NEW list \in Seq(S), NEW id
  PROVE  \E own : Picks(list, id, own)
<1> DEFINE N == Len(list)
           P(n, s) == s = [i \in 0..n |->
                             IF i = 0 THEN <<>>
                             ELSE IF list[i].auctionId = id
                               THEN Append(s[i - 1], list[i])
                             ELSE s[i - 1]]
           T == {n \in Nat : \E s : P(n, s)}
<1>1. 0 \in T
  <2> DEFINE s == [i \in 0..0 |-> <<>>]
  <2>1. P(0, s) OBVIOUS
  <2> QED BY <2>1
<1>2. ASSUME NEW n \in Nat, n \in T PROVE n + 1 \in T
  <2>1. PICK s : P(n, s) BY <1>2
  <2> DEFINE x == IF list[n + 1].auctionId = id THEN Append(s[n], list[n + 1])
                  ELSE s[n]
             t == [i \in 0..(n + 1) |-> IF i <= n THEN s[i] ELSE x]
  <2>2. ASSUME NEW i \in 0..(n + 1)
        PROVE  t[i] = IF i = 0 THEN <<>>
                      ELSE IF list[i].auctionId = id
                        THEN Append(t[i - 1], list[i])
                      ELSE t[i - 1]
    <3>1. CASE i = 0 BY <2>1, <3>1
    <3>2. CASE i # 0 /\ i <= n
      <4>1. i \in 0..n /\ i - 1 \in 0..n BY <3>2
      <4>2. s[i] = IF list[i].auctionId = id THEN Append(s[i - 1], list[i])
                   ELSE s[i - 1]
        BY <2>1, <3>2, <4>1
      <4>3. t[i] = s[i] /\ t[i - 1] = s[i - 1] BY <3>2, <4>1
      <4> HIDE DEF t
      <4> QED BY <3>2, <4>2, <4>3
    <3>3. CASE i = n + 1 BY <2>1, <3>3
    <3> QED BY <3>1, <3>2, <3>3
  <2>3. P(n + 1, t) BY <2>2
  <2>4. \E u : P(n + 1, u)
    <3> HIDE DEF t, P
    <3> QED BY <2>3
  <2> HIDE DEF P
  <2> QED BY <2>4
<1>3. N \in Nat BY LenProperties
<1>4. N \in T
  <2> HIDE DEF T
  <2> QED BY <1>1, <1>2, <1>3, InductiveSet
<1> QED BY <1>4 DEF Picks

\* What is known of the records own that the loop has stored after each record
\* of a list of S.
Imports(S, list, id, own) ==
  /\ OfAuction(list, id) = own[Len(list)]
  /\ own[0] = <<>>
  /\ \A i \in 1..Len(list) :
       own[i] = IF list[i].auctionId = id
                  THEN Append(own[i - 1], list[i]) ELSE own[i - 1]
  /\ \A i \in 0..Len(list) : own[i] \in Seq(S)

Stored(list, id) == CHOOSE own : Picks(list, id, own)

\* OfAuction is what the loop has stored in the end.
LEMMA ImportFacts ==
  ASSUME NEW S, NEW list \in Seq(S), NEW id
  PROVE  Imports(S, list, id, Stored(list, id))
<1> DEFINE o == Stored(list, id)
           N == Len(list)
<1>1. Picks(list, id, o) BY PicksExist, Zenon DEF Stored
<1>2. OfAuction(list, id) = o[N] BY DEF OfAuction, Picks, Stored
<1>3. N \in Nat BY LenProperties
<1> HIDE DEF o
<1>4. o[0] = <<>>
  <2>1. 0 \in 0..N BY <1>3
  <2> QED BY <1>1, <2>1 DEF Picks
<1>5. ASSUME NEW i \in 1..N
      PROVE  o[i] = IF list[i].auctionId = id
                      THEN Append(o[i - 1], list[i]) ELSE o[i - 1]
  <2>1. i \in 0..N /\ i # 0 BY <1>3
  <2> QED BY <1>1, <2>1 DEF Picks
<1>6. \A i \in 0..N : o[i] \in Seq(S)
  <2> DEFINE T == {n \in Nat : n <= N => o[n] \in Seq(S)}
  <2>1. 0 \in T
    <3>1. <<>> \in Seq(S) BY EmptySeq
    <3> QED BY <1>4, <3>1
  <2>2. ASSUME NEW n \in Nat, n \in T PROVE n + 1 \in T
    <3> SUFFICES ASSUME n + 1 <= N PROVE o[n + 1] \in Seq(S) OBVIOUS
    <3>1. o[n] \in Seq(S) /\ n + 1 \in 1..N /\ (n + 1) - 1 = n
      BY <1>3, <2>2
    <3>2. list[n + 1] \in S BY <3>1
    <3>3. Append(o[n], list[n + 1]) \in Seq(S) BY <3>1, <3>2
    <3> QED BY <1>5, <3>1, <3>3
  <2>3. Nat \subseteq T
    <3> HIDE DEF T
    <3> QED BY <2>1, <2>2, InductiveSet
  <2> QED BY <1>3, <2>3
<1>7. Imports(S, list, id, o) BY <1>2, <1>4, <1>5, <1>6 DEF Imports
<1> QED BY <1>7 DEF o

\* A list whose records all belong to the auction is imported as it is.
LEMMA PickAll ==
  ASSUME NEW S, NEW list \in Seq(S), NEW id,
         \A i \in 1..Len(list) : list[i].auctionId = id
  PROVE  OfAuction(list, id) = list
<1> DEFINE N == Len(list)
<1> DEFINE own == Stored(list, id)
<1>1. Imports(S, list, id, own) BY ImportFacts
<1> HIDE DEF own
<1>2. N \in Nat BY LenProperties
<1> DEFINE T == {n \in Nat : n <= N =>
                   Len(own[n]) = n /\ \A i \in 1..n : own[n][i] = list[i]}
<1>3. 0 \in T BY <1>1, EmptySeq DEF Imports
<1>4. ASSUME NEW n \in Nat, n \in T PROVE n + 1 \in T
  <2> SUFFICES ASSUME n + 1 <= N
               PROVE  /\ Len(own[n + 1]) = n + 1
                      /\ \A i \in 1..(n + 1) : own[n + 1][i] = list[i]
    OBVIOUS
  <2>1. n + 1 \in 1..N /\ (n + 1) - 1 = n /\ n \in 0..N BY <1>2
  <2>2. own[n + 1] = Append(own[n], list[n + 1]) BY <1>1, <2>1 DEF Imports
  <2>3. own[n] \in Seq(S) /\ Len(own[n]) = n BY <1>1, <1>4, <2>1 DEF Imports
  <2>4. list[n + 1] \in S BY <2>1
  <2> QED BY <1>4, <2>1, <2>2, <2>3, <2>4, AppendProperties
<1>5. N \in T
  <2> HIDE DEF T
  <2> QED BY <1>2, <1>3, <1>4, InductiveSet
<1>6. N \in 0..N BY <1>2
<1>7. own[N] \in Seq(S) /\ Len(own[N]) = N BY <1>1, <1>5, <1>6 DEF Imports
<1>8. \A i \in 1..N : own[N][i] = list[i] BY <1>2, <1>5
<1> QED BY <1>1, <1>7, <1>8, SeqEqual DEF Imports

\* A list with no record of the auction gives it none.
LEMMA PickNone ==
  ASSUME NEW S, NEW list \in Seq(S), NEW id,
         \A i \in 1..Len(list) : list[i].auctionId # id
  PROVE  OfAuction(list, id) = <<>>
<1> DEFINE N == Len(list)
<1> DEFINE own == Stored(list, id)
<1>1. Imports(S, list, id, own) BY ImportFacts
<1> HIDE DEF own
<1>2. N \in Nat BY LenProperties
<1> DEFINE T == {n \in Nat : n <= N => own[n] = <<>>}
<1>3. 0 \in T BY <1>1 DEF Imports
<1>4. ASSUME NEW n \in Nat, n \in T PROVE n + 1 \in T
  <2> SUFFICES ASSUME n + 1 <= N PROVE own[n + 1] = <<>> OBVIOUS
  <2>1. n + 1 \in 1..N /\ (n + 1) - 1 = n BY <1>2
  <2> QED BY <1>1, <1>4, <2>1 DEF Imports
<1>5. N \in T
  <2> HIDE DEF T
  <2> QED BY <1>2, <1>3, <1>4, InductiveSet
<1> QED BY <1>1, <1>2, <1>5 DEF Imports

\* The two lists, one after the other.  Named, because the provers lose their
\* way in the definition of \o.
Both(a, b) == a \o b

\* Appending to two lists appends to the second.
LEMMA AppendToBoth ==
  ASSUME NEW S, NEW a \in Seq(S), NEW b \in Seq(S), NEW x \in S
  PROVE  Append(Both(a, b), x) = Both(a, Append(b, x))
<1>1. a \o b \in Seq(S) BY ConcatProperties
<1>2. Append(a \o b, x) = (a \o b) \o <<x>> BY <1>1, AppendIsConcat
<1>3. Append(b, x) = b \o <<x>> BY AppendIsConcat
<1>4. <<x>> \in Seq(S) OBVIOUS
<1>5. (a \o b) \o <<x>> = a \o (b \o <<x>>) BY <1>4, ConcatAssociative
<1> QED BY <1>2, <1>3, <1>5 DEF Both

\* Two lists are imported one after the other.
LEMMA PickConcat ==
  ASSUME NEW S, NEW l1 \in Seq(S), NEW l2 \in Seq(S), NEW id
  PROVE  OfAuction(Both(l1, l2), id) = Both(OfAuction(l1, id), OfAuction(l2, id))
<1> DEFINE l == l1 \o l2
           M == Len(l1)
           N == Len(l2)
<1>1. /\ M \in Nat /\ N \in Nat /\ l \in Seq(S) /\ Len(l) = M + N
      /\ \A i \in 1..M : l[i] = l1[i]
      /\ \A i \in 1..N : l[M + i] = l2[i]
  BY LenProperties, ConcatProperties
<1> DEFINE a == Stored(l1, id)
<1>2. Imports(S, l1, id, a) BY ImportFacts
<1> HIDE DEF a
<1> DEFINE b == Stored(l2, id)
<1>3. Imports(S, l2, id, b) BY ImportFacts
<1> HIDE DEF b
<1> HIDE DEF l
<1> DEFINE c == Stored(l, id)
<1>4. Imports(S, l, id, c) BY <1>1, ImportFacts
<1> HIDE DEF c
<1>5. c[M] = a[M]
  <2> DEFINE T == {n \in Nat : n <= M => c[n] = a[n]}
  <2>1. 0 \in T BY <1>2, <1>4 DEF Imports
  <2>2. ASSUME NEW n \in Nat, n \in T PROVE n + 1 \in T
    <3> SUFFICES ASSUME n + 1 <= M PROVE c[n + 1] = a[n + 1] OBVIOUS
    <3>1. n + 1 \in 1..M /\ n + 1 \in 1..Len(l) /\ (n + 1) - 1 = n BY <1>1
    <3>2. l[n + 1] = l1[n + 1] BY <1>1, <3>1
    <3>3. a[n + 1] = IF l1[n + 1].auctionId = id
                       THEN Append(a[n], l1[n + 1]) ELSE a[n]
      BY <1>2, <3>1 DEF Imports
    <3>4. c[n + 1] = IF l1[n + 1].auctionId = id
                       THEN Append(c[n], l1[n + 1]) ELSE c[n]
      BY <1>4, <3>1, <3>2 DEF Imports
    <3> QED BY <2>2, <3>3, <3>4
  <2>3. M \in T
    <3> HIDE DEF T
    <3> QED BY <1>1, <2>1, <2>2, InductiveSet
  <2> QED BY <1>1, <2>3
<1>6. a[M] \in Seq(S) BY <1>1, <1>2 DEF Imports
<1>7. c[M + N] = Both(a[M], b[N])
  <2> DEFINE Q(n) == c[M + n] = Both(a[M], b[n])
             T == {n \in Nat : n <= N => Q(n)}
  <2>1. 0 \in T
    <3>1. M + 0 = M /\ b[0] = <<>> BY <1>1, <1>3 DEF Imports
    <3>2. a[M] \o <<>> = a[M] BY <1>6, ConcatEmptySeq
    <3>3. Q(0) BY <1>5, <3>1, <3>2 DEF Both
    <3> HIDE DEF Q
    <3> QED BY <3>3
  <2>2. ASSUME NEW n \in Nat, n \in T PROVE n + 1 \in T
    <3> SUFFICES ASSUME n + 1 <= N PROVE Q(n + 1)
      <4> HIDE DEF Q
      <4> QED OBVIOUS
    <3>1. /\ n + 1 \in 1..N /\ M + (n + 1) \in 1..Len(l) /\ (n + 1) - 1 = n
          /\ (M + (n + 1)) - 1 = M + n /\ n \in 0..N
      BY <1>1
    <3>2. Q(n)
      <4> HIDE DEF Q
      <4> QED BY <1>1, <2>2
    <3>7. b[n] \in Seq(S) BY <1>3, <3>1 DEF Imports
    <3>3. l[M + (n + 1)] = l2[n + 1] /\ l2[n + 1] \in S BY <1>1, <3>1
    <3>4. Append(Both(a[M], b[n]), l2[n + 1]) = Both(a[M], Append(b[n], l2[n + 1]))
      <4> DEFINE aM == a[M]
                 bn == b[n]
                 x == l2[n + 1]
      <4>1. aM \in Seq(S) BY <1>6
      <4>2. bn \in Seq(S) BY <3>7
      <4>3. x \in S BY <3>3
      <4> HIDE DEF aM, bn, x
      <4>4. Append(Both(aM, bn), x) = Both(aM, Append(bn, x))
        BY <4>1, <4>2, <4>3, AppendToBoth, SMT
      <4> QED BY <4>4 DEF aM, bn, x
    <3>5. c[M + (n + 1)] = IF l2[n + 1].auctionId = id
                             THEN Append(c[M + n], l2[n + 1]) ELSE c[M + n]
      BY <1>4, <3>1, <3>3 DEF Imports
    <3>6. b[n + 1] = IF l2[n + 1].auctionId = id
                       THEN Append(b[n], l2[n + 1]) ELSE b[n]
      BY <1>3, <3>1 DEF Imports
    <3> QED BY <3>2, <3>4, <3>5, <3>6
  <2>3. N \in T
    <3> HIDE DEF T
    <3> QED BY <1>1, <2>1, <2>2, InductiveSet
  <2>4. Q(N)
    <3> HIDE DEF Q
    <3> QED BY <1>1, <2>3
  <2> QED BY <2>4
<1>8. OfAuction(l, id) = Both(a[M], b[N]) BY <1>1, <1>4, <1>7 DEF Imports
<1>9. OfAuction(l, id) = Both(OfAuction(l1, id), OfAuction(l2, id))
  BY <1>2, <1>3, <1>8 DEF Imports
<1> QED BY <1>9 DEF l, Both

LEMMA BothEmpty ==
  ASSUME NEW S, NEW a \in Seq(S)
  PROVE  Both(a, <<>>) = a /\ Both(<<>>, a) = a
BY ConcatEmptySeq DEF Both

LEMMA BothType ==
  ASSUME NEW S, NEW a \in Seq(S), NEW b \in Seq(S)
  PROVE  Both(a, b) \in Seq(S)
BY ConcatProperties DEF Both

\* flat[i] is the concatenation of the first i lists.
Flattens(seqs, N, flat) ==
  flat = [i \in 1..N |->
            IF i = 1 THEN seqs[i] ELSE flat[i - 1] \o seqs[i]]

LEMMA FlattensExist ==
  ASSUME NEW seqs, NEW N \in Nat
  PROVE  \E flat : Flattens(seqs, N, flat)
<1> DEFINE T == {n \in Nat : \E s : Flattens(seqs, n, s)}
<1>1. 0 \in T
  <2> DEFINE s == [i \in 1..0 |-> <<>>]
  <2>1. Flattens(seqs, 0, s) BY DEF Flattens
  <2> QED BY <2>1
<1>2. ASSUME NEW n \in Nat, n \in T PROVE n + 1 \in T
  <2>1. PICK s : Flattens(seqs, n, s) BY <1>2
  <2> DEFINE x == IF n = 0 THEN seqs[n + 1] ELSE s[n] \o seqs[n + 1]
             t == [i \in 1..(n + 1) |-> IF i <= n THEN s[i] ELSE x]
  <2>2. ASSUME NEW i \in 1..(n + 1)
        PROVE  t[i] = IF i = 1 THEN seqs[i] ELSE t[i - 1] \o seqs[i]
    <3>1. CASE i <= n
      <4>1. i \in 1..n /\ t[i] = s[i] BY <3>1
      <4>2. s[i] = IF i = 1 THEN seqs[i] ELSE s[i - 1] \o seqs[i]
        BY <2>1, <4>1, Zenon DEF Flattens
      <4>3. i # 1 => t[i - 1] = s[i - 1] BY <3>1
      <4> HIDE DEF t
      <4> QED BY <4>1, <4>2, <4>3
    <3>2. CASE i = n + 1
      <4>1. t[i] = x BY <3>2
      <4>2. i # 1 => t[i - 1] = s[n] BY <3>2
      <4>3. i = 1 <=> n = 0 BY <3>2
      <4> HIDE DEF t
      <4> QED BY <3>2, <4>1, <4>2, <4>3
    <3> QED BY <3>1, <3>2
  <2>3. Flattens(seqs, n + 1, t)
    <3> HIDE DEF x
    <3>1. t = [i \in 1..(n + 1) |-> t[i]] OBVIOUS
    <3> HIDE DEF t
    <3> QED BY <2>2, <3>1, Zenon DEF Flattens
  <2> HIDE DEF t
  <2> QED BY <2>3
<1> HIDE DEF T
<1>3. N \in T BY <1>1, <1>2, InductiveSet
<1> QED BY <1>3 DEF T

Flattened(seqs) == CHOOSE flat : Flattens(seqs, Len(seqs), flat)

\* What is known of the concatenations flat of the first lists of seqs.
FlattensTo(S, N, seqs, flat) ==
  /\ FlattenSeq(seqs) = flat[N]
  /\ flat[1] = seqs[1]
  /\ \A n \in 1..(N - 1) : flat[n + 1] = Both(flat[n], seqs[n + 1])
  /\ \A n \in 1..N : flat[n] \in Seq(S)

\* FlattenSeq concatenates one list after the other.
LEMMA FlattenFacts ==
  ASSUME NEW S, NEW N \in Nat, NEW seqs \in [1..N -> Seq(S)], N > 0
  PROVE  FlattensTo(S, N, seqs, Flattened(seqs))
<1>1. Len(seqs) = N
  <2>1. seqs \in Seq(Seq(S)) BY IsASeq
  <2> QED BY <2>1, LenProperties
<1>2. Flattens(seqs, N, Flattened(seqs))
  BY <1>1, FlattensExist, Zenon DEF Flattened
<1>3. FlattenSeq(seqs) = Flattened(seqs)[N]
  <2>1. Len(seqs) # 0 BY <1>1
  <2>2. FlattenSeq(seqs) = Flattened(seqs)[Len(seqs)]
    BY <2>1, Zenon DEF FlattenSeq, Flattened, Flattens
  <2> QED BY <1>1, <2>2
<1> DEFINE f == Flattened(seqs)
<1> HIDE DEF f
<1>4. \A i \in 1..N : f[i] = IF i = 1 THEN seqs[i] ELSE f[i - 1] \o seqs[i]
  BY <1>2, Zenon DEF Flattens, f
<1>5. f[1] = seqs[1] BY <1>4
<1>6. ASSUME NEW n \in 1..(N - 1) PROVE f[n + 1] = Both(f[n], seqs[n + 1])
  <2>1. n + 1 \in 1..N /\ n + 1 # 1 /\ (n + 1) - 1 = n OBVIOUS
  <2>2. f[n + 1] = f[(n + 1) - 1] \o seqs[n + 1] BY <1>4, <2>1, Zenon
  <2> QED BY <2>1, <2>2 DEF Both
<1>7. \A n \in 1..N : f[n] \in Seq(S)
  <2> DEFINE T == {n \in Nat : n < N => f[n + 1] \in Seq(S)}
  <2>1. 0 \in T BY <1>5
  <2>2. ASSUME NEW n \in Nat, n \in T PROVE n + 1 \in T
    <3> SUFFICES ASSUME n + 1 < N PROVE f[(n + 1) + 1] \in Seq(S) OBVIOUS
    <3>1. n + 1 \in 1..(N - 1) /\ (n + 1) + 1 \in 1..N OBVIOUS
    <3>2. f[n + 1] \in Seq(S) /\ seqs[(n + 1) + 1] \in Seq(S) BY <2>2, <3>1
    <3>3. Both(f[n + 1], seqs[(n + 1) + 1]) \in Seq(S) BY <3>2, BothType
    <3> QED BY <1>6, <3>1, <3>3
  <2>3. Nat \subseteq T
    <3> HIDE DEF T
    <3> QED BY <2>1, <2>2, InductiveSet
  <2>4. ASSUME NEW n \in 1..N PROVE f[n] \in Seq(S)
    <3>1. n - 1 \in Nat /\ n - 1 < N /\ (n - 1) + 1 = n OBVIOUS
    <3>2. n - 1 \in T
      <4> HIDE DEF T
      <4> QED BY <2>3, <3>1
    <3> QED BY <3>1, <3>2
  <2> QED BY <2>4
<1>8. FlattensTo(S, N, seqs, f) BY <1>3, <1>5, <1>6, <1>7 DEF f, FlattensTo
<1> QED BY <1>8 DEF f

\* Records that are exported auction by auction, under the id of their auction,
\* are imported for the same auction and in the same order.
LEMMA Regrouped ==
  ASSUME NEW S, NEW N \in Nat, NEW seqs \in [1..N -> Seq(S)],
         \A j \in 1..N : \A i \in 1..Len(seqs[j]) : seqs[j][i].auctionId = j,
         NEW id \in Nat
  PROVE  /\ FlattenSeq(seqs) \in Seq(S)
         /\ OfAuction(FlattenSeq(seqs), id) =
              IF id \in 1..N THEN seqs[id] ELSE <<>>
<1>1. CASE N = 0
  <2>1. seqs = <<>> /\ <<>> \in Seq(S) BY <1>1, EmptySeq
  <2>2. FlattenSeq(<<>>) = <<>> BY EmptySeq DEF FlattenSeq
  <2>3. OfAuction(<<>>, id) = <<>>
    <3>1. \A i \in 1..Len(<<>>) : <<>>[i].auctionId # id BY EmptySeq
    <3> QED BY <2>1, <3>1, PickNone
  <2>4. FlattenSeq(seqs) = <<>> BY <2>1, <2>2, Zenon
  <2>5. OfAuction(FlattenSeq(seqs), id) = <<>> BY <2>3, <2>4, Zenon
  <2>6. id \notin 1..N BY <1>1
  <2> QED BY <2>1, <2>4, <2>5, <2>6, Zenon
<1>2. CASE N > 0
  <2> DEFINE f == Flattened(seqs)
             here(n) == IF id \in 1..n THEN seqs[id] ELSE <<>>
             T == {n \in Nat : n < N => OfAuction(f[n + 1], id) = here(n + 1)}
  <2>1. /\ FlattenSeq(seqs) = f[N] /\ f[1] = seqs[1]
        /\ \A n \in 1..(N - 1) : f[n + 1] = Both(f[n], seqs[n + 1])
        /\ \A n \in 1..N : f[n] \in Seq(S)
    <3>1. FlattensTo(S, N, seqs, f) BY <1>2, FlattenFacts
    <3> QED BY <3>1, Zenon DEF FlattensTo
  <2> HIDE DEF f
  <2>2. ASSUME NEW j \in 1..N
        PROVE  OfAuction(seqs[j], id) = IF id = j THEN seqs[j] ELSE <<>>
    <3> DEFINE sj == seqs[j]
    <3>1. sj \in Seq(S) /\ \A i \in 1..Len(sj) : sj[i].auctionId = j OBVIOUS
    <3> HIDE DEF sj
    <3>2. OfAuction(sj, id) = IF id = j THEN sj ELSE <<>>
      BY <3>1, PickAll, PickNone
    <3> QED BY <3>2 DEF sj
  <2>3. 0 \in T
    <3>1. 1 \in 1..N /\ 0 + 1 = 1 BY <1>2
    <3>2. OfAuction(f[1], id) = IF id = 1 THEN seqs[1] ELSE <<>>
      BY <2>1, <2>2, <3>1
    <3>3. here(1) = IF id = 1 THEN seqs[1] ELSE <<>> OBVIOUS
    <3> HIDE DEF here
    <3> QED BY <3>1, <3>2, <3>3
  <2>4. ASSUME NEW n \in Nat, n \in T PROVE n + 1 \in T
    <3> SUFFICES ASSUME n + 1 < N
                 PROVE  OfAuction(f[(n + 1) + 1], id) = here((n + 1) + 1)
      <4> HIDE DEF here
      <4> QED OBVIOUS
    <3> DEFINE m == n + 1
               o == OfAuction(f[m], id)
    <3>1. m \in 1..(N - 1) /\ m \in 1..N /\ m + 1 \in 1..N OBVIOUS
    <3>2. f[m + 1] = Both(f[m], seqs[m + 1]) BY <2>1, <3>1
    <3>3. f[m] \in Seq(S) /\ seqs[m + 1] \in Seq(S) BY <2>1, <3>1
    <3>4. OfAuction(f[m + 1], id) = Both(o, OfAuction(seqs[m + 1], id))
      BY <3>2, <3>3, PickConcat
    <3>5. o = here(m) BY <2>4
    <3>6. o \in Seq(S)
      <4>1. seqs[id] \in Seq(S) \/ id \notin 1..m BY <3>1
      <4>2. <<>> \in Seq(S) BY EmptySeq
      <4> QED BY <3>5, <4>1, <4>2
    <3> HIDE DEF o
    <3>7. CASE id = m + 1
      <4>1. here(m) = <<>> /\ here(m + 1) = seqs[m + 1] BY <3>1, <3>7
      <4>2. OfAuction(seqs[m + 1], id) = seqs[m + 1] BY <2>2, <3>1, <3>7
      <4>3. Both(<<>>, seqs[m + 1]) = seqs[m + 1] BY <3>3, BothEmpty
      <4> HIDE DEF here, m
      <4> QED BY <3>4, <3>5, <4>1, <4>2, <4>3 DEF m
    <3>8. CASE id # m + 1
      <4>1. here(m + 1) = here(m) BY <3>1, <3>8
      <4>2. OfAuction(seqs[m + 1], id) = <<>> BY <2>2, <3>1, <3>8
      <4>3. Both(o, <<>>) = o BY <3>6, BothEmpty
      <4> HIDE DEF here, m
      <4> QED BY <3>4, <3>5, <4>1, <4>2, <4>3 DEF m
    <3> QED BY <3>7, <3>8
  <2>5. N - 1 \in T /\ (N - 1) + 1 = N /\ N - 1 < N
    <3>1. N - 1 \in Nat /\ (N - 1) + 1 = N /\ N - 1 < N BY <1>2
    <3> HIDE DEF T
    <3>2. Nat \subseteq T BY <2>3, <2>4, InductiveSet
    <3> QED BY <3>1, <3>2
  <2>6. OfAuction(f[N], id) = here(N)
    <3> HIDE DEF here
    <3> QED BY <2>5
  <2>7. f[N] \in Seq(S) BY <1>2, <2>1
  <2> QED BY <2>1, <2>6, <2>7
<1> QED BY <1>1, <1>2

-----------------------------------------------------------------------------
(***************************************************************************)
(* A restart.                                                              *)
(***************************************************************************)

\* There are no allowed bidders for an auction that is not created yet.
UnusedAllowed ==
  \A id \in AuctionIds \ Ids : \A u \in Users : allowed[id][u] = 0

\* The records of an auction, under its id.
BidRecord == [auctionId : Nat, id : Nat, bid : Bid]
QueueRecord == [auctionId : Nat, queue : VestingQueue]

LEMMA TheRecords ==
  ASSUME TypeOK, NEW id \in Ids
  PROVE  /\ TheBids(id) \in Seq(BidRecord)
         /\ Len(TheBids(id)) = Len(bids[id])
         /\ \A k \in 1..Len(bids[id]) :
              /\ TheBids(id)[k].auctionId = id /\ TheBids(id)[k].id = k
              /\ TheBids(id)[k].bid = bids[id][k]
         /\ TheQueues(id) \in Seq(QueueRecord)
         /\ Len(TheQueues(id)) = Len(vestingQueues[id])
         /\ \A i \in 1..Len(vestingQueues[id]) :
              /\ TheQueues(id)[i].auctionId = id
              /\ TheQueues(id)[i].queue = vestingQueues[id][i]
<1>1. id \in Nat /\ id \in AuctionIds BY AuctionFacts DEF AuctionIds
<1>2. bids[id] \in Seq(Bid) /\ vestingQueues[id] \in Seq(VestingQueue)
  BY <1>1 DEF TypeOK
<1>3. Len(bids[id]) \in Nat /\ Len(vestingQueues[id]) \in Nat
  BY <1>2, LenProperties
<1>4. ASSUME NEW k \in 1..Len(bids[id])
      PROVE  [auctionId |-> id, id |-> k, bid |-> bids[id][k]] \in BidRecord
  BY <1>1, <1>2, <1>3 DEF BidRecord
<1>5. ASSUME NEW i \in 1..Len(vestingQueues[id])
      PROVE  [auctionId |-> id, queue |-> vestingQueues[id][i]] \in QueueRecord
  BY <1>1, <1>2, <1>3 DEF QueueRecord
<1>6. TheBids(id) \in Seq(BidRecord) /\ Len(TheBids(id)) = Len(bids[id])
  BY <1>3, <1>4 DEF TheBids
<1>7. /\ TheQueues(id) \in Seq(QueueRecord)
      /\ Len(TheQueues(id)) = Len(vestingQueues[id])
  BY <1>3, <1>5 DEF TheQueues
<1> QED BY <1>6, <1>7 DEF TheBids, TheQueues

\* Records that carry their positions as ids are found at them.
LEMMA RecordsWithId ==
  ASSUME NEW n \in Nat, NEW f, DOMAIN f = 1..n, \A k \in 1..n : f[k].id = k
  PROVE  \A k \in 1..n : WithId(f, k) = f[k]
<1> SUFFICES ASSUME NEW k \in 1..n PROVE WithId(f, k) = f[k] OBVIOUS
<1>1. ToSet(f) = {f[j] : j \in 1..n} BY DEF ToSet
<1>2. \A r \in ToSet(f) : r.id = k => r = f[k] BY <1>1
<1>3. f[k] \in ToSet(f) /\ f[k].id = k BY <1>1
<1> QED BY <1>2, <1>3 DEF WithId

\* The bids of every auction are imported as they were.
LEMMA BidsReturn ==
  ASSUME TypeOK, RecordsInv, NEW id \in AuctionIds
  PROVE  ImportedBids(ExportGenesis, id) = bids[id]
<1> DEFINE seqs == [j \in Ids |-> TheBids(j)]
           N == Len(auctions)
           own == OfAuction(FlattenSeq(seqs), id)
<1>1. N \in Nat /\ Ids = 1..N /\ id \in Nat
  BY LenProperties DEF TypeOK, Ids, AuctionIds
<1>2. \A j \in Ids : TheBids(j) \in Seq(BidRecord) BY TheRecords
<1>3. seqs \in [1..N -> Seq(BidRecord)] BY <1>1, <1>2
<1>4. ASSUME NEW j \in 1..N, NEW i \in 1..Len(seqs[j])
      PROVE  seqs[j][i].auctionId = j
  BY <1>1, TheRecords
<1>5. ExportGenesis.bids = FlattenSeq(seqs) BY DEF ExportGenesis
<1> HIDE DEF N
<1>6. own = IF id \in 1..N THEN seqs[id] ELSE <<>>
  <2> HIDE DEF seqs
  <2> QED BY <1>1, <1>3, <1>4, Regrouped
<1>7. OfAuction(ExportGenesis.bids, id) = own BY <1>5
<1> HIDE DEF own
<1>8. bids[id] \in Seq(Bid) BY DEF TypeOK
<1>9. CASE id \in Ids
  <2>1. own = TheBids(id) BY <1>1, <1>6, <1>9
  <2>2. ImportedBids(ExportGenesis, id) =
          [k \in 1..Len(TheBids(id)) |-> WithId(TheBids(id), k).bid]
    BY <1>7, <2>1 DEF ImportedBids
  <2>3. \A k \in 1..Len(bids[id]) : WithId(TheBids(id), k) = TheBids(id)[k]
    <3>1. Len(bids[id]) \in Nat BY <1>8, LenProperties
    <3>2. /\ DOMAIN TheBids(id) = 1..Len(bids[id])
          /\ \A k \in 1..Len(bids[id]) : TheBids(id)[k].id = k
      BY <1>9, TheRecords DEF TheBids
    <3> QED BY <3>1, <3>2, RecordsWithId
  <2>4. ImportedBids(ExportGenesis, id) = [k \in 1..Len(bids[id]) |-> bids[id][k]]
    BY <1>9, <2>2, <2>3, TheRecords
  <2> QED BY <1>8, <2>4
<1>10. CASE id \notin Ids
  <2>1. own = <<>> BY <1>1, <1>6, <1>10
  <2>2. ImportedBids(ExportGenesis, id) = <<>>
    <3>1. Len(<<>>) = 0 /\ 1..0 = {} BY EmptySeq
    <3> QED BY <1>7, <2>1, <3>1 DEF ImportedBids
  <2> QED BY <1>10, <2>2 DEF RecordsInv, RecordsOf
<1> QED BY <1>9, <1>10

\* And its vesting queues.
LEMMA QueuesReturn ==
  ASSUME TypeOK, RecordsInv, NEW id \in AuctionIds
  PROVE  ImportedQueues(ExportGenesis, id) = vestingQueues[id]
<1> DEFINE seqs == [j \in Ids |-> TheQueues(j)]
           N == Len(auctions)
           own == OfAuction(FlattenSeq(seqs), id)
<1>1. N \in Nat /\ Ids = 1..N /\ id \in Nat
  BY LenProperties DEF TypeOK, Ids, AuctionIds
<1>2. \A j \in Ids : TheQueues(j) \in Seq(QueueRecord) BY TheRecords
<1>3. seqs \in [1..N -> Seq(QueueRecord)] BY <1>1, <1>2
<1>4. ASSUME NEW j \in 1..N, NEW i \in 1..Len(seqs[j])
      PROVE  seqs[j][i].auctionId = j
  BY <1>1, TheRecords
<1>5. ExportGenesis.vestingQueues = FlattenSeq(seqs) BY DEF ExportGenesis
<1> HIDE DEF N
<1>6. own = IF id \in 1..N THEN seqs[id] ELSE <<>>
  <2> HIDE DEF seqs
  <2> QED BY <1>1, <1>3, <1>4, Regrouped
<1>7. OfAuction(ExportGenesis.vestingQueues, id) = own BY <1>5
<1> HIDE DEF own
<1>8. vestingQueues[id] \in Seq(VestingQueue) BY DEF TypeOK
<1>9. CASE id \in Ids
  <2>1. own = TheQueues(id) BY <1>1, <1>6, <1>9
  <2>2. ImportedQueues(ExportGenesis, id) =
          [i \in 1..Len(TheQueues(id)) |-> TheQueues(id)[i].queue]
    BY <1>7, <2>1 DEF ImportedQueues
  <2>3. ImportedQueues(ExportGenesis, id) =
          [i \in 1..Len(vestingQueues[id]) |-> vestingQueues[id][i]]
    BY <1>9, <2>2, TheRecords
  <2> QED BY <1>8, <2>3
<1>10. CASE id \notin Ids
  <2>1. own = <<>> BY <1>1, <1>6, <1>10
  <2>2. ImportedQueues(ExportGenesis, id) = <<>>
    BY <1>7, <2>1, EmptySeq DEF ImportedQueues
  <2> QED BY <1>10, <2>2 DEF RecordsInv, RecordsOf
<1> QED BY <1>9, <1>10

\* And its allowed bidders.
LEMMA AllowedReturn ==
  ASSUME TypeOK, UnusedAllowed, NEW id \in AuctionIds, NEW u \in Users
  PROVE  ImportedMaxBidAmount(ExportGenesis, id, u) = allowed[id][u]
<1> DEFINE max == allowed[id][u]
           amounts == UNION {{allowed[j][v] : v \in Users} : j \in Ids}
           own == {r \in ExportGenesis.allowedBidderRecords :
                     r.auctionId = id /\ r.bidder = u}
<1>1. max \in Nat BY DEF TypeOK
<1>2. ExportGenesis.allowedBidderRecords =
        {r \in [auctionId : Ids, bidder : Users, maxBidAmount : amounts] :
           r.maxBidAmount = allowed[r.auctionId][r.bidder] /\ r.maxBidAmount > 0}
  BY DEF ExportGenesis
<1>3. \A r \in own : r.maxBidAmount = max /\ max > 0 /\ id \in Ids BY <1>2
<1>4. id \in Ids => max \in amounts OBVIOUS
<1> DEFINE x == [auctionId |-> id, bidder |-> u, maxBidAmount |-> max]
<1>5. id \in Ids /\ max > 0 => x \in own BY <1>2, <1>4
<1>6. ImportedMaxBidAmount(ExportGenesis, id, u) =
        IF own = {} THEN 0 ELSE (CHOOSE r \in own : TRUE).maxBidAmount
  BY DEF ImportedMaxBidAmount
<1>7. id \notin Ids => max = 0 BY DEF UnusedAllowed
<1> HIDE DEF own, max, x
<1>8. CASE own = {} BY <1>1, <1>5, <1>6, <1>7, <1>8 DEF max
<1>9. CASE own # {}
  <2>1. (CHOOSE r \in own : TRUE) \in own BY <1>9
  <2> QED BY <1>3, <1>6, <1>9, <2>1 DEF max
<1> QED BY <1>8, <1>9

\* A restart keeps everything but MatchedBidsLen, which is not exported.
Restarted ==
  /\ matchedBidsLen' = [id \in AuctionIds |-> 0]
  /\ UNCHANGED <<chain, auctions, allowed, bids, vestingQueues, accounts, reserves>>

LEMMA RestartEffect ==
  ASSUME TypeOK, RecordsInv, UnusedAllowed, Restart
  PROVE  Restarted
<1> DEFINE gs == ExportGenesis
<1>1. InitGenesis(gs) /\ UNCHANGED <<blockTime, cursor, accounts, reserves>>
  BY DEF Restart
<1>2. matchedBidsLen' = [id \in AuctionIds |-> 0] BY <1>1 DEF InitGenesis
<1>3. extendedPeriod' = extendedPeriod BY <1>1 DEF InitGenesis, ExportGenesis
<1>4. auctions' = auctions
  <2> DEFINE N == Len(auctions)
             exported == [id \in Ids |-> [id |-> id, auction |-> auctions[id]]]
  <2>1. auctions \in Seq(Auction) BY DEF TypeOK
  <2>2. N \in Nat /\ Ids = 1..N BY <2>1, LenProperties DEF Ids
  <2>3. gs.auctions = exported BY DEF ExportGenesis
  <2>4. Len(exported) = N BY <2>2
  <2>5. auctions' = [i \in 1..Len(gs.auctions) |-> WithId(gs.auctions, i).auction]
    BY <1>1 DEF InitGenesis
  <2>6. auctions' = [i \in 1..N |-> WithId(exported, i).auction]
    BY <2>3, <2>4, <2>5, Zenon
  <2>7. \A i \in 1..N : WithId(exported, i).auction = auctions[i]
    <3>1. DOMAIN exported = 1..N /\ \A i \in 1..N : exported[i].id = i BY <2>2
    <3>2. \A i \in 1..N : exported[i].auction = auctions[i] BY <2>2
    <3> HIDE DEF exported, N
    <3>3. \A i \in 1..N : WithId(exported, i) = exported[i]
      BY <2>2, <3>1, RecordsWithId
    <3> QED BY <3>2, <3>3
  <2> HIDE DEF exported, N
  <2>8. auctions' = [i \in 1..N |-> auctions[i]] BY <2>6, <2>7
  <2> QED BY <2>1, <2>8 DEF N
<1>5. allowed' = allowed
  <2>1. allowed' = [id \in AuctionIds |->
                      [u \in Users |-> ImportedMaxBidAmount(gs, id, u)]]
    BY <1>1 DEF InitGenesis
  <2>2. \A id \in AuctionIds : \A u \in Users :
          ImportedMaxBidAmount(gs, id, u) = allowed[id][u]
    BY AllowedReturn
  <2> HIDE DEF gs
  <2>3. allowed' = [id \in AuctionIds |-> [u \in Users |-> allowed[id][u]]]
    BY <2>1, <2>2
  <2> QED BY <2>3 DEF TypeOK
<1>6. bids' = bids
  <2>1. bids' = [id \in AuctionIds |-> ImportedBids(gs, id)]
    BY <1>1 DEF InitGenesis
  <2>2. \A id \in AuctionIds : ImportedBids(gs, id) = bids[id] BY BidsReturn
  <2> HIDE DEF gs
  <2> QED BY <2>1, <2>2 DEF TypeOK
<1>7. vestingQueues' = vestingQueues
  <2>1. vestingQueues' = [id \in AuctionIds |-> ImportedQueues(gs, id)]
    BY <1>1 DEF InitGenesis
  <2>2. \A id \in AuctionIds : ImportedQueues(gs, id) = vestingQueues[id]
    BY QueuesReturn
  <2> HIDE DEF gs
  <2> QED BY <2>1, <2>2 DEF TypeOK
<1> QED BY <1>1, <1>2, <1>3, <1>4, <1>5, <1>6, <1>7 DEF Restarted, chain

-----------------------------------------------------------------------------
(***************************************************************************)
(* What holds of the keeper holds of the chain, restarts included.         *)
(***************************************************************************)

\* The hooks do not change what the handlers and the BeginBlocker do.
LEMMA ChainStep ==
  ASSUME [ChainNext]_chainVars
  PROVE  [Next]_vars \/ Restart
<1>1. HookedDeliver => Deliver BY Zenon DEF HookedDeliver, Deliver
<1>2. HookedBeginBlocker => BeginBlocker
  BY Zenon DEF HookedBeginBlocker, BeginBlocker
<1>3. ChainNext => Next \/ Restart BY <1>1, <1>2, Zenon DEF ChainNext, Next
<1> QED BY <1>3 DEF chainVars

\* No auction disappears.
LEMMA IdsStay ==
  ASSUME TypeOK, [Next]_vars
  PROVE  Ids \subseteq Ids'
<1>1. ASSUME Quiet PROVE Ids \subseteq Ids' BY <1>1 DEF Quiet, Ids
<1>2. ASSUME NEW m \in CreateMsgs,
             CreateFixedPriceAuction(m) \/ CreateBatchAuction(m)
      PROVE  Ids \subseteq Ids'
  BY <1>2, CreateEffect DEF CreateFixedPriceAuction, CreateBatchAuction
<1>3. ASSUME NEW id \in Ids, ChangesOnly(id) PROVE Ids \subseteq Ids'
  BY <1>3 DEF ChangesOnly
<1>4. ASSUME NEW id \in Ids,
             CloseFixedPriceAuction(id) \/ CloseBatchAuction(id)
      PROVE  ChangesOnly(id)
  BY <1>4, CloseEffect
<1> QED
  BY <1>1, <1>2, <1>3, <1>4, StepCases, CancelEffect, PlaceEffect, ModifyEffect,
     TransferEffect, StandByEffect, ExtendEffect, ReleaseEffect, Zenon

\* Only AddAllowedBidders and UpdateAllowedBidder change the allowed bidders.
LEMMA AllowedChanges ==
  ASSUME [Next]_vars
  PROVE  \/ allowed' = allowed
         \/ \E id \in Ids, list \in AllowedBidderLists : AddAllowedBidders(id, list)
         \/ \E id \in Ids, u \in Users, max \in MaxBidAmounts :
              UpdateAllowedBidder(id, u, max)
<1> DEFINE Kept == allowed' = allowed
<1>1. UNCHANGED vars \/ NewBlock => Kept
  BY DEF vars, store, NewBlock, BeginBlock
<1>2. ASSUME NEW m, CreateFixedPriceAuction(m) \/ CreateBatchAuction(m) PROVE Kept
  BY <1>2 DEF CreateFixedPriceAuction, CreateBatchAuction, CreateAuction
<1>3. \A id, u : CancelAuction(id, u) => Kept BY DEF CancelAuction
<1>4. \A id, bid : PlaceFixedPriceBid(id, bid) \/ PlaceBatchWorthBid(id, bid)
                     \/ PlaceBatchManyBid(id, bid) => Kept
  BY DEF PlaceFixedPriceBid, PlaceBatchWorthBid, PlaceBatchManyBid
<1>5. \A id, k, u, price, denom, amount :
        ModifyBid(id, k, u, price, denom, amount) => Kept
  BY DEF ModifyBid
<1>6. \A id, u, amount : TransferToReserve(id, u, amount) => Kept
  BY DEF TransferToReserve, store
<1>7. \A period : ParamChange(period) => Kept BY DEF ParamChange, store
<1>8. BeginBlocker => Kept
  BY DEF BeginBlocker, ExecuteStandByStatus, CloseFixedPriceAuction,
     CloseBatchAuction, ExtendRound, ExecuteVestingStatus, NothingDue, store
<1> HIDE DEF Kept
<1>9. CASE Deliver
  BY <1>2, <1>3, <1>4, <1>5, <1>6, <1>7, <1>9, Zenon DEF Deliver, Kept
<1> QED BY <1>1, <1>8, <1>9, Zenon DEF Next, Kept

LEMMA UnusedAllowedStep ==
  ASSUME TypeOK, UnusedAllowed, [Next]_vars
  PROVE  UnusedAllowed'
<1> SUFFICES ASSUME NEW id \in AuctionIds \ Ids, NEW u \in Users
             PROVE  allowed'[id][u] = 0
  BY IdsStay DEF UnusedAllowed, AuctionIds
<1>1. allowed[id][u] = 0 BY DEF UnusedAllowed
<1>2. ASSUME NEW j \in Ids, NEW list, AddAllowedBidders(j, list)
      PROVE  allowed'[id] = allowed[id]
  BY <1>2 DEF AddAllowedBidders, TypeOK
<1>3. ASSUME NEW j \in Ids, NEW v, NEW max, UpdateAllowedBidder(j, v, max)
      PROVE  allowed'[id] = allowed[id]
  BY <1>3 DEF UpdateAllowedBidder, TypeOK
<1> QED BY <1>1, <1>2, <1>3, AllowedChanges

\* What a restart leaves as it was is all that these invariants are about, but
\* for MatchedBidsLen, of which a restart makes 0.
LEMMA RestartKeepsInvariants ==
  ASSUME TypeOK, Restarted
  PROVE  /\ TypeOK'
         /\ RecordsInv => RecordsInv'
         /\ UnusedAllowed => UnusedAllowed'
         /\ RoundsBounded => RoundsBounded'
         /\ Covered => Covered'
         /\ Exact => Exact'
         /\ VestingInv => VestingInv'
         /\ UnusedReserves => UnusedReserves'
         /\ MarksInv => MarksInv'
         /\ CoinsConserved => CoinsConserved'
<1> USE DEF Restarted
<1>1. TypeOK' BY DEF TypeOK, chain, accounts, reserves
<1>2. Ids' = Ids BY DEF Ids
<1>3. RecordsInv => RecordsInv' BY <1>2 DEF RecordsInv, RecordsOf
<1>4. UnusedAllowed => UnusedAllowed' BY <1>2 DEF UnusedAllowed
<1>5. RoundsBounded => RoundsBounded' BY <1>2 DEF RoundsBounded, Batch, Msg
<1>6. \A id \in AuctionIds :
        /\ SellingSurplus(id)' = SellingSurplus(id)
        /\ PayingSurplus(id)' = PayingSurplus(id)
        /\ VestingSurplus(id)' = VestingSurplus(id)
  BY <1>2 DEF SellingSurplus, PayingSurplus, VestingSurplus, reserves
<1>7. (Covered => Covered') /\ (Exact => Exact') BY <1>6 DEF Covered, Exact
<1>8. VestingInv => VestingInv' BY <1>2 DEF VestingInv, chain
<1>9. UnusedReserves => UnusedReserves' BY <1>2 DEF UnusedReserves, reserves
<1>10. MarksInv => MarksInv'
  <2>1. ASSUME NEW id \in Ids PROVE matchedBidsLen'[id] = 0
    BY AuctionFacts
  <2> QED BY <1>2, <2>1 DEF MarksInv, RoundOK
<1>11. CoinsConserved => CoinsConserved'
  BY DEF CoinsConserved, CirculatingCoin, Ids, Msg, accounts, reserves
<1> QED BY <1>1, <1>3, <1>4, <1>5, <1>7, <1>8, <1>9, <1>10, <1>11

ChainInv ==
  /\ TypeOK
  /\ RecordsInv
  /\ UnusedAllowed
  /\ RoundsBounded
  /\ Covered
  /\ VestingInv
  /\ UnusedReserves
  /\ MarksInv
  /\ CoinsConserved

LEMMA ChainInvInit == Init => ChainInv
<1> SUFFICES ASSUME Init PROVE ChainInv OBVIOUS
<1>1. Ids = {} BY EmptySeq DEF Init, Ids
<1>2. UnusedAllowed BY DEF Init, UnusedAllowed
<1>3. RoundsBounded /\ VestingInv /\ MarksInv
  BY <1>1 DEF RoundsBounded, VestingInv, MarksInv
<1> QED BY <1>2, <1>3, InitType, RecordsInit, SurplusInit, CoinsInit DEF ChainInv

LEMMA ChainInvStep ==
  ASSUME ChainInv, [ChainNext]_chainVars
  PROVE  ChainInv'
<1> USE DEF ChainInv
<1>1. CASE [Next]_vars
  <2>1. TypeOK' BY <1>1, NextType
  <2>2. RecordsInv' /\ UnusedAllowed' BY <1>1, RecordsStep, UnusedAllowedStep
  <2>3. RoundsBounded' BY <1>1, <2>1, RoundsStep
  <2>4. Covered' /\ VestingInv' BY <1>1, CoveredStep, VestingStep
  <2>5. UnusedReserves' /\ CoinsConserved' BY <1>1, UnusedStep, ConservedStep
  <2>6. MarksInv' BY <1>1, MarksStep
  <2> QED BY <2>1, <2>2, <2>3, <2>4, <2>5, <2>6
<1>2. CASE Restart BY <1>2, RestartEffect, RestartKeepsInvariants
<1> QED BY <1>1, <1>2, ChainStep

LEMMA ChainInvSound == ChainSpec => []ChainInv
BY ChainInvInit, ChainInvStep, PTL DEF ChainSpec, ChainInit

\* keeper/genesis.go, ExportGenesis and InitGenesis: a chain that is stopped
\* between two blocks, exported and started again has every auction, bid, vesting
\* queue and allowed bidder it had, under the ids and in the order they had,
\* although neither the last ids nor the order are exported.
THEOREM RestartLosesNoRecord == ChainSpec => RestartKeepsRecords
<1>1. ChainInv /\ [ChainNext]_chainVars =>
        [Restart => UNCHANGED <<auctions, allowed, bids, vestingQueues>>]_vars
  BY RestartEffect DEF ChainInv, Restarted
<1> QED BY <1>1, ChainInvSound, PTL DEF ChainSpec, RestartKeepsRecords

\* What keeper/invariants.go, keeper/bid.go, keeper/auction.go and
\* keeper/vesting.go keep true, and what the bank's ledger adds up to, holds of
\* every behaviour of the chain: the reserve accounts cover what is owed, fixed
\* price auctions are not oversold, rounds are bounded, vested coins are released
\* in order, no coin is lost and no BeginBlocker panics, with whatever hooks and
\* however often the chain is restarted from its own export, which drops
\* MatchedBidsLen.
THEOREM KeeperSurvivesRestarts ==
  ChainSpec => [](/\ TypeOK
                  /\ ReservesCoverObligations
                  /\ FixedPriceNeverOversold
                  /\ RoundsBounded
                  /\ VestingInOrder
                  /\ CoinsConserved
                  /\ BeginBlockerNeverPanics)
<1>1. ChainInv => /\ TypeOK /\ RoundsBounded /\ CoinsConserved
                  /\ ReservesCoverObligations /\ FixedPriceNeverOversold
                  /\ VestingInOrder /\ BeginBlockerNeverPanics
  BY ReservesCoverNow, NeverOversoldNow, VestingInOrderNow, NeverPanicsNow
     DEF ChainInv
<1> QED BY <1>1, ChainInvSound, PTL

\* keeper/bid.go, CloseBatchAuction and ModifyBid, across restarts: bids only ever
\* improve, and a batch auction is settled fairly and not after it was sniped,
\* whenever the chain is exported and imported in between.
THEOREM RulesSurviveRestarts ==
  ChainSpec => BidsOnlyImprove /\ BatchSettlementIsFair /\ NoCloseAfterSniping
<1> DEFINE BooksImprove == \A id \in Ids : BookImproves(id)
<1>1. ASSUME ChainInv, [ChainNext]_chainVars
      PROVE  [BooksImprove]_vars /\ [SettlesFairly]_vars /\ [ClosesFairly]_vars
  <2>1. CASE [Next]_vars
    BY <1>1, <2>1, BookStep, FairStep, SnipingStep DEF ChainInv
  <2>2. CASE Restart
    <3>1. auctions' = auctions /\ bids' = bids
      BY <1>1, <2>2, RestartEffect DEF ChainInv, Restarted
    <3>2. BooksImprove BY <1>1, <3>1, SameBookImproves DEF ChainInv
    <3>3. \A id \in Ids : ~SettlesBatch(id)
      BY <3>1 DEF SettlesBatch, Settled, Status
    <3> QED BY <3>2, <3>3 DEF SettlesFairly, ClosesFairly
  <2> QED BY <1>1, <2>1, <2>2, ChainStep
<1> QED
  BY <1>1, ChainInvSound, PTL
     DEF ChainSpec, BidsOnlyImprove, BatchSettlementIsFair, SettlesFairly,
         NoCloseAfterSniping, ClosesFairly

LEMMA ChainExact ==
  ASSUME Transfers = {}
  PROVE  ChainSpec => []Exact
<1>1. Init => Exact BY SurplusInit
<1>2. ASSUME ChainInv, Exact, [ChainNext]_chainVars PROVE Exact'
  <2>1. CASE [Next]_vars BY <1>2, <2>1, ExactStep DEF ChainInv
  <2>2. CASE Restart
    BY <1>2, <2>2, RestartEffect, RestartKeepsInvariants DEF ChainInv
  <2> QED BY <1>2, <2>1, <2>2, ChainStep
<1> QED BY <1>1, <1>2, ChainInvSound, PTL DEF ChainSpec, ChainInit

\* When nobody sends coins to the reserve accounts, they hold exactly what the
\* auctions owe after a restart as before it: the bank's balances, which the bank
\* exports by itself, still agree with the records that this module exports.
THEOREM ReservesExactAcrossRestarts ==
  ASSUME Transfers = {}
  PROVE  ChainSpec => []ReservesAreExact
<1>1. ChainInv /\ Exact => ReservesAreExact BY ReservesExactNow DEF ChainInv
<1> QED BY <1>1, ChainInvSound, ChainExact, PTL

\* The chain is the escrow that the keeper is: a restart is no step of it.
THEOREM ChainIsEscrow ==
  ASSUME Transfers = {}
  PROVE  ChainSpec => ImplementsEscrow
<1>1. ASSUME ChainInv, Exact, [ChainNext]_chainVars
      PROVE  [Escrow!Next]_Escrow!vars
  <2>1. CASE [Next]_vars
    BY <1>1, <2>1, StepsOfEscrow DEF ChainInv, EscrowStep
  <2>2. CASE Restart
    <3>1. auctions' = auctions
          /\ UNCHANGED <<sellingReserve, payingReserve, vestingReserve>>
      BY <1>1, <2>2, RestartEffect DEF ChainInv, Restarted, reserves
    <3>2. Stage' = Stage BY <3>1 DEF Stage, Ids, Status
    <3> QED BY <3>1, <3>2 DEF Escrow!vars
  <2> QED BY <1>1, <2>1, <2>2, ChainStep
<1> QED
  BY <1>1, EscrowInit, ChainInvSound, ChainExact, PTL
     DEF ChainSpec, ChainInit, ImplementsEscrow, Escrow!Spec

-----------------------------------------------------------------------------
(***************************************************************************)
(* The hooks: what one call tells a listener.                              *)
(***************************************************************************)
Heard(v) ==
  v = [auctions |-> v.auctions, cancelled |-> v.cancelled, bids |-> v.bids,
       limits |-> v.limits, lists |-> v.lists, announced |-> v.announced]

\* Every listener has a view.
SeenOK ==
  /\ seen = [l \in Listeners |-> seen[l]]
  /\ \A l \in Listeners : Heard(seen[l])

\* Of its auctions, cancellations, bids and announcements, the listener has now
\* heard these.
Hears(l, a, c, b, n) ==
  /\ seen'[l].auctions = a
  /\ seen'[l].cancelled = c
  /\ seen'[l].bids = b
  /\ seen'[l].announced = n

HearsNothing(l) ==
  Hears(l, seen[l].auctions, seen[l].cancelled, seen[l].bids, seen[l].announced)

LEMMA HearsCreated ==
  ASSUME SeenOK, NEW id, NEW m, AfterAuctionCreated(id, m)
  PROVE  /\ SeenOK'
         /\ \A l \in Listeners :
              Hears(l, Put(seen[l].auctions, id, m), seen[l].cancelled,
                    seen[l].bids, seen[l].announced)
<1>1. seen' = [l \in Listeners |->
                 [seen[l] EXCEPT !.auctions = Put(seen[l].auctions, id, m)]]
  BY DEF AfterAuctionCreated, Call
<1>2. ASSUME NEW l \in Listeners
      PROVE  seen'[l] = [auctions |-> Put(seen[l].auctions, id, m),
                         cancelled |-> seen[l].cancelled, bids |-> seen[l].bids,
                         limits |-> seen[l].limits, lists |-> seen[l].lists,
                         announced |-> seen[l].announced]
  BY <1>1 DEF SeenOK, Heard
<1> QED BY <1>1, <1>2 DEF SeenOK, Heard, Hears

Including(set, x) == set \cup {x}

Payments(allocation, refund) == [allocation |-> allocation, refund |-> refund]

LEMMA HearsCancelled ==
  ASSUME SeenOK, NEW id, BeforeAuctionCanceled(id)
  PROVE  /\ SeenOK'
         /\ \A l \in Listeners :
              Hears(l, seen[l].auctions, Including(seen[l].cancelled, id),
                    seen[l].bids, seen[l].announced)
<1>1. seen' = [l \in Listeners |->
                 [seen[l] EXCEPT !.cancelled = Including(seen[l].cancelled, id)]]
  BY DEF BeforeAuctionCanceled, Call, Including
<1>2. ASSUME NEW l \in Listeners
      PROVE  seen'[l] = [auctions |-> seen[l].auctions,
                         cancelled |-> Including(seen[l].cancelled, id),
                         bids |-> seen[l].bids, limits |-> seen[l].limits,
                         lists |-> seen[l].lists,
                         announced |-> seen[l].announced]
  BY <1>1 DEF SeenOK, Heard
<1> QED BY <1>1, <1>2 DEF SeenOK, Heard, Hears

LEMMA HearsPlaced ==
  ASSUME SeenOK, NEW id, NEW k, NEW bid, BeforeBidPlaced(id, k, bid)
  PROVE  /\ SeenOK'
         /\ \A l \in Listeners :
              Hears(l, seen[l].auctions, seen[l].cancelled,
                    Put(seen[l].bids, <<id, k>>, Terms(bid)),
                    seen[l].announced)
<1>1. seen' = [l \in Listeners |->
                 [seen[l] EXCEPT !.bids = Put(seen[l].bids, <<id, k>>, Terms(bid))]]
  BY DEF BeforeBidPlaced, Call
<1>2. ASSUME NEW l \in Listeners
      PROVE  seen'[l] = [auctions |-> seen[l].auctions,
                         cancelled |-> seen[l].cancelled,
                         bids |-> Put(seen[l].bids, <<id, k>>, Terms(bid)),
                         limits |-> seen[l].limits,
                         lists |-> seen[l].lists,
                         announced |-> seen[l].announced]
  BY <1>1 DEF SeenOK, Heard
<1> QED BY <1>1, <1>2 DEF SeenOK, Heard, Hears

LEMMA HearsModified ==
  ASSUME SeenOK, NEW id, NEW k, NEW price, NEW amount,
         BeforeBidModified(id, k, price, amount)
  PROVE  /\ SeenOK'
         /\ \A l \in Listeners :
              Hears(l, seen[l].auctions, seen[l].cancelled,
                    Put(seen[l].bids, <<id, k>>,
                        Terms([bids[id][k] EXCEPT !.price = price,
                                                  !.amount = amount])),
                    seen[l].announced)
<1> DEFINE new == Terms([bids[id][k] EXCEPT !.price = price, !.amount = amount])
<1>1. seen' = [l \in Listeners |->
                 [seen[l] EXCEPT !.bids = Put(seen[l].bids, <<id, k>>, new)]]
  BY DEF BeforeBidModified, Call
<1>2. ASSUME NEW l \in Listeners
      PROVE  seen'[l] = [auctions |-> seen[l].auctions,
                         cancelled |-> seen[l].cancelled,
                         bids |-> Put(seen[l].bids, <<id, k>>, new),
                         limits |-> seen[l].limits,
                         lists |-> seen[l].lists,
                         announced |-> seen[l].announced]
  BY <1>1 DEF SeenOK, Heard
<1> QED BY <1>1, <1>2 DEF SeenOK, Heard, Hears

LEMMA HearsLimit ==
  ASSUME SeenOK, NEW id, NEW u, NEW max, BeforeAllowedBidderUpdated(id, u, max)
  PROVE  /\ SeenOK'
         /\ \A l \in Listeners : HearsNothing(l)
<1>1. seen' = [l \in Listeners |->
                 [seen[l] EXCEPT !.limits = Put(seen[l].limits, <<id, u>>, max)]]
  BY DEF BeforeAllowedBidderUpdated, Call
<1>2. ASSUME NEW l \in Listeners
      PROVE  seen'[l] = [auctions |-> seen[l].auctions,
                         cancelled |-> seen[l].cancelled,
                         bids |-> seen[l].bids,
                         limits |-> Put(seen[l].limits, <<id, u>>, max),
                         lists |-> seen[l].lists,
                         announced |-> seen[l].announced]
  BY <1>1 DEF SeenOK, Heard
<1> QED BY <1>1, <1>2 DEF SeenOK, Heard, Hears, HearsNothing

LEMMA HearsList ==
  ASSUME SeenOK, NEW list, BeforeAllowedBiddersAdded(list)
  PROVE  /\ SeenOK'
         /\ \A l \in Listeners : HearsNothing(l)
<1>1. seen' = [l \in Listeners |->
                 [seen[l] EXCEPT !.lists = Including(seen[l].lists, list)]]
  BY DEF BeforeAllowedBiddersAdded, Call, Including
<1>2. ASSUME NEW l \in Listeners
      PROVE  seen'[l] = [auctions |-> seen[l].auctions,
                         cancelled |-> seen[l].cancelled,
                         bids |-> seen[l].bids, limits |-> seen[l].limits,
                         lists |-> Including(seen[l].lists, list),
                         announced |-> seen[l].announced]
  BY <1>1 DEF SeenOK, Heard
<1> QED BY <1>1, <1>2 DEF SeenOK, Heard, Hears, HearsNothing

LEMMA HearsAnnounced ==
  ASSUME SeenOK, NEW id, NEW allocation, NEW refund,
         BeforeSellingCoinsAllocated(id, allocation, refund)
  PROVE  /\ SeenOK'
         /\ \A l \in Listeners :
              Hears(l, seen[l].auctions, seen[l].cancelled,
                    seen[l].bids,
                    Put(seen[l].announced, id, Payments(allocation, refund)))
<1>1. seen' = [l \in Listeners |->
                 [seen[l] EXCEPT !.announced =
                    Put(seen[l].announced, id, Payments(allocation, refund))]]
  BY DEF BeforeSellingCoinsAllocated, Call, Payments
<1>2. ASSUME NEW l \in Listeners
      PROVE  seen'[l] = [auctions |-> seen[l].auctions,
                         cancelled |-> seen[l].cancelled,
                         bids |-> seen[l].bids, limits |-> seen[l].limits,
                         lists |-> seen[l].lists,
                         announced |-> Put(seen[l].announced, id,
                                           Payments(allocation, refund))]
  BY <1>1 DEF SeenOK, Heard
<1> QED BY <1>1, <1>2 DEF SeenOK, Heard, Hears

LEMMA HearsNoHook ==
  ASSUME SeenOK, UNCHANGED seen
  PROVE  SeenOK' /\ \A l \in Listeners : HearsNothing(l)
BY DEF SeenOK, HearsNothing, Hears

-----------------------------------------------------------------------------
(***************************************************************************)
(* The mirror.                                                             *)
(***************************************************************************)

\* The bids of all auctions.
BidIds == UNION {{id} \X (1..Len(bids[id])) : id \in Ids}

\* The auctions and the cancellations, and the bids, that a listener knows.
AuctionsMirrored(v) ==
  /\ v.auctions = [id \in Ids |-> Msg(id)]
  /\ v.cancelled = {id \in Ids : Status(id) = "Cancelled"}

BidsMirrored(v) ==
  /\ DOMAIN v.bids = BidIds
  /\ \A id \in Ids : \A k \in 1..Len(bids[id]) :
       v.bids[<<id, k>>] = Terms(bids[id][k])

LEMMA BidIdsAre ==
  /\ \A id \in Ids : \A k \in 1..Len(bids[id]) : <<id, k>> \in BidIds
  /\ \A b \in BidIds : /\ b[1] \in Ids /\ b[2] \in 1..Len(bids[b[1]])
                       /\ b = <<b[1], b[2]>>
BY DEF BidIds

LEMMA MirrorParts ==
  MirrorIsExact <=>
    \A l \in Listeners : AuctionsMirrored(seen[l]) /\ BidsMirrored(seen[l])
<1>1. ASSUME NEW v, DOMAIN v.bids = BidIds
      PROVE  (\A b \in DOMAIN v.bids : v.bids[b] = Terms(bids[b[1]][b[2]])) <=>
             (\A id \in Ids : \A k \in 1..Len(bids[id]) :
                v.bids[<<id, k>>] = Terms(bids[id][k]))
  <2>1. ASSUME \A b \in BidIds : v.bids[b] = Terms(bids[b[1]][b[2]]),
               NEW id \in Ids, NEW k \in 1..Len(bids[id])
        PROVE  v.bids[<<id, k>>] = Terms(bids[id][k])
    <3>1. <<id, k>> \in BidIds BY BidIdsAre
    <3>2. <<id, k>>[1] = id /\ <<id, k>>[2] = k OBVIOUS
    <3> QED BY <2>1, <3>1, <3>2
  <2>2. ASSUME \A id \in Ids : \A k \in 1..Len(bids[id]) :
                 v.bids[<<id, k>>] = Terms(bids[id][k]),
               NEW b \in BidIds
        PROVE  v.bids[b] = Terms(bids[b[1]][b[2]])
    <3>1. b[1] \in Ids /\ b[2] \in 1..Len(bids[b[1]]) BY BidIdsAre
    <3>2. v.bids[<<b[1], b[2]>>] = Terms(bids[b[1]][b[2]]) BY <2>2, <3>1
    <3>3. b = <<b[1], b[2]>> BY BidIdsAre
    <3> QED BY <3>2, <3>3
  <2> QED BY <1>1, <2>1, <2>2
<1>2. \A l \in Listeners :
        /\ seen[l].auctions = [id \in Ids |-> Msg(id)]
        /\ seen[l].cancelled = {id \in Ids : Status(id) = "Cancelled"}
        <=> AuctionsMirrored(seen[l])
  BY DEF AuctionsMirrored
<1>3. \A l \in Listeners :
        /\ DOMAIN seen[l].bids = BidIds
        /\ \A b \in DOMAIN seen[l].bids :
             seen[l].bids[b] = Terms(bids[b[1]][b[2]])
        <=> BidsMirrored(seen[l])
  BY <1>1, Zenon DEF BidsMirrored
<1> QED BY <1>2, <1>3, Zenon DEF MirrorIsExact, BidIds

\* The book new has the terms of the book old.
SameTerms(old, new) ==
  /\ Len(new) = Len(old)
  /\ \A k \in 1..Len(old) : Terms(new[k]) = Terms(old[k])

\* A step that changes nothing a listener is told of.
KeepsAuctions ==
  /\ Ids' = Ids
  /\ \A id \in Ids : /\ auctions'[id].msg = auctions[id].msg
                     /\ auctions'[id].status = "Cancelled" <=>
                          auctions[id].status = "Cancelled"

KeepsTerms == \A id \in Ids : SameTerms(bids[id], bids'[id])

LEMMA AuctionsStay ==
  ASSUME KeepsAuctions, NEW l, AuctionsMirrored(seen[l]),
         seen'[l].auctions = seen[l].auctions,
         seen'[l].cancelled = seen[l].cancelled
  PROVE  AuctionsMirrored(seen[l])'
BY DEF KeepsAuctions, AuctionsMirrored, Msg, Status

LEMMA BidsStay ==
  ASSUME Ids' = Ids, KeepsTerms, NEW CONSTANT l, BidsMirrored(seen[l]),
         seen'[l].bids = seen[l].bids
  PROVE  BidsMirrored(seen[l])'
<1>1. \A id \in Ids : Len(bids'[id]) = Len(bids[id]) BY DEF KeepsTerms, SameTerms
<1>2. BidIds' = BidIds
  <2>1. BidIds' = UNION {{id} \X (1..Len(bids'[id])) : id \in Ids} BY DEF BidIds
  <2> QED BY <1>1, <2>1 DEF BidIds
<1>3. ASSUME NEW id \in Ids, NEW k \in 1..Len(bids'[id])
      PROVE  seen'[l].bids[<<id, k>>] = Terms(bids'[id][k])
  BY <1>1 DEF KeepsTerms, SameTerms, BidsMirrored
<1> QED BY <1>2, <1>3 DEF BidsMirrored, Terms

\* A book has its own terms, and the marks of the matching are not among them.
LEMMA TermsStay ==
  ASSUME NEW book \in Seq(Bid), NEW matched
  PROVE  SameTerms(book, book) /\ SameTerms(book, MarkedBook(book, matched))
<1> DEFINE n == Len(book)
           new == MarkedBook(book, matched)
<1>1. n \in Nat BY LenProperties
<1>2. Len(new) = n BY <1>1 DEF MarkedBook
<1>3. ASSUME NEW k \in 1..n PROVE Terms(new[k]) = Terms(book[k])
  <2>1. book[k] \in Bid BY ElementOfSeq
  <2>2. new[k] = [book[k] EXCEPT !.isMatched = book[k].isMatched \/ k \in matched]
    BY DEF MarkedBook
  <2> QED BY <2>1, <2>2 DEF Terms, Bid
<1> HIDE DEF new
<1>4. SameTerms(book, new) BY <1>2, <1>3 DEF SameTerms
<1> QED BY <1>4 DEF SameTerms, new

\* It is enough to look at the auction that a step changes.
LEMMA OneKept ==
  ASSUME TypeOK, NEW id \in Ids, ChangesOnly(id),
         auctions'[id].msg = auctions[id].msg,
         auctions'[id].status = "Cancelled" <=> auctions[id].status = "Cancelled"
  PROVE  /\ KeepsAuctions
         /\ SameTerms(bids[id], bids'[id]) => KeepsTerms
<1>1. ASSUME NEW j \in Ids, j # id
      PROVE  auctions'[j] = auctions[j] /\ SameTerms(bids[j], bids'[j])
  <2>1. j \in AuctionIds \ {id} BY <1>1, AuctionFacts
  <2>2. auctions'[j] = auctions[j] /\ bids'[j] = bids[j]
    BY <2>1 DEF ChangesOnly, Same
  <2> QED BY <2>2 DEF SameTerms
<1>2. KeepsAuctions BY <1>1 DEF KeepsAuctions, ChangesOnly
<1> QED BY <1>1, <1>2 DEF KeepsTerms

\* The steps that a listener is not told of, or only of the payments they make.
LEMMA KeptSteps ==
  ASSUME TypeOK
  PROVE  /\ Quiet \/ Restarted => KeepsAuctions /\ KeepsTerms
         /\ \A id \in Ids :
              \/ ExecuteStandByStatus(id)
              \/ CloseFixedPriceAuction(id)
              \/ CloseBatchAuction(id)
              \/ ExtendRound(id)
              \/ ExecuteVestingStatus(id)
              => KeepsAuctions /\ KeepsTerms
         /\ \A id \in Ids, u \in Users, amount \in Transfers :
              TransferToReserve(id, u, amount) => KeepsAuctions /\ KeepsTerms
<1>1. Quiet \/ Restarted => KeepsAuctions /\ KeepsTerms
  BY DEF Quiet, Restarted, KeepsAuctions, KeepsTerms, SameTerms, Ids
<1>2. ASSUME NEW id \in Ids, NEW s, NEW e
      PROVE  /\ auctions[id].status \in AuctionStatus
             /\ [auctions[id] EXCEPT !.status = s].msg = auctions[id].msg
             /\ [auctions[id] EXCEPT !.status = s].status = s
             /\ [auctions[id] EXCEPT !.endTimes = e].msg = auctions[id].msg
             /\ [auctions[id] EXCEPT !.endTimes = e].status = auctions[id].status
  BY AuctionFacts DEF Auction
<1>3. ASSUME NEW id \in Ids, NEW matched
      PROVE  /\ SameTerms(bids[id], bids[id])
             /\ SameTerms(bids[id], MarkedBook(bids[id], matched))
  BY AuctionFacts, TermsStay DEF TypeOK
<1>4. ASSUME NEW id \in Ids, ExecuteStandByStatus(id)
      PROVE  KeepsAuctions /\ KeepsTerms
  <2>1. /\ ChangesOnly(id) /\ auctions[id].status = "StandBy"
        /\ auctions'[id] = [auctions[id] EXCEPT !.status = "Started"]
        /\ bids'[id] = bids[id]
    BY <1>4, StandByEffect DEF Status
  <2>2. /\ auctions'[id].msg = auctions[id].msg
        /\ auctions'[id].status = "Started"
    BY <1>2, <2>1
  <2>3. SameTerms(bids[id], bids'[id]) BY <1>3, <2>1
  <2> QED BY <2>1, <2>2, <2>3, OneKept
<1>5. ASSUME NEW id \in Ids, CloseFixedPriceAuction(id) \/ CloseBatchAuction(id)
      PROVE  KeepsAuctions /\ KeepsTerms
  <2>1. PICK matched :
          /\ ChangesOnly(id) /\ auctions[id].status = "Started"
          /\ auctions'[id] = [auctions[id] EXCEPT !.status =
               IF Msg(id).schedules # <<>> THEN "Vesting" ELSE "Finished"]
          /\ bids'[id] \in {bids[id], MarkedBook(bids[id], matched)}
    BY <1>5, CloseEffect DEF Status
  <2>2. /\ auctions'[id].msg = auctions[id].msg
        /\ auctions'[id].status # "Cancelled"
    BY <1>2, <2>1
  <2>3. SameTerms(bids[id], bids'[id]) BY <1>3, <2>1
  <2> QED BY <2>1, <2>2, <2>3, OneKept
<1>6. ASSUME NEW id \in Ids, ExtendRound(id)
      PROVE  KeepsAuctions /\ KeepsTerms
  <2> DEFINE e == Append(auctions[id].endTimes, EndTime(id) + extendedPeriod)
             matched == BatchAllocation(id).matchedBids
  <2>1. /\ ChangesOnly(id)
        /\ auctions'[id] = [auctions[id] EXCEPT !.endTimes = e]
        /\ bids'[id] = MarkedBook(bids[id], matched)
    BY <1>6, ExtendEffect
  <2> HIDE DEF e, matched
  <2>2. /\ auctions'[id].msg = auctions[id].msg
        /\ auctions'[id].status = auctions[id].status
    BY <1>2, <2>1
  <2>3. SameTerms(bids[id], bids'[id]) BY <1>3, <2>1
  <2> QED BY <2>1, <2>2, <2>3, OneKept
<1>7. ASSUME NEW id \in Ids, ExecuteVestingStatus(id)
      PROVE  KeepsAuctions /\ KeepsTerms
  <2>1. PICK s : /\ ChangesOnly(id) /\ auctions[id].status = "Vesting"
                 /\ auctions'[id] = [auctions[id] EXCEPT !.status = s]
                 /\ s \in {"Vesting", "Finished"}
                 /\ bids'[id] = bids[id]
    BY <1>7, ReleaseEffect DEF Status
  <2>2. /\ auctions'[id].msg = auctions[id].msg
        /\ auctions'[id].status # "Cancelled"
    BY <1>2, <2>1
  <2>3. SameTerms(bids[id], bids'[id]) BY <1>3, <2>1
  <2> QED BY <2>1, <2>2, <2>3, OneKept
<1>8. ASSUME NEW id \in Ids, NEW u \in Users, NEW amount \in Transfers,
             TransferToReserve(id, u, amount)
      PROVE  KeepsAuctions /\ KeepsTerms
  BY <1>3, <1>8, TransferEffect, OneKept
<1> QED BY <1>1, <1>4, <1>5, <1>6, <1>7, <1>8

\* A bid that is placed or modified is told with the terms it has then.
LEMMA BidTold ==
  ASSUME TypeOK, NEW id \in Ids, ChangesOnly(id), NEW k, NEW terms,
         1..Len(bids'[id]) = (1..Len(bids[id])) \cup {k},
         Terms(bids'[id][k]) = terms,
         \A i \in (1..Len(bids[id])) \ {k} :
           Terms(bids'[id][i]) = Terms(bids[id][i]),
         NEW l, BidsMirrored(seen[l]),
         seen'[l].bids = Put(seen[l].bids, <<id, k>>, terms)
  PROVE  BidsMirrored(seen[l])'
<1> DEFINE old == seen[l].bids
           new == seen'[l].bids
<1>1. \A j \in Ids \ {id} : bids'[j] = bids[j]
  BY AuctionFacts DEF ChangesOnly, Same
<1>2. Ids' = Ids BY DEF ChangesOnly
<1>3. DOMAIN new = BidIds \cup {<<id, k>>} BY DEF Put, BidsMirrored
<1>4. BidIds' = BidIds \cup {<<id, k>>}
  <2>1. \A j \in Ids : \A i :
          i \in 1..Len(bids'[j]) <=>
            i \in 1..Len(bids[j]) \/ (j = id /\ i = k)
    BY <1>1
  <2>2. ASSUME NEW b \in BidIds' PROVE b \in BidIds \cup {<<id, k>>}
    <3>1. /\ b[1] \in Ids /\ b[2] \in 1..Len(bids'[b[1]])
          /\ b = <<b[1], b[2]>>
      BY <1>2, <2>2 DEF BidIds
    <3>2. CASE b[2] \in 1..Len(bids[b[1]])
      <4>1. <<b[1], b[2]>> \in BidIds BY <3>1, <3>2, BidIdsAre
      <4> QED BY <3>1, <4>1
    <3>3. CASE b[1] = id /\ b[2] = k BY <3>1, <3>3
    <3> QED BY <2>1, <3>1, <3>2, <3>3
  <2>3. ASSUME NEW b \in BidIds \cup {<<id, k>>} PROVE b \in BidIds'
    <3>1. PICK j \in Ids : \E i \in 1..Len(bids'[j]) : b = <<j, i>>
      <4>1. CASE b = <<id, k>> BY <2>1, <4>1
      <4>2. CASE b \in BidIds
        <5>1. /\ b[1] \in Ids /\ b[2] \in 1..Len(bids[b[1]])
              /\ b = <<b[1], b[2]>>
          BY <4>2, BidIdsAre
        <5> QED BY <2>1, <5>1
      <4> QED BY <2>3, <4>1, <4>2
    <3> QED BY <1>2, <3>1 DEF BidIds
  <2> QED BY <2>2, <2>3
<1>5. ASSUME NEW j \in Ids, NEW i \in 1..Len(bids'[j])
      PROVE  new[<<j, i>>] = Terms(bids'[j][i])
  <2>1. CASE j = id /\ i = k BY <2>1 DEF Put
  <2>2. CASE ~(j = id /\ i = k)
    <3>1. i \in 1..Len(bids[j]) BY <1>1, <2>2
    <3>2. <<j, i>> # <<id, k>> BY <2>2
    <3>3. <<j, i>> \in DOMAIN old BY <3>1, BidIdsAre DEF BidsMirrored
    <3>4. new[<<j, i>>] = old[<<j, i>>] BY <3>2, <3>3 DEF Put
    <3>5. old[<<j, i>>] = Terms(bids[j][i]) BY <3>1 DEF BidsMirrored
    <3>6. Terms(bids'[j][i]) = Terms(bids[j][i]) BY <1>1, <2>2, <3>1
    <3> QED BY <3>4, <3>5, <3>6
  <2> QED BY <2>1, <2>2
<1> QED BY <1>2, <1>3, <1>4, <1>5 DEF BidsMirrored, Terms

\* The auction that is created is told under its id.
LEMMA AuctionTold ==
  ASSUME TypeOK, RecordsInv, NEW m \in CreateMsgs, CreateAuction(m),
         NEW l, AuctionsMirrored(seen[l]), BidsMirrored(seen[l]),
         seen'[l].auctions = Put(seen[l].auctions, NextAuctionId, m),
         seen'[l].cancelled = seen[l].cancelled,
         seen'[l].bids = seen[l].bids
  PROVE  AuctionsMirrored(seen[l])' /\ BidsMirrored(seen[l])'
<1> DEFINE id == NextAuctionId
<1>1. /\ id \in AuctionIds /\ id \notin Ids /\ Ids' = Ids \cup {id}
      /\ auctions'[id] = NewAuction(m) /\ bids'[id] = bids[id]
      /\ \A j \in AuctionIds \ {id} : Same(j)
  BY CreateEffect
<1>2. ASSUME NEW j \in Ids
      PROVE  auctions'[j] = auctions[j] /\ bids'[j] = bids[j] /\ j # id
  <2>1. j \in AuctionIds \ {id} BY <1>1, AuctionFacts
  <2> QED BY <1>1, <2>1 DEF Same
<1>3. bids'[id] = <<>> BY <1>1 DEF RecordsInv, RecordsOf
<1>4. auctions'[id].msg = m /\ auctions'[id].status # "Cancelled"
  BY <1>1 DEF NewAuction
<1> HIDE DEF id
<1>5. AuctionsMirrored(seen[l])'
  <2>1. \A j \in Ids' : auctions'[j].msg = IF j = id THEN m ELSE auctions[j].msg
    BY <1>1, <1>2, <1>4
  <2>2. seen'[l].auctions = [j \in Ids' |-> auctions'[j].msg]
    <3>1. seen[l].auctions = [j \in Ids |-> auctions[j].msg]
      BY DEF AuctionsMirrored, Msg
    <3>2. seen'[l].auctions = Put(seen[l].auctions, id, m) BY DEF id
    <3> QED BY <1>1, <2>1, <3>1, <3>2 DEF Put
  <2>3. seen'[l].cancelled = {j \in Ids' : auctions'[j].status = "Cancelled"}
    BY <1>1, <1>2, <1>4 DEF AuctionsMirrored, Status
  <2> QED BY <2>2, <2>3 DEF AuctionsMirrored, Msg, Status
<1>6. BidIds' = BidIds
  <2>1. Len(bids'[id]) = 0 BY <1>3, EmptySeq
  <2>2. ASSUME NEW b \in BidIds' PROVE b \in BidIds
    <3>1. PICK j \in Ids' : \E i \in 1..Len(bids'[j]) : b = <<j, i>>
      BY <2>2 DEF BidIds
    <3>2. j \in Ids BY <1>1, <2>1, <3>1
    <3>3. \E i \in 1..Len(bids[j]) : b = <<j, i>> BY <1>2, <3>1, <3>2
    <3> QED BY <3>2, <3>3, BidIdsAre
  <2>3. ASSUME NEW b \in BidIds PROVE b \in BidIds'
    <3>1. b[1] \in Ids /\ b[2] \in 1..Len(bids[b[1]]) /\ b = <<b[1], b[2]>>
      BY BidIdsAre
    <3>2. b[1] \in Ids' /\ b[2] \in 1..Len(bids'[b[1]]) BY <1>1, <1>2, <3>1
    <3> QED BY <3>1, <3>2 DEF BidIds
  <2> QED BY <2>2, <2>3
<1>7. ASSUME NEW j \in Ids', NEW k \in 1..Len(bids'[j])
      PROVE  seen'[l].bids[<<j, k>>] = Terms(bids'[j][k])
  <2>1. Len(bids'[id]) = 0 BY <1>3, EmptySeq
  <2>2. j \in Ids BY <1>1, <1>7, <2>1
  <2> QED BY <1>2, <2>2 DEF BidsMirrored
<1>8. BidsMirrored(seen[l])' BY <1>6, <1>7 DEF BidsMirrored, Terms
<1> QED BY <1>5, <1>8

\* The auction that is cancelled is told.
LEMMA CancelTold ==
  ASSUME TypeOK, NEW id \in Ids, NEW u \in Users, CancelAuction(id, u),
         NEW l, AuctionsMirrored(seen[l]), BidsMirrored(seen[l]),
         seen'[l].auctions = seen[l].auctions,
         seen'[l].cancelled = Including(seen[l].cancelled, id),
         seen'[l].bids = seen[l].bids
  PROVE  AuctionsMirrored(seen[l])' /\ BidsMirrored(seen[l])'
<1>1. /\ ChangesOnly(id)
      /\ auctions'[id] = [auctions[id] EXCEPT !.status = "Cancelled",
                                              !.remaining = 0]
      /\ bids'[id] = bids[id]
  BY CancelEffect
<1>2. ASSUME NEW j \in Ids, j # id
      PROVE  auctions'[j] = auctions[j] /\ bids'[j] = bids[j]
  <2>1. j \in AuctionIds \ {id} BY <1>2, AuctionFacts
  <2> QED BY <1>1, <2>1 DEF ChangesOnly, Same
<1>3. auctions'[id].msg = auctions[id].msg /\ auctions'[id].status = "Cancelled"
  BY <1>1, AuctionFacts DEF Auction
<1>4. Ids' = Ids BY <1>1 DEF ChangesOnly
<1>5. AuctionsMirrored(seen[l])'
  <2>1. \A j \in Ids : auctions'[j].msg = auctions[j].msg BY <1>2, <1>3
  <2>2. \A j \in Ids : auctions'[j].status = "Cancelled" <=>
                         auctions[j].status = "Cancelled" \/ j = id
    BY <1>2, <1>3
  <2> QED BY <1>4, <2>1, <2>2 DEF AuctionsMirrored, Including, Msg, Status
<1>6. KeepsTerms BY <1>1, <1>2 DEF KeepsTerms, SameTerms
<1> QED BY <1>4, <1>5, <1>6, BidsStay

\* The bid that is placed is told under its id, before it is marked as matched.
LEMMA PlaceTold ==
  ASSUME TypeOK, NEW id \in Ids, NEW bid \in BidMsg,
         \/ PlaceFixedPriceBid(id, bid)
         \/ PlaceBatchWorthBid(id, bid)
         \/ PlaceBatchManyBid(id, bid),
         NEW l, AuctionsMirrored(seen[l]), BidsMirrored(seen[l]),
         seen'[l].auctions = seen[l].auctions,
         seen'[l].cancelled = seen[l].cancelled,
         seen'[l].bids = Put(seen[l].bids, <<id, NextBidId(id)>>, Terms(bid))
  PROVE  AuctionsMirrored(seen[l])' /\ BidsMirrored(seen[l])'
<1> DEFINE n == Len(bids[id])
           marked == [bid EXCEPT !.isMatched = TRUE]
<1> DEFINE left == auctions[id].remaining -
                     ConvertToSellingAmount(bid, Msg(id).payingDenom)
           sold == [auctions[id] EXCEPT !.remaining = left]
<1>1. /\ ChangesOnly(id) /\ bid \in Bid
      /\ bids'[id] = Append(bids[id], marked) \/ bids'[id] = Append(bids[id], bid)
      /\ auctions'[id] = auctions[id] \/ auctions'[id] = sold
  BY PlaceEffect
<1>2. sold.msg = auctions[id].msg /\ sold.status = auctions[id].status
  BY AuctionFacts DEF Auction
<1> HIDE DEF sold, left
<1>3. PICK new \in {bid, marked} : bids'[id] = Append(bids[id], new) BY <1>1
<1>4. bids[id] \in Seq(Bid) /\ n \in Nat
  BY AuctionFacts, LenProperties DEF TypeOK
<1>5. new \in Bid /\ Terms(new) = Terms(bid) BY <1>1, <1>3 DEF Bid, Terms
<1>6. /\ Len(bids'[id]) = n + 1
      /\ bids'[id][n + 1] = new
      /\ \A i \in 1..n : bids'[id][i] = bids[id][i]
  BY <1>3, <1>4, <1>5, AppendProperties
<1>7. /\ 1..Len(bids'[id]) = (1..n) \cup {n + 1}
      /\ \A i \in (1..n) \ {n + 1} : Terms(bids'[id][i]) = Terms(bids[id][i])
  BY <1>4, <1>6
<1>8. BidsMirrored(seen[l])'
  BY <1>1, <1>5, <1>6, <1>7, BidTold DEF NextBidId
<1>9. /\ auctions'[id].msg = auctions[id].msg
      /\ auctions'[id].status = auctions[id].status
  BY <1>1, <1>2
<1>10. KeepsAuctions BY <1>1, <1>9, OneKept
<1> QED BY <1>8, <1>10, AuctionsStay

\* The bid that is modified is told with its new price and amount.
LEMMA ModifyTold ==
  ASSUME TypeOK, NEW id \in Ids, NEW k \in 1..Len(bids[id]), NEW u \in Users,
         NEW price \in Prices, NEW denom \in Denoms, NEW amount \in Amounts,
         ModifyBid(id, k, u, price, denom, amount),
         NEW l, AuctionsMirrored(seen[l]), BidsMirrored(seen[l]),
         seen'[l].auctions = seen[l].auctions,
         seen'[l].cancelled = seen[l].cancelled,
         seen'[l].bids =
           Put(seen[l].bids, <<id, k>>,
               Terms([bids[id][k] EXCEPT !.price = price, !.amount = amount]))
  PROVE  AuctionsMirrored(seen[l])' /\ BidsMirrored(seen[l])'
<1> DEFINE n == Len(bids[id])
           new == Modified(bids[id][k], price, amount)
<1>1. /\ ChangesOnly(id) /\ auctions'[id] = auctions[id]
      /\ bids'[id] = WithBid(bids[id], k, new)
  BY ModifyEffect
<1>2. bids[id] \in Seq(Bid) /\ n \in Nat
  BY AuctionFacts, LenProperties DEF TypeOK
<1>3. seen'[l].bids = Put(seen[l].bids, <<id, k>>, Terms(new)) BY DEF Modified
<1> HIDE DEF new
<1>4. /\ Len(bids'[id]) = n
      /\ bids'[id][k] = new
      /\ \A i \in (1..n) \ {k} : bids'[id][i] = bids[id][i]
  BY <1>1, <1>2 DEF WithBid
<1>5. /\ 1..Len(bids'[id]) = (1..n) \cup {k}
      /\ \A i \in (1..n) \ {k} : Terms(bids'[id][i]) = Terms(bids[id][i])
  BY <1>2, <1>4
<1>6. BidsMirrored(seen[l])'
  BY <1>1, <1>3, <1>4, <1>5, BidTold
<1>7. KeepsAuctions BY <1>1, OneKept
<1> QED BY <1>6, <1>7, AuctionsStay

\* What every listener has heard is what the keeper has.
Mirror ==
  /\ SeenOK
  /\ \A l \in Listeners : AuctionsMirrored(seen[l]) /\ BidsMirrored(seen[l])

LEMMA MirrorInit == ChainInit => Mirror
<1> SUFFICES ASSUME ChainInit PROVE Mirror OBVIOUS
<1>1. Ids = {} BY EmptySeq DEF ChainInit, Init, Ids
<1>2. seen = [l \in Listeners |-> View] BY DEF ChainInit, HooksInit
<1>3. /\ View.auctions = Nothing /\ View.bids = Nothing /\ View.cancelled = {}
      /\ Heard(View)
  BY DEF View, Heard
<1>4. SeenOK BY <1>2, <1>3 DEF SeenOK
<1>5. BidIds = {} BY <1>1 DEF BidIds
<1>6. AuctionsMirrored(View)
  BY <1>1, <1>3 DEF AuctionsMirrored, Nothing
<1>7. BidsMirrored(View)
  BY <1>1, <1>3, <1>5 DEF BidsMirrored, Nothing
<1> QED BY <1>2, <1>4, <1>6, <1>7 DEF Mirror

\* A step of which the listeners hear nothing, or only of payments, keeps the
\* mirror exact if it changes neither the auctions nor the terms of the bids.
LEMMA NothingTold ==
  ASSUME Mirror, KeepsAuctions, KeepsTerms, SeenOK',
         \A l \in Listeners : /\ seen'[l].auctions = seen[l].auctions
                              /\ seen'[l].cancelled = seen[l].cancelled
                              /\ seen'[l].bids = seen[l].bids
  PROVE  Mirror'
<1>1. Ids' = Ids BY DEF KeepsAuctions
<1>2. ASSUME NEW l \in Listeners
      PROVE  AuctionsMirrored(seen[l])' /\ BidsMirrored(seen[l])'
  <2>1. /\ AuctionsMirrored(seen[l]) /\ BidsMirrored(seen[l])
        /\ seen'[l].auctions = seen[l].auctions
        /\ seen'[l].cancelled = seen[l].cancelled
        /\ seen'[l].bids = seen[l].bids
    BY DEF Mirror
  <2> QED BY <1>1, <2>1, AuctionsStay, BidsStay
<1> QED BY <1>2 DEF Mirror

LEMMA MirrorDeliver ==
  ASSUME TypeOK, RecordsInv, Mirror, HookedDeliver
  PROVE  Mirror'
<1>1. SeenOK BY DEF Mirror
<1>2. ASSUME NEW m \in CreateMsgs,
             CreateFixedPriceAuction(m) \/ CreateBatchAuction(m),
             AfterAuctionCreated(NextAuctionId, m)
      PROVE  Mirror'
  <2>1. CreateAuction(m) BY <1>2 DEF CreateFixedPriceAuction, CreateBatchAuction
  <2>2. SeenOK' /\ \A l \in Listeners :
          Hears(l, Put(seen[l].auctions, NextAuctionId, m), seen[l].cancelled,
                seen[l].bids, seen[l].announced)
    BY <1>1, <1>2, HearsCreated
  <2>3. ASSUME NEW l \in Listeners
        PROVE  AuctionsMirrored(seen[l])' /\ BidsMirrored(seen[l])'
    BY <2>1, <2>2, AuctionTold DEF Mirror, Hears
  <2> QED BY <2>2, <2>3 DEF Mirror
<1>3. ASSUME NEW id \in Ids, NEW u \in Users, CancelAuction(id, u),
             BeforeAuctionCanceled(id)
      PROVE  Mirror'
  <2>1. SeenOK' /\ \A l \in Listeners :
          Hears(l, seen[l].auctions, Including(seen[l].cancelled, id),
                seen[l].bids, seen[l].announced)
    BY <1>1, <1>3, HearsCancelled
  <2>2. ASSUME NEW l \in Listeners
        PROVE  AuctionsMirrored(seen[l])' /\ BidsMirrored(seen[l])'
    BY <1>3, <2>1, CancelTold DEF Mirror, Hears
  <2> QED BY <2>1, <2>2 DEF Mirror
<1>4. ASSUME Quiet, SeenOK', \A l \in Listeners : HearsNothing(l)
      PROVE  Mirror'
  BY <1>4, KeptSteps, NothingTold DEF HearsNothing, Hears
<1>5. ASSUME NEW id \in Ids, NEW list \in AllowedBidderLists,
             AddAllowedBidders(id, list), BeforeAllowedBiddersAdded(list)
      PROVE  Mirror'
  <2>1. Quiet BY <1>5 DEF AddAllowedBidders, Quiet, accounts, reserves
  <2> QED BY <1>1, <1>4, <1>5, <2>1, HearsList
<1>6. ASSUME NEW id \in Ids, NEW u \in Users, NEW max \in MaxBidAmounts,
             UpdateAllowedBidder(id, u, max),
             BeforeAllowedBidderUpdated(id, u, max)
      PROVE  Mirror'
  <2>1. Quiet BY <1>6 DEF UpdateAllowedBidder, Quiet, accounts, reserves
  <2> QED BY <1>1, <1>4, <1>6, <2>1, HearsLimit
<1>7. ASSUME NEW id \in Ids, NEW bid \in BidMsg,
             \/ PlaceFixedPriceBid(id, bid)
             \/ PlaceBatchWorthBid(id, bid)
             \/ PlaceBatchManyBid(id, bid),
             BeforeBidPlaced(id, NextBidId(id), bid)
      PROVE  Mirror'
  <2>1. SeenOK' /\ \A l \in Listeners :
          Hears(l, seen[l].auctions, seen[l].cancelled,
                Put(seen[l].bids, <<id, NextBidId(id)>>, Terms(bid)),
                seen[l].announced)
    BY <1>1, <1>7, HearsPlaced
  <2>2. ASSUME NEW l \in Listeners
        PROVE  AuctionsMirrored(seen[l])' /\ BidsMirrored(seen[l])'
    BY <1>7, <2>1, PlaceTold DEF Mirror, Hears
  <2> QED BY <2>1, <2>2 DEF Mirror
<1>8. ASSUME NEW id \in Ids, NEW k \in 1..Len(bids[id]), NEW u \in Users,
             NEW price \in Prices, NEW denom \in Denoms, NEW amount \in Amounts,
             ModifyBid(id, k, u, price, denom, amount),
             BeforeBidModified(id, k, price, amount)
      PROVE  Mirror'
  <2>1. SeenOK' /\ \A l \in Listeners :
          Hears(l, seen[l].auctions, seen[l].cancelled,
                Put(seen[l].bids, <<id, k>>,
                    Terms([bids[id][k] EXCEPT !.price = price,
                                              !.amount = amount])),
                seen[l].announced)
    BY <1>1, <1>8, HearsModified
  <2>2. ASSUME NEW l \in Listeners
        PROVE  AuctionsMirrored(seen[l])' /\ BidsMirrored(seen[l])'
    BY <1>8, <2>1, ModifyTold DEF Mirror, Hears
  <2> QED BY <2>1, <2>2 DEF Mirror
<1>9. ASSUME NEW id \in Ids, NEW u \in Users, NEW amount \in Transfers,
             TransferToReserve(id, u, amount), NoHook
      PROVE  Mirror'
  BY <1>1, <1>9, KeptSteps, HearsNoHook, NothingTold
     DEF NoHook, HearsNothing, Hears
<1>10. ASSUME NEW period \in ExtendedPeriods, ParamChange(period), NoHook
       PROVE  Mirror'
  <2>1. Quiet BY <1>10 DEF ParamChange, Quiet, store
  <2> QED BY <1>1, <1>4, <1>10, <2>1, HearsNoHook DEF NoHook
<1> QED
  BY <1>2, <1>3, <1>5, <1>6, <1>7, <1>8, <1>9, <1>10, Zenon DEF HookedDeliver

LEMMA MirrorBeginBlocker ==
  ASSUME TypeOK, Mirror, HookedBeginBlocker
  PROVE  Mirror'
<1>1. SeenOK BY DEF Mirror
<1>2. ASSUME NEW id \in Ids, NoHook,
             \/ ExecuteStandByStatus(id)
             \/ ExtendRound(id)
             \/ ExecuteVestingStatus(id)
      PROVE  Mirror'
  BY <1>1, <1>2, KeptSteps, HearsNoHook, NothingTold
     DEF NoHook, HearsNothing, Hears
<1>3. ASSUME NEW id \in Ids, NEW allocation, NEW refund,
             CloseFixedPriceAuction(id) \/ CloseBatchAuction(id),
             BeforeSellingCoinsAllocated(id, allocation, refund)
      PROVE  Mirror'
  <2>1. KeepsAuctions /\ KeepsTerms BY <1>3, KeptSteps
  <2>2. SeenOK' /\ \A l \in Listeners :
          Hears(l, seen[l].auctions, seen[l].cancelled, seen[l].bids,
                Put(seen[l].announced, id, Payments(allocation, refund)))
    BY <1>1, <1>3, HearsAnnounced
  <2> QED BY <2>1, <2>2, NothingTold DEF Hears
<1>4. ASSUME NEW id \in Ids, NothingDue(id), NoHook PROVE Mirror'
  <2>1. Quiet BY <1>4 DEF NothingDue, Quiet, store, accounts, reserves
  <2>2. KeepsAuctions /\ KeepsTerms BY <2>1, KeptSteps
  <2> QED
    BY <1>1, <1>4, <2>2, HearsNoHook, NothingTold DEF NoHook, HearsNothing, Hears
<1> QED BY <1>2, <1>3, <1>4, Zenon DEF HookedBeginBlocker

LEMMA MirrorStep ==
  ASSUME TypeOK, RecordsInv, UnusedAllowed, Mirror, [ChainNext]_chainVars
  PROVE  Mirror'
<1>1. SeenOK BY DEF Mirror
<1>2. CASE HookedDeliver BY <1>2, MirrorDeliver
<1>3. CASE HookedBeginBlocker BY <1>3, MirrorBeginBlocker
<1>4. ASSUME UNCHANGED seen, KeepsAuctions, KeepsTerms PROVE Mirror'
  BY <1>1, <1>4, HearsNoHook, NothingTold DEF HearsNothing, Hears
<1>5. CASE NewBlock /\ NoHook
  <2>1. Quiet BY <1>5 DEF NewBlock, BeginBlock, Quiet, store, accounts, reserves
  <2> QED BY <1>4, <1>5, <2>1, KeptSteps DEF NoHook
<1>6. CASE Restart /\ NoHook
  <2>1. Restarted BY <1>6, RestartEffect
  <2> QED BY <1>4, <1>6, <2>1, KeptSteps DEF NoHook
<1>7. CASE UNCHANGED chainVars
  <2>1. Quiet /\ UNCHANGED seen
    BY <1>7 DEF chainVars, vars, Quiet, store, accounts, reserves
  <2> QED BY <1>4, <2>1, KeptSteps
<1> QED BY <1>2, <1>3, <1>5, <1>6, <1>7 DEF ChainNext

\* keeper/hooks.go and the calls of the hooks in keeper/auction.go and
\* keeper/bid.go: a module that only hears the hooks has the auctions, the
\* cancellations and the bids that the keeper has, under their ids and with the
\* terms they have now.
THEOREM ListenersMirror == ChainSpec => []MirrorIsExact
<1>1. Mirror => MirrorIsExact BY MirrorParts DEF Mirror
<1>2. ChainInv /\ Mirror /\ [ChainNext]_chainVars => Mirror'
  BY MirrorStep DEF ChainInv
<1> QED BY <1>1, <1>2, MirrorInit, ChainInvSound, PTL DEF ChainSpec

-----------------------------------------------------------------------------
(***************************************************************************)
(* The announcements.                                                      *)
(***************************************************************************)

\* A settlement pays the bidders what its hook announced.
LEMMA AnnouncedSettlement ==
  ASSUME TypeOK, RecordsInv, SeenOK, NEW id \in Ids,
         NEW allocation, NEW refund, Settle(id, allocation, refund),
         BeforeSellingCoinsAllocated(id, allocation, refund),
         NEW l \in Listeners
  PROVE  /\ id \in DOMAIN seen'[l].announced
         /\ \A u \in Users \ {Msg(id).auctioneer} :
              /\ Gain(u, Msg(id).sellingDenom) =
                   seen'[l].announced[id].allocation[u]
              /\ Gain(u, Msg(id).payingDenom) =
                   seen'[l].announced[id].refund[u]
<1>1. allocation \in [Users -> Nat] /\ refund \in [Users -> Nat]
  BY DEF Settle, CanSettle
<1>2. ValidMsg(Msg(id))
  BY AuctionFacts DEF RecordsInv, RecordsOf, RecordOK, Msg
<1>3. seen'[l].announced =
        Put(seen[l].announced, id, Payments(allocation, refund))
  BY HearsAnnounced DEF Hears
<1>4. /\ id \in DOMAIN seen'[l].announced
      /\ seen'[l].announced[id] = Payments(allocation, refund)
  BY <1>3 DEF Put
<1>5. /\ seen'[l].announced[id].allocation = allocation
      /\ seen'[l].announced[id].refund = refund
  BY <1>4 DEF Payments
<1> QED BY <1>1, <1>2, <1>4, <1>5, SettlementGain

\* The step that settles an auction is the one that calls the hook for it: no
\* message is delivered while the BeginBlocker visits an auction.
LEMMA SettlingCallsHook ==
  ASSUME TypeOK, RecordsInv, UnusedAllowed, [ChainNext]_chainVars, NEW id \in Ids,
         Status(id) = "Started", Settled(id)'
  PROVE  \E allocation, refund :
           /\ Settle(id, allocation, refund)
           /\ BeforeSellingCoinsAllocated(id, allocation, refund)
<1> DEFINE mInfo == BatchAllocation(id)
<1>1. auctions'[id].status # auctions[id].status /\ ~StaysOpen(id)
  BY DEF Settled, Status, StaysOpen
<1>2. ~Restarted BY <1>1 DEF Restarted
<1>3. ~Restart BY <1>2, RestartEffect
<1>4. CloseFixedPriceAuction(id) \/ CloseBatchAuction(id)
  BY <1>1, <1>3, ChainStep, OnlyCloseSettles
<1>5. id \in Nat \ {0} /\ cursor = id
  BY <1>4, AuctionFacts
     DEF CloseFixedPriceAuction, CloseBatchAuction, ClosingBatch, Visiting,
         AuctionIds
<1>6. ~Delivering BY <1>5 DEF Delivering
<1>7. ~HookedDeliver
  <2>1. \A m : CreateFixedPriceAuction(m) \/ CreateBatchAuction(m) => Delivering
    BY DEF CreateFixedPriceAuction, CreateBatchAuction, CreateAuction
  <2>2. \A j, u, list, max :
          \/ CancelAuction(j, u)
          \/ AddAllowedBidders(j, list)
          \/ UpdateAllowedBidder(j, u, max)
          \/ TransferToReserve(j, u, max)
          \/ ParamChange(max)
          => Delivering
    BY DEF CancelAuction, AddAllowedBidders, UpdateAllowedBidder,
           TransferToReserve, ParamChange
  <2>3. \A j, bid : \/ PlaceFixedPriceBid(j, bid)
                    \/ PlaceBatchWorthBid(j, bid)
                    \/ PlaceBatchManyBid(j, bid)
                    => Delivering
    BY DEF PlaceFixedPriceBid, PlaceBatchWorthBid, PlaceBatchManyBid, MayPlaceBid
  <2>4. \A j, k, u, price, denom, amount :
          ModifyBid(j, k, u, price, denom, amount) => Delivering
    BY DEF ModifyBid
  <2> QED BY <1>6, <2>1, <2>2, <2>3, <2>4, Zenon DEF HookedDeliver
<1>8. ~NewBlock BY <1>5 DEF NewBlock, BeginBlock
<1>9. HookedBeginBlocker
  BY <1>1, <1>3, <1>7, <1>8 DEF ChainNext, chainVars, vars, store
<1>10. ~ExecuteStandByStatus(id) /\ ~ExecuteVestingStatus(id)
  BY DEF ExecuteStandByStatus, ExecuteVestingStatus
<1>11. ~NothingDue(id) BY <1>1 DEF NothingDue, store
<1>12. ~ExtendRound(id)
  BY <1>4
     DEF ExtendRound, CloseBatchAuction, ClosingBatch, CloseFixedPriceAuction
<1>13. ASSUME NEW j \in Ids,
              \/ ExecuteStandByStatus(j)
              \/ CloseFixedPriceAuction(j)
              \/ CloseBatchAuction(j)
              \/ ExtendRound(j)
              \/ ExecuteVestingStatus(j)
              \/ NothingDue(j)
       PROVE  j = id
  BY <1>5, <1>13
     DEF ExecuteStandByStatus, CloseFixedPriceAuction, CloseBatchAuction,
         ClosingBatch, ExtendRound, ExecuteVestingStatus, NothingDue, Visiting
<1>14. \/ /\ CloseFixedPriceAuction(id)
          /\ BeforeSellingCoinsAllocated(id, FixedPriceAllocation(id), NoRefund)
       \/ /\ CloseBatchAuction(id)
          /\ BeforeSellingCoinsAllocated(id, mInfo.allocation, mInfo.refund)
  <2>1. PICK j \in Ids :
          \/ ExecuteStandByStatus(j) /\ NoHook
          \/ /\ CloseFixedPriceAuction(j)
             /\ BeforeSellingCoinsAllocated(j, FixedPriceAllocation(j), NoRefund)
          \/ /\ CloseBatchAuction(j)
             /\ BeforeSellingCoinsAllocated(j, BatchAllocation(j).allocation,
                                            BatchAllocation(j).refund)
          \/ ExtendRound(j) /\ NoHook
          \/ ExecuteVestingStatus(j) /\ NoHook
          \/ NothingDue(j) /\ NoHook
    BY <1>9, Zenon DEF HookedBeginBlocker
  <2>2. j = id BY <1>13, <2>1, Zenon
  <2> QED BY <1>10, <1>11, <1>12, <2>1, <2>2, Zenon
<1>15. /\ CloseFixedPriceAuction(id) =>
            Settle(id, FixedPriceAllocation(id), NoRefund)
       /\ CloseBatchAuction(id) => Settle(id, mInfo.allocation, mInfo.refund)
  BY Zenon DEF CloseFixedPriceAuction, CloseBatchAuction
<1> QED BY <1>14, <1>15, Zenon

\* keeper/auction.go, CloseFixedPriceAuction and CloseBatchAuction: whatever the
\* messages, the rounds and the restarts before it, an auction is settled only with
\* its allocation and refunds announced to the listeners, and every bidder receives
\* exactly what was announced.
THEOREM AnnouncedPaid == ChainSpec => AnnouncedIsPaid
<1> DEFINE Paid ==
      \A id \in Ids, l \in Listeners :
        Status(id) = "Started" /\ Settled(id)' =>
          /\ id \in DOMAIN seen'[l].announced
          /\ \A u \in Users \ {Msg(id).auctioneer} :
               /\ Gain(u, Msg(id).sellingDenom) =
                    seen'[l].announced[id].allocation[u]
               /\ Gain(u, Msg(id).payingDenom) =
                    seen'[l].announced[id].refund[u]
<1>1. ASSUME TypeOK, RecordsInv, UnusedAllowed, SeenOK, [ChainNext]_chainVars
      PROVE  Paid
  BY <1>1, SettlingCallsHook, AnnouncedSettlement
<1>2. ChainInv /\ Mirror /\ [ChainNext]_chainVars => [Paid]_<<vars, seen>>
  BY <1>1 DEF ChainInv, Mirror
<1>3. ChainInv /\ Mirror /\ [ChainNext]_chainVars => Mirror'
  BY MirrorStep DEF ChainInv
<1> QED
  BY <1>2, <1>3, MirrorInit, ChainInvSound, PTL DEF ChainSpec, AnnouncedIsPaid
=============================================================================
