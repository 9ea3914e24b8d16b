--------------------------- MODULE BidBookProofs ---------------------------
(***************************************************************************)
(* The matching of a batch auction meets its contract for every number of  *)
(* bidders and bids, every price and every amount: the bidders are given   *)
(* what they demand at the matched price, rounding favours the auctioneer, *)
(* unmatched bids cost nothing, and in a book without dust the bisection   *)
(* finds the lowest price at which the demand can be met.                  *)
(***************************************************************************)
EXTENDS BidBook, MatchingProofs

-----------------------------------------------------------------------------
(***************************************************************************)
(* The books that can be built, which is all that the invariants need.     *)
(***************************************************************************)
AcceptedBids ==
  [bidder : Bidders, type : {"BatchWorth", "BatchMany"},
   price : Nat \ {0}, amount : Nat \ {0},
   denom : {PayingDenom, "selling"}, isMatched : BOOLEAN]

\* The bids are a sequence of bids that the handlers accept.
BookInv ==
  /\ sellingAmt \in Nat
  /\ maxBid \in [Bidders -> Nat \ {0}]
  /\ bids \in Seq(AcceptedBids)
  /\ \A k \in 1..Len(bids) :
       bids[k].type = "BatchWorth" <=> bids[k].denom = PayingDenom

\* A bid that arrives is a bid that the handlers accept.
LEMMA BookBidFacts ==
  ASSUME NEW bidder \in Bidders, NEW type \in {"BatchWorth", "BatchMany"},
         NEW price \in Nat \ {0}, NEW amount \in Nat \ {0}, NEW bid,
         bid = BookBid(bidder, type, price, amount)
  PROVE  /\ bid \in AcceptedBids
         /\ bid.type = "BatchWorth" <=> bid.denom = PayingDenom
BY DEF BookBid, PayingDenom, AcceptedBids

\* However the bids arrive, the book holds bids that the handlers accept.
LEMMA BookSound == Spec => []BookInv
<1>1. Init => BookInv
  <2> SUFFICES ASSUME Init PROVE BookInv OBVIOUS
  <2>1. sellingAmt \in Nat /\ maxBid \in [Bidders -> Nat \ {0}]
    BY BookAssumption DEF Init
  <2>2. bids = <<>> BY DEF Init
  <2> QED BY <2>1, <2>2 DEF BookInv
<1>2. BookInv /\ [Next]_vars => BookInv'
  <2> SUFFICES ASSUME BookInv, [Next]_vars PROVE BookInv' OBVIOUS
  <2>1. CASE UNCHANGED vars BY <2>1 DEF vars, BookInv
  <2>2. ASSUME NEW bidder \in Bidders, NEW price \in Prices, NEW amount \in Amounts,
               NEW type \in {"BatchWorth", "BatchMany"},
               Arrive(bidder, type, price, amount)
        PROVE  BookInv'
    <3>1. price \in Nat \ {0} /\ amount \in Nat \ {0}
      BY BookAssumption DEF PosDecimals
    <3> DEFINE bid == BookBid(bidder, type, price, amount)
    <3>2. bid \in AcceptedBids /\ (bid.type = "BatchWorth" <=> bid.denom = PayingDenom)
      <4>1. bid = BookBid(bidder, type, price, amount) OBVIOUS
      <4> HIDE DEF bid
      <4> QED BY <3>1, <4>1, BookBidFacts
    <3>3. bids' = Append(bids, bid) /\ UNCHANGED <<sellingAmt, maxBid>>
      BY <2>2 DEF Arrive
    <3>4. /\ bids \in Seq(AcceptedBids) /\ sellingAmt \in Nat
          /\ maxBid \in [Bidders -> Nat \ {0}]
          /\ \A k \in 1..Len(bids) :
               bids[k].type = "BatchWorth" <=> bids[k].denom = PayingDenom
      BY DEF BookInv
    <3> HIDE DEF bid
    <3>5. bids' \in Seq(AcceptedBids) BY <3>2, <3>3, <3>4
    <3>6. ASSUME NEW k \in 1..Len(bids')
          PROVE  bids'[k].type = "BatchWorth" <=> bids'[k].denom = PayingDenom
      <4>1. CASE k \in 1..Len(bids) BY <3>3, <3>4, <4>1
      <4>2. CASE k \notin 1..Len(bids)
        <5>1. bids'[k] = bid BY <3>3, <3>4, <4>2
        <5> QED BY <3>2, <5>1
      <4> QED BY <4>1, <4>2
    <3> QED BY <3>3, <3>4, <3>5, <3>6 DEF BookInv
  <2> QED BY <2>1, <2>2 DEF Next
<1> QED BY <1>1, <1>2, PTL DEF Spec

\* What CalculateBatchAllocation is given.
LEMMA BookInput ==
  ASSUME BookInv
  PROVE  /\ MatchInput(bids, PayingDenom, sellingAmt, maxBid)
         /\ DOMAIN maxBid = Bidders
         /\ Len(bids) \in Nat
         /\ \A k \in BidIds : /\ bids[k].bidder \in Bidders
                              /\ bids[k].price \in Nat \ {0}
                              /\ bids[k].amount \in Nat \ {0}
         /\ \A b \in Bidders : maxBid[b] \in Nat \ {0}
<1>1. /\ bids \in Seq(AcceptedBids) /\ sellingAmt \in Nat
      /\ maxBid \in [Bidders -> Nat \ {0}]
      /\ \A k \in 1..Len(bids) :
           bids[k].type = "BatchWorth" <=> bids[k].denom = PayingDenom
  BY DEF BookInv
<1>2. Len(bids) \in Nat /\ \A k \in 1..Len(bids) : bids[k] \in AcceptedBids
  BY <1>1
<1>3. \A k \in 1..Len(bids) : /\ bids[k].bidder \in Bidders
                              /\ bids[k].price \in Nat \ {0}
                              /\ bids[k].amount \in Nat \ {0}
  BY <1>2 DEF AcceptedBids
<1>4. DOMAIN maxBid = Bidders /\ maxBid \in [Bidders -> Nat] BY <1>1
<1>5. \A k \in 1..Len(bids) : ValidBid(bids[k], Bidders, PayingDenom)
  BY <1>1, <1>3 DEF ValidBid
<1> QED BY <1>1, <1>2, <1>3, <1>4, <1>5, BookAssumption DEF MatchInput, BidIds

-----------------------------------------------------------------------------
(***************************************************************************)
(* Refunds and payments.                                                   *)
(***************************************************************************)

\* The match that the keeper uses, before the maps are made of it.
BookMatch ==
  FindMatch(bids, BidPrices(bids), BidsByPrice(bids), sellingAmt, maxBid)

\* What CalculateBatchAllocation makes of that match.
LEMMA ResultFacts ==
  ASSUME BookInv
  PROVE  /\ AccOK(BookMatch, BookMatch.price, bids, PayingDenom, sellingAmt, maxBid)
         /\ FairMatch(Result, bids, PayingDenom, sellingAmt, maxBid)
         /\ Result.matchedBids = BookMatch.matchedBids
         /\ Result.matchedPrice = BookMatch.price
         /\ Result.allocation = BookMatch.allocation
         /\ Result.reservedMatched = BookMatch.paying
<1> DEFINE res == BookMatch
           info == Result
           order == BidsByPrice(bids)
<1>1. MatchInput(bids, PayingDenom, sellingAmt, maxBid) BY BookInput
<1>2. IsOrder(Len(bids), order) BY <1>1, BidsByPriceOrder DEF MatchInput
<1>3. res = FindMatch(bids, BidPrices(bids), order, sellingAmt, maxBid)
  BY DEF BookMatch
<1>4. info = MatchingInfo(res, bids, PayingDenom, DOMAIN maxBid)
  BY DEF Result, CalculateBatchAllocation, BookMatch
<1> HIDE DEF res, info, order
<1>5. AccOK(res, res.price, bids, PayingDenom, sellingAmt, maxBid)
  BY <1>1, <1>2, <1>3, FindMatchFacts
<1>6. /\ FairMatch(info, bids, PayingDenom, sellingAmt, maxBid)
      /\ info.matchedBids = res.matchedBids
      /\ info.matchedPrice = res.price
      /\ info.allocation = res.allocation
      /\ info.reservedMatched = res.paying
  BY <1>1, <1>4, <1>5, MatchingInfoFair
<1> QED BY <1>5, <1>6 DEF res, info

\* In every book, what is refunded to a bidder covers what their unmatched
\* bids reserved (keeper/match.go: RefundMap), so that an unmatched bid costs
\* nothing and no refund is negative.
THEOREM RefundsCoverUnmatched == Spec => []UnmatchedBidsRefunded
<1>1. BookInv => UnmatchedBidsRefunded
  <2> SUFFICES ASSUME BookInv, NEW b \in Bidders
               PROVE  Result.refund[b] >=
                        SumFunctionOnSet(
                          [k \in BidIds |->
                             ConvertToPayingAmount(bids[k], PayingDenom)],
                          BidsOf(b) \ Result.matchedBids)
    BY DEF UnmatchedBidsRefunded
  <2> DEFINE n == Len(bids)
             M == Result.matchedBids
             S == BidsOf(b) \ M
             f == [k \in 1..n |-> ConvertToPayingAmount(bids[k], PayingDenom)]
             g == [k \in 1..n |-> IF bids[k].bidder = b /\ k \notin M
                                    THEN ConvertToPayingAmount(bids[k], PayingDenom)
                                    ELSE 0]
  <2>1. DOMAIN maxBid = Bidders /\ n \in Nat BY BookInput
  <2>2. Result.refund[b] >= UnmatchedCost(bids, M, b, PayingDenom)
    BY <2>1, ResultFacts DEF FairMatch
  <2>3. S \in SUBSET (1..n) BY DEF BidsOf, BidIds
  <2>4. Summable(n, f)
    <3> SUFFICES ASSUME NEW k \in 1..n PROVE f[k] \in Int BY DEF Summable
    <3>1. bids[k].price \in Nat /\ bids[k].amount \in Nat BY BookInput DEF BidIds
    <3>2. ConvertToPayingAmount(bids[k], PayingDenom) \in Nat
      BY <3>1, DecTypes DEF ConvertToPayingAmount
    <3> QED BY <3>2
  <2>5. g = Selected(n, f, S)
    <3>1. \A k \in 1..n : k \in S <=> bids[k].bidder = b /\ k \notin M
      BY DEF BidsOf, BidIds
    <3> HIDE DEF S
    <3> QED BY <3>1 DEF Selected
  <2>6. UnmatchedCost(bids, M, b, PayingDenom) = SumTo(n, g) BY DEF UnmatchedCost
  <2> HIDE DEF g
  <2>7. SumTo(n, g) = SumFunctionOnSet(f, S)
    <3> HIDE DEF f, S
    <3> QED BY <2>1, <2>3, <2>4, <2>5, SumIsSetSum
  <2> QED BY <2>2, <2>6, <2>7 DEF BidIds
<1> QED BY <1>1, BookSound, PTL

\* A bidder without a matched bid reserved nothing for matched bids.
LEMMA NoMatchedCost ==
  ASSUME NEW B, Len(B) \in Nat, NEW M, NEW u, NEW denom,
         \A k \in 1..Len(B) : ~(B[k].bidder = u /\ k \in M)
  PROVE  MatchedCost(B, M, u, denom) = 0
<1> DEFINE f == CostsOf(B, M, u, denom)
           n == Len(B)
<1>1. \A k \in 1..n : f[k] = 0 BY DEF CostsOf
<1>2. MatchedCost(B, M, u, denom) = SumTo(n, f) BY DEF MatchedCost
<1> HIDE DEF f
<1> QED BY <1>1, <1>2, SumZero

\* In every book, what a bidder leaves in the paying reserve covers the
\* matched price of what they are given, and exceeds it by less than one coin per
\* matched bid (types/match.go: payingAmt is rounded up for every bid).
THEOREM RoundingFavoursAuctioneer == Spec => []PaymentCoversAllocation
<1>1. BookInv => PaymentCoversAllocation
  <2> SUFFICES ASSUME BookInv, NEW b \in Bidders
               PROVE  /\ Result.reservedMatched[b] * ONE >=
                           Result.matchedPrice * Result.allocation[b]
                      /\ \/ Result.reservedMatched[b] * ONE <
                              Result.matchedPrice * Result.allocation[b]
                                + ONE * Cardinality({k \in Result.matchedBids :
                                                       bids[k].bidder = b})
                         \/ Result.reservedMatched[b] * ONE = 0
    BY DEF PaymentCoversAllocation
  <2> DEFINE res == BookMatch
             p == res.price
             M == res.matchedBids
             a == res.allocation[b]
             y == res.paying[b]
             C == {k \in M : bids[k].bidder = b}
             c == Cardinality(C)
  <2>1. /\ DOMAIN maxBid = Bidders /\ Len(bids) \in Nat
        /\ MatchInput(bids, PayingDenom, sellingAmt, maxBid)
    BY BookInput
  <2>2. AccOK(res, p, bids, PayingDenom, sellingAmt, maxBid) BY ResultFacts
  <2>3. res \in Accumulator(Len(bids), Bidders)
        /\ BidderOK(res, b, p, bids, PayingDenom, maxBid)
    BY <2>1, <2>2 DEF AccOK
  <2>4. p \in Nat /\ a \in Nat /\ y \in Nat /\ M \in SUBSET (1..Len(bids))
    BY <2>3 DEF Accumulator
  <2>5. C = MatchedOf(bids, M, b) BY DEF MatchedOf
  <2>6. /\ y <= MatchedCost(bids, M, b, PayingDenom)
        /\ a * p <= y * ONE
        /\ y * ONE <= a * p + c * (ONE - 1)
    BY <2>3, <2>5 DEF BidderOK
  <2>7. c \in Nat /\ (c = 0 => C = {})
    <3>1. IsFiniteSet(C)
      <4>1. IsFiniteSet(1..Len(bids)) /\ C \in SUBSET (1..Len(bids))
        BY <2>1, <2>4, FS_Interval
      <4> QED BY <4>1, FS_Subset
    <3> QED BY <3>1, FS_CardinalityType, FS_EmptySet
  <2>8. c = 0 => y = 0
    <3> SUFFICES ASSUME c = 0 PROVE y = 0 OBVIOUS
    <3>1. \A k \in 1..Len(bids) : ~(bids[k].bidder = b /\ k \in M)
      BY <2>7 DEF C
    <3> HIDE DEF M, y, C
    <3>2. MatchedCost(bids, M, b, PayingDenom) = 0 BY <2>1, <3>1, NoMatchedCost
    <3> QED BY <2>4, <2>6, <3>2
  <2>9. /\ Result.reservedMatched[b] = y /\ Result.matchedPrice = p
        /\ Result.allocation[b] = a /\ Result.matchedBids = M
    BY ResultFacts
  <2> HIDE DEF res, p, M, a, y, c
  <2>10. y * ONE >= p * a /\ (y * ONE < p * a + ONE * c \/ y * ONE = 0)
    <3> DEFINE yo == y * ONE
               ap == a * p
               cm == c * (ONE - 1)
               oc == ONE * c
    <3>1. /\ yo \in Nat /\ ap \in Nat /\ p * a = ap /\ cm = oc - c /\ oc \in Nat
          /\ y = 0 => yo = 0
      BY <2>4, <2>7, OneAssumption
    <3>2. ap <= yo /\ yo <= ap + cm BY <2>6
    <3>3. yo >= ap /\ (yo < ap + oc \/ yo = 0)
      <4> HIDE DEF yo, ap, cm, oc
      <4> QED BY <2>7, <2>8, <3>1, <3>2
    <3> QED BY <3>1, <3>3
  <2> QED BY <2>9, <2>10 DEF c, C
<1> QED BY <1>1, BookSound, PTL

-----------------------------------------------------------------------------
(***************************************************************************)
(* The loop of Match computes the demand.  After n bids in some order, the *)
(* bidders are given what the bids seen so far demand, unless all of that  *)
(* together is more than is on offer.                                      *)
(***************************************************************************)
Demands(p) == [k \in BidIds |-> DemandOfBid(k, p)]

Seen(order, n, b) == {k \in BidsOf(b) : \E i \in 1..n : order[i] = k}

SeenDemand(order, n, b, p) == SumFunctionOnSet(Demands(p), Seen(order, n, b))

Served(order, n, b, p) == MinInt(maxBid[b], SeenDemand(order, n, b, p))

ServedAll(order, n, p) ==
  SumFunctionOnSet([b \in Bidders |-> Served(order, n, b, p)], Bidders)

\* What a bid demands at a positive price is a number, which is the amount that
\* Match computes for the bids that it does not skip.
LEMMA DemandFacts ==
  ASSUME BookInv, NEW p \in Nat \ {0}, NEW k \in BidIds
  PROVE  /\ Demands(p)[k] = DemandOfBid(k, p)
         /\ DemandOfBid(k, p) \in Nat
         /\ Outbid(bids[k], p) => DemandOfBid(k, p) = 0
         /\ ~Outbid(bids[k], p) => DemandOfBid(k, p) = BidAmount(bids[k], p)
<1>1. bids[k].price \in Nat /\ bids[k].amount \in Nat BY BookInput
<1>2. p \in Nat /\ p > 0 OBVIOUS
<1>3. QuoTruncateInt(bids[k].amount, p) \in Nat BY <1>1, <1>2, DecTypes
<1> QED BY <1>1, <1>3 DEF Demands, DemandOfBid, Outbid, BidAmount

\* The demand of a set of bids is a number.
LEMMA DemandSum ==
  ASSUME BookInv, NEW p \in Nat \ {0}, NEW S \in SUBSET BidIds
  PROVE  /\ IsFiniteSet(S)
         /\ SummableOn(S, Demands(p))
         /\ SumFunctionOnSet(Demands(p), S) \in Nat
<1>1. IsFiniteSet(S)
  <2>1. IsFiniteSet(BidIds) BY BookInput, FS_Interval DEF BidIds
  <2> QED BY <2>1, FS_Subset
<1>2. \A k \in S : Demands(p)[k] \in Nat BY DemandFacts
<1> QED BY <1>1, <1>2, SetSumNat

\* What a bidder is served is a number, and at most MaxBidAmount.
LEMMA ServedType ==
  ASSUME BookInv, NEW p \in Nat \ {0}, NEW order, NEW n, NEW b \in Bidders
  PROVE  /\ SeenDemand(order, n, b, p) \in Nat
         /\ Served(order, n, b, p) \in Nat
         /\ Served(order, n, b, p) <= maxBid[b]
<1>1. Seen(order, n, b) \in SUBSET BidIds BY DEF Seen, BidsOf
<1>2. SeenDemand(order, n, b, p) \in Nat BY <1>1, DemandSum DEF SeenDemand
<1>3. maxBid[b] \in Nat BY BookInput
<1> QED BY <1>2, <1>3 DEF Served, MinInt

\* One more bid adds its demand, to its bidder only.
LEMMA SeenStep ==
  ASSUME BookInv, NEW p \in Nat \ {0}, NEW order, IsOrder(Len(bids), order),
         NEW n \in 1..Len(bids)
  PROVE  /\ order[n] \in BidIds
         /\ bids[order[n]].bidder \in Bidders
         /\ SeenDemand(order, n, bids[order[n]].bidder, p) =
              SeenDemand(order, n - 1, bids[order[n]].bidder, p)
                + DemandOfBid(order[n], p)
         /\ \A b \in Bidders \ {bids[order[n]].bidder} :
              Seen(order, n, b) = Seen(order, n - 1, b)
<1> DEFINE k == order[n]
           w == bids[k].bidder
           S == Seen(order, n - 1, w)
<1>1. k \in BidIds /\ w \in Bidders
  <2>1. k \in BidIds BY DEF IsOrder, BidIds
  <2> QED BY <2>1, BookInput
<1>2. Len(bids) \in Nat BY BookInput
<1>3. ASSUME NEW j PROVE (\E i \in 1..n : order[i] = j) <=>
                           (\E i \in 1..(n - 1) : order[i] = j) \/ j = k
  <2>1. \A i : i \in 1..n <=> i \in 1..(n - 1) \/ i = n BY <1>2
  <2> QED BY <2>1
<1>4. \A b \in Bidders \ {w} : Seen(order, n, b) = Seen(order, n - 1, b)
  BY <1>3 DEF Seen, BidsOf
<1>5. Seen(order, n, w) = S \cup {k} BY <1>1, <1>3 DEF Seen, BidsOf
<1>6. k \notin S
  <2>1. \A i \in 1..(n - 1) : i \in 1..Len(bids) /\ i # n BY <1>2
  <2>2. \A i \in 1..(n - 1) : order[i] # order[n] BY <2>1 DEF IsOrder
  <2> QED BY <2>2 DEF Seen
<1>7. S \in SUBSET BidIds BY DEF Seen, BidsOf
<1> HIDE DEF k, w, S
<1>8. IsFiniteSet(S) /\ SummableOn(S, Demands(p)) BY <1>7, DemandSum
<1>9. Demands(p)[k] = DemandOfBid(k, p) /\ Demands(p)[k] \in Int
  BY <1>1, DemandFacts
<1>10. SumFunctionOnSet(Demands(p), S \cup {k}) =
         SumFunctionOnSet(Demands(p), S) + DemandOfBid(k, p)
  BY <1>6, <1>8, <1>9, SetSumAdd
<1>11. SeenDemand(order, n, w, p) = SeenDemand(order, n - 1, w, p) + DemandOfBid(k, p)
  BY <1>5, <1>10 DEF SeenDemand, S
<1> QED BY <1>1, <1>4, <1>11 DEF k, w

\* One more bid serves its bidder what it demands, as far as MaxBidAmount allows.
LEMMA ServedStep ==
  ASSUME BookInv, NEW p \in Nat \ {0}, NEW order, IsOrder(Len(bids), order),
         NEW n \in 1..Len(bids), NEW w, w = bids[order[n]].bidder
  PROVE  /\ \A b \in Bidders \ {w} : Served(order, n, b, p) = Served(order, n - 1, b, p)
         /\ Served(order, n, w, p) =
              Served(order, n - 1, w, p)
                + MinInt(DemandOfBid(order[n], p),
                         maxBid[w] - Served(order, n - 1, w, p))
         /\ ServedAll(order, n - 1, p) \in Nat
         /\ ServedAll(order, n, p) =
              ServedAll(order, n - 1, p)
                + MinInt(DemandOfBid(order[n], p),
                         maxBid[w] - Served(order, n - 1, w, p))
         /\ ServedAll(order, n, p) >= ServedAll(order, n - 1, p)
<1> DEFINE d == DemandOfBid(order[n], p)
           s == SeenDemand(order, n - 1, w, p)
           t == SeenDemand(order, n, w, p)
           m == MinInt(d, maxBid[w] - Served(order, n - 1, w, p))
           f == [b \in Bidders |-> Served(order, n - 1, b, p)]
           g == [b \in Bidders |-> Served(order, n, b, p)]
<1>1. w \in Bidders /\ order[n] \in BidIds /\ t = s + d BY SeenStep
<1>2. d \in Nat BY <1>1, DemandFacts
<1>3. s \in Nat BY <1>1, ServedType
<1>4. maxBid[w] \in Nat BY <1>1, BookInput
<1>5. /\ Served(order, n, w, p) = Served(order, n - 1, w, p) + m
      /\ m \in Nat
  <2> DEFINE x == maxBid[w]
             a == Served(order, n - 1, w, p)
             c == Served(order, n, w, p)
  <2>1. a = (IF x < s THEN x ELSE s) /\ c = (IF x < t THEN x ELSE t)
    BY DEF Served, MinInt
  <2>2. m = IF d < x - a THEN d ELSE x - a BY DEF MinInt
  <2>3. x \in Nat BY <1>4
  <2> HIDE DEF x, a, c, s, t, d, m
  <2>4. c = a + m /\ m \in Nat BY <1>1, <1>2, <1>3, <2>1, <2>2, <2>3
  <2> QED BY <2>4 DEF a, c
<1>6. \A b \in Bidders \ {w} : Served(order, n, b, p) = Served(order, n - 1, b, p)
  BY SeenStep DEF Served, SeenDemand
<1>7. /\ \A b \in Bidders : f[b] \in Nat /\ g[b] \in Nat
      /\ \A b \in Bidders \ {w} : g[b] = f[b]
      /\ g[w] = f[w] + m
  BY <1>1, <1>5, <1>6, ServedType
<1>8. /\ SumFunctionOnSet(f, Bidders) = ServedAll(order, n - 1, p)
      /\ SumFunctionOnSet(g, Bidders) = ServedAll(order, n, p)
  BY DEF ServedAll
<1> HIDE DEF m, f, g
<1>9. SummableOn(Bidders, f) /\ SumFunctionOnSet(f, Bidders) \in Nat
  BY <1>7, BookAssumption, SetSumNat
<1>10. SumFunctionOnSet(g, Bidders) = SumFunctionOnSet(f, Bidders) + (g[w] - f[w])
  <2>1. g[w] \in Int BY <1>1, <1>7
  <2>2. /\ IsFiniteSet(Bidders) /\ SummableOn(Bidders, f) /\ w \in Bidders
        /\ \A b \in Bidders \ {w} : g[b] = f[b]
    BY <1>1, <1>7, <1>9, BookAssumption
  <2> QED BY <2>1, <2>2, SetSumChange
<1>11. g[w] - f[w] = m
  <2>1. f[w] \in Nat /\ g[w] = f[w] + m BY <1>1, <1>7
  <2> QED BY <1>5, <2>1
<1>12. ServedAll(order, n, p) = ServedAll(order, n - 1, p) + m
  BY <1>8, <1>10, <1>11
<1>13. ServedAll(order, n - 1, p) \in Nat BY <1>8, <1>9
<1>14. ServedAll(order, n, p) >= ServedAll(order, n - 1, p) BY <1>5, <1>12, <1>13
<1> QED BY <1>5, <1>6, <1>12, <1>13, <1>14 DEF m, d

\* What the loop has computed after n bids.
LoopOK(acc, order, n, p) ==
  IF acc.fits
    THEN \A b \in Bidders : acc.allocation[b] = Served(order, n, b, p)
    ELSE ServedAll(order, n, p) > sellingAmt

\* One iteration of the loop of Match.
LEMMA LoopStep ==
  ASSUME BookInv, NEW p \in Nat \ {0}, NEW order, IsOrder(Len(bids), order),
         NEW n \in 1..Len(bids), NEW acc, NEW new,
         AccOK(acc, p, bids, PayingDenom, sellingAmt, maxBid),
         LoopOK(acc, order, n - 1, p),
         new = Visit(acc, order[n], p, bids, sellingAmt, maxBid)
  PROVE  LoopOK(new, order, n, p)
<1> DEFINE k == order[n]
           w == bids[k].bidder
           d == DemandOfBid(k, p)
           m == MinInt(d, maxBid[w] - Served(order, n - 1, w, p))
<1>1. k \in BidIds /\ w \in Bidders BY SeenStep
<1>2. /\ \A b \in Bidders \ {w} : Served(order, n, b, p) = Served(order, n - 1, b, p)
      /\ Served(order, n, w, p) = Served(order, n - 1, w, p) + m
      /\ ServedAll(order, n - 1, p) \in Nat
      /\ ServedAll(order, n, p) = ServedAll(order, n - 1, p) + m
      /\ ServedAll(order, n, p) >= ServedAll(order, n - 1, p)
  BY ServedStep
<1>3. /\ d \in Nat
      /\ Outbid(bids[k], p) => d = 0
      /\ ~Outbid(bids[k], p) => d = BidAmount(bids[k], p)
  BY <1>1, DemandFacts
<1>4. /\ maxBid[w] \in Nat /\ sellingAmt \in Nat
      /\ Served(order, n - 1, w, p) \in Nat
      /\ Served(order, n - 1, w, p) <= maxBid[w]
      /\ DOMAIN maxBid = Bidders
  BY <1>1, BookInput, ServedType DEF BookInv
<1>5. m \in Nat /\ (d = 0 => m = 0)
  <2> DEFINE x == maxBid[w]
             a == Served(order, n - 1, w, p)
  <2>1. m = (IF d < x - a THEN d ELSE x - a) /\ x \in Nat /\ a \in Nat /\ a <= x
    BY <1>4 DEF MinInt
  <2> HIDE DEF x, a, d, m
  <2> QED BY <1>3, <2>1
<1>6. /\ acc \in Accumulator(Len(bids), Bidders)
      /\ SumFunctionOnSet(acc.allocation, Bidders) = acc.amount
  BY <1>4 DEF AccOK
<1>7. CASE ~acc.fits
  <2>1. ~new.fits
    <3>1. CASE Outbid(bids[k], p) BY <1>7, <3>1 DEF Visit
    <3>2. CASE ~Outbid(bids[k], p)
      <4>1. new = [acc EXCEPT !.fits = FALSE] BY <1>7, <3>2 DEF Visit, MatchStep
      <4> QED BY <1>6, <4>1 DEF Accumulator
    <3> QED BY <3>1, <3>2
  <2>2. ServedAll(order, n - 1, p) > sellingAmt BY <1>7 DEF LoopOK
  <2>3. ServedAll(order, n, p) > sellingAmt
    <3> DEFINE x == ServedAll(order, n - 1, p)
               y == ServedAll(order, n, p)
    <3>1. x > sellingAmt /\ y >= x /\ x \in Nat /\ y = x + m BY <1>2, <2>2
    <3> HIDE DEF x, y, m
    <3>2. y > sellingAmt BY <1>4, <1>5, <3>1
    <3> QED BY <3>2 DEF y
  <2> QED BY <2>1, <2>3 DEF LoopOK
<1>8. CASE acc.fits
  <2>1. \A b \in Bidders : acc.allocation[b] = Served(order, n - 1, b, p)
    BY <1>8 DEF LoopOK
  <2>2. CASE Outbid(bids[k], p)
    <3>1. new = acc /\ m = 0 BY <1>3, <1>5, <2>2 DEF Visit
    <3>2. Served(order, n, w, p) = Served(order, n - 1, w, p)
      <4> HIDE DEF m
      <4> QED BY <1>2, <1>4, <3>1
    <3>3. \A b \in Bidders : Served(order, n, b, p) = Served(order, n - 1, b, p)
      BY <1>2, <3>2
    <3> QED BY <1>8, <2>1, <3>1, <3>3 DEF LoopOK
  <2>3. CASE ~Outbid(bids[k], p)
    <3>1. MatchAmount(acc, bids[k], p, maxBid) = m
      BY <1>1, <1>3, <2>1, <2>3 DEF MatchAmount
    <3>2. new = MatchStep(acc, k, w, m, p, sellingAmt)
      BY <2>3, <3>1 DEF Visit
    <3>3. ServedAll(order, n - 1, p) = acc.amount
      <4>1. acc.allocation = [b \in Bidders |-> Served(order, n - 1, b, p)]
        BY <1>6, <2>1 DEF Accumulator
      <4> QED BY <1>6, <4>1 DEF ServedAll
    <3>4. acc.amount \in Nat BY <1>6 DEF Accumulator
    <3> HIDE DEF m
    <3>5. CASE acc.amount + m > sellingAmt
      <4>1. new = [acc EXCEPT !.fits = FALSE]
        BY <3>2, <3>5 DEF MatchStep, Exceeds
      <4>2. ~new.fits BY <1>6, <4>1 DEF Accumulator
      <4>3. ServedAll(order, n, p) > sellingAmt BY <1>2, <3>3, <3>5
      <4> QED BY <4>2, <4>3 DEF LoopOK
    <3>6. CASE ~(acc.amount + m > sellingAmt)
      <4>1. acc.amount + m <= sellingAmt BY <1>4, <1>5, <3>4, <3>6
      <4> HIDE DEF k, w
      <4>2. k \in 1..Len(bids) /\ Len(bids) \in Nat BY <1>1, BookInput DEF BidIds
      <4>3. Takes(acc, new, Len(bids), Bidders, k, w, m, p)
        BY <1>1, <1>4, <1>5, <1>6, <1>8, <3>2, <4>1, <4>2, MatchStepFields
      <4>4. new.fits /\ new.allocation = Added(acc.allocation, w, m)
        BY <4>3 DEF Takes
      <4>5. ASSUME NEW b \in Bidders PROVE new.allocation[b] = Served(order, n, b, p)
        <5>1. acc.allocation \in [Bidders -> Nat] BY <1>6 DEF Accumulator
        <5>2. CASE b = w
          <6>1. new.allocation[w] = acc.allocation[w] + m
            BY <1>1, <4>4, <5>1 DEF Added
          <6> QED BY <1>1, <1>2, <2>1, <5>2, <6>1
        <5>3. CASE b # w
          <6>1. new.allocation[b] = acc.allocation[b]
            BY <4>4, <5>1, <5>3 DEF Added
          <6> QED BY <1>2, <2>1, <5>3, <6>1
        <5> QED BY <5>2, <5>3
      <4> QED BY <4>4, <4>5 DEF LoopOK
    <3> QED BY <3>5, <3>6
  <2> QED BY <2>2, <2>3
<1> QED BY <1>7, <1>8

\* The list of the bids contains every bid.
LEMMA OrderIsComplete ==
  ASSUME NEW n \in Nat, NEW order, IsOrder(n, order), NEW k \in 1..n
  PROVE  \E i \in 1..n : order[i] = k
<1>1. order \in Injection(1..n, 1..n) BY DEF IsOrder, Injection, IsInjective
<1>2. IsFiniteSet(1..n) BY FS_Interval
<1>3. order \in Surjection(1..n, 1..n) BY <1>1, <1>2, FS_Injection
<1> QED BY <1>3 DEF Surjection

\* The demand of a bidder and of all of them is what serves them after the last bid.
LEMMA ServedIsDemand ==
  ASSUME BookInv, NEW p \in Nat \ {0}, NEW order, IsOrder(Len(bids), order)
  PROVE  /\ \A b \in Bidders : Served(order, Len(bids), b, p) = DemandOf(b, p)
         /\ ServedAll(order, Len(bids), p) = Demand(p)
<1>1. ASSUME NEW b \in Bidders PROVE Served(order, Len(bids), b, p) = DemandOf(b, p)
  <2>1. Len(bids) \in Nat BY BookInput
  <2>2. Seen(order, Len(bids), b) = BidsOf(b)
    BY <2>1, OrderIsComplete DEF Seen, BidsOf, BidIds
  <2> QED BY <2>2 DEF Served, SeenDemand, DemandOf, Demands
<1>2. [b \in Bidders |-> Served(order, Len(bids), b, p)] =
        [b \in Bidders |-> DemandOf(b, p)]
  BY <1>1
<1> QED BY <1>1, <1>2 DEF ServedAll, Demand

\* Before the first bid nobody is served.
LEMMA ServedNothing ==
  ASSUME BookInv, NEW p \in Nat \ {0}, NEW order, NEW b \in Bidders
  PROVE  Served(order, 0, b, p) = 0
<1>1. Seen(order, 0, b) = {} BY DEF Seen
<1>2. SeenDemand(order, 0, b, p) = 0 BY <1>1, SetSumEmpty DEF SeenDemand
<1>3. maxBid[b] \in Nat \ {0} BY BookInput
<1> QED BY <1>2, <1>3 DEF Served, MinInt

\* Match(p, ...) matches when the demand at p can be met, and then gives every
\* bidder what they demand.
LEMMA MatchIsDemand ==
  ASSUME BookInv, NEW p \in Nat \ {0}, NEW order, IsOrder(Len(bids), order),
         NEW res, res = Match(p, bids, order, sellingAmt, maxBid)
  PROVE  /\ res.price = p
         /\ res.fits => \A b \in Bidders : res.allocation[b] = DemandOf(b, p)
         /\ Matched(res) <=> Demand(p) \in 1..sellingAmt
         /\ Demand(p) \in Nat
<1> DEFINE N == Len(bids)
<1>1. /\ MatchInput(bids, PayingDenom, sellingAmt, maxBid) /\ N \in Nat
      /\ DOMAIN maxBid = Bidders
  BY BookInput
<1>2. PICK acc : IsLoop(acc, p, bids, order, sellingAmt, maxBid) /\ res = acc[N]
  BY <1>1, MatchLoop
<1>3. \A n \in 0..N : AccOK(acc[n], p, bids, PayingDenom, sellingAmt, maxBid)
  BY <1>1, <1>2, MatchSound
<1> DEFINE T == {n \in Nat : n <= N => LoopOK(acc[n], order, n, p)}
<1>4. 0 \in T
  <2> DEFINE z == [b \in Bidders |-> 0]
  <2>1. acc[0] = [fits |-> TRUE, price |-> p, amount |-> 0, matchedBids |-> {},
                  allocation |-> z, paying |-> z]
    BY <1>1, <1>2 DEF IsLoop, Start, NoMatch
  <2>2. acc[0].fits /\ acc[0].allocation = z BY <2>1
  <2> QED BY <2>2, ServedNothing DEF LoopOK
<1>5. ASSUME NEW n \in Nat, n \in T PROVE n + 1 \in T
  <2> SUFFICES ASSUME n + 1 <= N PROVE LoopOK(acc[n + 1], order, n + 1, p) OBVIOUS
  <2> DEFINE i == n + 1
  <2>1. i \in 1..Len(bids) /\ i - 1 = n /\ n \in 0..N BY <1>1
  <2>2. LoopOK(acc[n], order, i - 1, p) BY <1>1, <1>5, <2>1
  <2>3. acc[i] = Visit(acc[n], order[i], p, bids, sellingAmt, maxBid)
    BY <1>2, <2>1 DEF IsLoop
  <2> HIDE DEF i
  <2>4. LoopOK(acc[i], order, i, p) BY <1>3, <2>1, <2>2, <2>3, LoopStep
  <2> QED BY <2>4 DEF i
<1>6. N \in T
  <2> HIDE DEF T
  <2> QED BY <1>1, <1>4, <1>5, InductiveSet
<1>7. LoopOK(res, order, N, p) BY <1>1, <1>2, <1>6
<1>8. AccOK(res, p, bids, PayingDenom, sellingAmt, maxBid) BY <1>1, <1>2, <1>3
<1>9. /\ \A b \in Bidders : Served(order, N, b, p) = DemandOf(b, p)
      /\ ServedAll(order, N, p) = Demand(p)
  BY ServedIsDemand
<1>10. /\ res.fits => \A b \in Bidders : res.allocation[b] = DemandOf(b, p)
       /\ ~res.fits => Demand(p) > sellingAmt
  BY <1>7, <1>9 DEF LoopOK
<1>11. /\ res \in Accumulator(N, Bidders) /\ res.price = p
       /\ res.amount <= sellingAmt /\ (res.matchedBids # {} => res.amount > 0)
       /\ SumFunctionOnSet(res.allocation, Bidders) = res.amount
       /\ \A b \in Bidders : BidderOK(res, b, p, bids, PayingDenom, maxBid)
  BY <1>1, <1>8 DEF AccOK
<1>12. /\ res.amount \in Nat /\ sellingAmt \in Nat /\ res.fits \in BOOLEAN
       /\ res.allocation \in [Bidders -> Nat] /\ res.paying \in [Bidders -> Nat]
  BY <1>11 DEF Accumulator, BookInv
<1>13. res.fits => Demand(p) = res.amount
  <2> SUFFICES ASSUME res.fits PROVE Demand(p) = res.amount OBVIOUS
  <2>1. res.allocation = [b \in Bidders |-> DemandOf(b, p)] BY <1>10, <1>12
  <2> QED BY <1>11, <2>1 DEF Demand
<1>14. Demand(p) \in Nat
  <2> DEFINE f == [b \in Bidders |-> DemandOf(b, p)]
  <2>1. \A b \in Bidders : f[b] \in Nat BY <1>9, ServedType
  <2> HIDE DEF f
  <2>2. SumFunctionOnSet(f, Bidders) \in Nat BY <2>1, BookAssumption, SetSumNat
  <2> QED BY <2>2 DEF Demand, f
<1>15. res.matchedBids = {} => res.amount = 0
  <2> SUFFICES ASSUME res.matchedBids = {} PROVE res.amount = 0 OBVIOUS
  <2>1. ASSUME NEW b \in Bidders PROVE res.allocation[b] = 0
    <3>1. MatchedCost(bids, res.matchedBids, b, PayingDenom) = 0
      BY <1>1, NoMatchedCost
    <3>2. /\ res.paying[b] <= MatchedCost(bids, res.matchedBids, b, PayingDenom)
          /\ res.allocation[b] * p <= res.paying[b] * ONE
      BY <1>11 DEF BidderOK
    <3>3. res.paying[b] = 0 BY <1>12, <3>1, <3>2
    <3> DEFINE a == res.allocation[b]
    <3>4. a \in Nat /\ a * p <= 0 BY <1>12, <3>2, <3>3, OneAssumption
    <3>5. a = 0
      <4> SUFFICES ASSUME 1 <= a PROVE FALSE BY <3>4
      <4> HIDE DEF a
      <4>1. 1 * p <= a * p BY <3>4, ProductMonotone
      <4>2. a * p \in Nat BY <3>4
      <4> QED BY <3>4, <4>1, <4>2
    <3> QED BY <3>5
  <2>2. SumFunctionOnSet(res.allocation, Bidders) = 0
    BY <2>1, BookAssumption, SetSumZero
  <2> QED BY <1>11, <2>2
<1>16. Matched(res) <=> Demand(p) \in 1..sellingAmt
  <2>1. CASE res.fits BY <1>11, <1>12, <1>13, <1>15, <2>1 DEF Matched
  <2>2. CASE ~res.fits BY <1>10, <1>12, <1>14, <2>2 DEF Matched
  <2> QED BY <2>1, <2>2
<1> QED BY <1>10, <1>11, <1>14, <1>16

\* In every book, the bidders are given exactly what they demand at the matched
\* price, capped by their MaxBidAmount, and all of it is on offer (types/match.go:
\* the loop over bidsByPrice with biddableAmtByBidder).
THEOREM AllocationMeetsDemand == Spec => []AllocationIsDemand
<1>1. BookInv => AllocationIsDemand
  <2> SUFFICES ASSUME BookInv, Result.matchedLen > 0
               PROVE  /\ Result.matchedPrice \in FeasiblePrices
                      /\ \A b \in Bidders :
                           Result.allocation[b] = DemandOf(b, Result.matchedPrice)
    BY DEF AllocationIsDemand
  <2> DEFINE order == BidsByPrice(bids)
             res == BookMatch
  <2>1. /\ MatchInput(bids, PayingDenom, sellingAmt, maxBid)
        /\ \A k \in BidIds : bids[k].price \in Nat \ {0}
    BY BookInput
  <2>2. IsOrder(Len(bids), order) BY <2>1, BidsByPriceOrder DEF MatchInput
  <2>3. res = FindMatch(bids, BidPrices(bids), order, sellingAmt, maxBid)
    BY DEF BookMatch
  <2>4. /\ Result.matchedBids = res.matchedBids
        /\ Result.matchedPrice = res.price
        /\ Result.allocation = res.allocation
        /\ Result.matchedLen = Cardinality(Result.matchedBids)
    BY ResultFacts DEF FairMatch
  <2> HIDE DEF order, res
  <2>5. \/ res = NoMatch(DOMAIN maxBid)
        \/ \E p \in BidPrices(bids) :
             res = Match(p, bids, order, sellingAmt, maxBid) /\ Matched(res)
    BY <2>1, <2>2, <2>3, FindMatchFacts
  <2>6. res # NoMatch(DOMAIN maxBid)
    <3> SUFFICES ASSUME res = NoMatch(DOMAIN maxBid) PROVE FALSE OBVIOUS
    <3>1. res.matchedBids = {} BY DEF NoMatch
    <3>2. Result.matchedLen = 0 BY <2>4, <3>1, FS_EmptySet
    <3> QED BY <3>2
  <2>7. PICK p \in BidPrices(bids) :
          res = Match(p, bids, order, sellingAmt, maxBid) /\ Matched(res)
    BY <2>5, <2>6
  <2>8. p \in Nat \ {0} BY <2>1 DEF BidPrices, BidIds
  <2>9. /\ res.price = p
        /\ res.fits => \A b \in Bidders : res.allocation[b] = DemandOf(b, p)
        /\ Matched(res) <=> Demand(p) \in 1..sellingAmt
    BY <2>2, <2>7, <2>8, MatchIsDemand
  <2>10. res.fits BY <2>7 DEF Matched
  <2> QED BY <2>4, <2>7, <2>9, <2>10 DEF FeasiblePrices
<1> QED BY <1>1, BookSound, PTL

-----------------------------------------------------------------------------
(***************************************************************************)
(* The bisection over the prices.  It is sound whatever the book: it stops *)
(* at a feasible price with an infeasible one below it.  In a book without *)
(* dust, the demand is positive at every price and falls when the price    *)
(* rises, so that all of the lower prices are infeasible.                  *)
(***************************************************************************)

\* The index at which the bisection of FindMatch stops.
LEMMA FoundIndex ==
  ASSUME BookInv, NEW P, P = BidPrices(bids), NEW n, n = Cardinality(P)
  PROVE  \E i \in 0..n :
           /\ i < n => /\ LowestPrice(P, i) \in FeasiblePrices
                       /\ BookMatch.price = LowestPrice(P, i)
                       /\ BookMatch.matchedBids # {}
           /\ ~(i < n) => BookMatch.matchedBids = {}
           /\ i > 0 => LowestPrice(P, i - 1) \notin FeasiblePrices
<1> DEFINE order == BidsByPrice(bids)
           R == [i \in 0..(n - 1) |->
                   Match(LowestPrice(P, i), bids, order, sellingAmt, maxBid)]
           ok == [i \in 0..(n - 1) |-> Matched(R[i])]
           found == Search(n, ok)
<1>1. /\ MatchInput(bids, PayingDenom, sellingAmt, maxBid) /\ Len(bids) \in Nat
      /\ \A k \in BidIds : bids[k].price \in Nat \ {0}
  BY BookInput
<1>2. IsOrder(Len(bids), order) BY <1>1, BidsByPriceOrder
<1>3. /\ P \in SUBSET Nat /\ IsFiniteSet(P) /\ n \in Nat
      /\ \A p \in P : p \in Nat \ {0}
  <2>1. \A k \in 1..Len(bids) : bids[k].price \in Nat BY <1>1 DEF BidIds
  <2>2. \A p \in P : p \in Nat \ {0} BY <1>1 DEF BidPrices, BidIds
  <2> QED BY <1>1, <2>1, <2>2, BidPricesType
<1>4. BookMatch = IF found < n THEN R[found] ELSE NoMatch(DOMAIN maxBid)
  BY DEF BookMatch, FindMatch, LastMatched
<1>5. \A i \in 0..(n - 1) :
        /\ R[i] = Match(LowestPrice(P, i), bids, order, sellingAmt, maxBid)
        /\ ok[i] = Matched(R[i])
  OBVIOUS
<1> HIDE DEF order, R, ok, found
<1>6. /\ found \in 0..n /\ (found < n => ok[found])
      /\ found > 0 => ~ok[found - 1]
  BY <1>3, SearchFacts DEF found
<1>7. ASSUME NEW i \in 0..(n - 1)
      PROVE  /\ R[i].price = LowestPrice(P, i)
             /\ ok[i] <=> LowestPrice(P, i) \in FeasiblePrices
  <2> DEFINE p == LowestPrice(P, i)
  <2>1. i \in Nat /\ i < n BY <1>3
  <2>2. p \in P BY <1>3, <2>1, LowestPriceType
  <2>3. p \in Nat \ {0} BY <1>3, <2>2
  <2>4. R[i] = Match(p, bids, order, sellingAmt, maxBid) /\ ok[i] = Matched(R[i])
    BY <1>5
  <2> HIDE DEF p
  <2>5. R[i].price = p /\ (Matched(R[i]) <=> Demand(p) \in 1..sellingAmt)
    BY <1>2, <2>3, <2>4, MatchIsDemand
  <2>6. p \in FeasiblePrices <=> Demand(p) \in 1..sellingAmt
    BY <2>2 DEF FeasiblePrices
  <2> QED BY <2>4, <2>5, <2>6 DEF p
<1>8. found < n => /\ LowestPrice(P, found) \in FeasiblePrices
                   /\ BookMatch.price = LowestPrice(P, found)
                   /\ BookMatch.matchedBids # {}
  <2> SUFFICES ASSUME found < n
               PROVE  /\ LowestPrice(P, found) \in FeasiblePrices
                      /\ BookMatch.price = LowestPrice(P, found)
                      /\ BookMatch.matchedBids # {}
    OBVIOUS
  <2>1. found \in 0..(n - 1) /\ ok[found] BY <1>3, <1>6
  <2>2. BookMatch = R[found] BY <1>4
  <2>3. Matched(R[found]) BY <1>5, <2>1
  <2> QED BY <1>7, <2>1, <2>2, <2>3 DEF Matched
<1>9. ~(found < n) => BookMatch.matchedBids = {} BY <1>4 DEF NoMatch
<1>10. found > 0 => LowestPrice(P, found - 1) \notin FeasiblePrices
  <2> SUFFICES ASSUME found > 0 PROVE LowestPrice(P, found - 1) \notin FeasiblePrices
    OBVIOUS
  <2>1. found - 1 \in 0..(n - 1) BY <1>3, <1>6
  <2> QED BY <1>6, <1>7, <2>1
<1> QED BY <1>6, <1>8, <1>9, <1>10

\* A quotient falls when the divisor rises.
LEMMA DivAntitone ==
  ASSUME NEW x \in Nat, NEW p \in Nat \ {0}, NEW q \in Nat \ {0}, p <= q
  PROVE  x \div q <= x \div p
<1> DEFINE u == x \div q
           v == x \div p
<1>1. /\ u \in Nat /\ u * q <= x
      /\ v \in Nat /\ x <= v * p + (p - 1)
  BY DivBounds
<1> HIDE DEF u, v
<1>2. u <= v
  <2> SUFFICES ASSUME v + 1 <= u PROVE FALSE BY <1>1
  <2>1. (v + 1) * p <= u * p BY <1>1, ProductMonotone
  <2>2. p * u <= q * u BY <1>1, ProductMonotone
  <2>3. (v + 1) * p = v * p + p /\ p * u = u * p /\ q * u = u * q BY <1>1
  <2> DEFINE a == v * p
             b == u * p
             c == u * q
  <2>4. /\ a \in Nat /\ b \in Nat /\ c \in Nat
        /\ a + p <= b /\ b <= c /\ c <= x /\ x <= a + (p - 1)
    BY <1>1, <2>1, <2>2, <2>3
  <2> HIDE DEF a, b, c
  <2> QED BY <2>4
<1> QED BY <1>2 DEF u, v

\* The demand falls when the price rises.
LEMMA DemandAntitone ==
  ASSUME BookInv, NEW p \in Nat \ {0}, NEW q \in Nat \ {0}, p <= q
  PROVE  /\ Demand(q) <= Demand(p)
         /\ Demand(p) \in Nat /\ Demand(q) \in Nat
<1>1. ASSUME NEW k \in BidIds PROVE DemandOfBid(k, q) <= DemandOfBid(k, p)
  <2>1. bids[k].price \in Nat /\ bids[k].amount \in Nat BY BookInput
  <2>2. DemandOfBid(k, p) \in Nat /\ DemandOfBid(k, q) \in Nat BY DemandFacts
  <2>3. CASE bids[k].price < q
    <3>1. DemandOfBid(k, q) = 0 BY <2>3 DEF DemandOfBid
    <3> QED BY <2>2, <3>1
  <2>4. CASE ~(bids[k].price < q)
    <3>1. ~(bids[k].price < p) BY <2>1, <2>4
    <3>2. CASE bids[k].type = "BatchWorth"
      <4> DEFINE x == bids[k].amount * ONE
      <4>1. x \in Nat BY <2>1, OneAssumption
      <4>2. DemandOfBid(k, q) = x \div q /\ DemandOfBid(k, p) = x \div p
        BY <2>4, <3>1, <3>2 DEF DemandOfBid, QuoTruncateInt
      <4> HIDE DEF x
      <4>3. x \div q <= x \div p BY <4>1, DivAntitone
      <4> QED BY <4>2, <4>3
    <3>3. CASE bids[k].type # "BatchWorth"
      <4>1. DemandOfBid(k, q) = DemandOfBid(k, p)
        BY <2>4, <3>1, <3>3 DEF DemandOfBid
      <4> QED BY <2>2, <4>1
    <3> QED BY <3>2, <3>3
  <2> QED BY <2>3, <2>4
<1>2. ASSUME NEW b \in Bidders
      PROVE  /\ DemandOf(b, q) <= DemandOf(b, p)
             /\ DemandOf(b, p) \in Nat /\ DemandOf(b, q) \in Nat
  <2> DEFINE S == BidsOf(b)
             x == SumFunctionOnSet(Demands(p), S)
             y == SumFunctionOnSet(Demands(q), S)
  <2>1. S \in SUBSET BidIds BY DEF BidsOf
  <2> HIDE DEF S
  <2>2. /\ IsFiniteSet(S) /\ SummableOn(S, Demands(p)) /\ SummableOn(S, Demands(q))
        /\ x \in Nat /\ y \in Nat
    BY <2>1, DemandSum
  <2>3. \A k \in S : Demands(q)[k] <= Demands(p)[k] BY <1>1, <2>1, DemandFacts
  <2>4. y <= x BY <2>2, <2>3, SetSumMonotone
  <2>5. /\ DemandOf(b, p) = MinInt(maxBid[b], x)
        /\ DemandOf(b, q) = MinInt(maxBid[b], y)
    BY DEF DemandOf, Demands, S
  <2>6. maxBid[b] \in Nat BY BookInput
  <2> HIDE DEF x, y
  <2> QED BY <2>2, <2>4, <2>5, <2>6 DEF MinInt
<1> DEFINE f == [b \in Bidders |-> DemandOf(b, p)]
           g == [b \in Bidders |-> DemandOf(b, q)]
<1>3. \A b \in Bidders : f[b] \in Nat /\ g[b] \in Nat /\ g[b] <= f[b] BY <1>2
<1>4. /\ Demand(p) = SumFunctionOnSet(f, Bidders)
      /\ Demand(q) = SumFunctionOnSet(g, Bidders)
  BY DEF Demand
<1> HIDE DEF f, g
<1>5. /\ SummableOn(Bidders, f) /\ SumFunctionOnSet(f, Bidders) \in Nat
      /\ SummableOn(Bidders, g) /\ SumFunctionOnSet(g, Bidders) \in Nat
  BY <1>3, BookAssumption, SetSumNat
<1>6. SumFunctionOnSet(g, Bidders) <= SumFunctionOnSet(f, Bidders)
  BY <1>3, <1>5, BookAssumption, SetSumMonotone
<1> QED BY <1>4, <1>5, <1>6

\* Without dust, somebody demands something at every price of the book: the bidder
\* who bid that price.
LEMMA DemandPositive ==
  ASSUME BookInv, \A k \in BidIds : ~Dust(k), NEW p \in BidPrices(bids)
  PROVE  p \in Nat \ {0} /\ Demand(p) > 0
<1>1. PICK k \in BidIds : p = bids[k].price BY DEF BidPrices, BidIds
<1> DEFINE b == bids[k].bidder
           S == BidsOf(b)
<1>2. /\ b \in Bidders /\ p \in Nat \ {0}
      /\ bids[k].amount \in Nat \ {0} /\ maxBid[b] \in Nat \ {0}
  BY <1>1, BookInput
<1>3. DemandOfBid(k, p) \in Nat /\ Demands(p)[k] = DemandOfBid(k, p)
  BY <1>2, DemandFacts
<1>4. DemandOfBid(k, p) # 0
  <2>1. ~(bids[k].price < p) BY <1>1, <1>2
  <2>2. CASE bids[k].type = "BatchWorth"
    <3>1. QuoTruncateInt(bids[k].amount, p) # 0 BY <2>2 DEF Dust
    <3> QED BY <2>1, <2>2, <3>1 DEF DemandOfBid
  <2>3. CASE bids[k].type # "BatchWorth"
    BY <1>2, <2>1, <2>3 DEF DemandOfBid
  <2> QED BY <2>2, <2>3
<1>5. k \in S /\ S \in SUBSET BidIds BY DEF BidsOf
<1> HIDE DEF b, S
<1>6. /\ IsFiniteSet(S) /\ SumFunctionOnSet(Demands(p), S) \in Nat
      /\ \A j \in S : Demands(p)[j] \in Nat
  BY <1>2, <1>5, DemandSum, DemandFacts
<1>7. DemandOfBid(k, p) <= SumFunctionOnSet(Demands(p), S)
  BY <1>3, <1>5, <1>6, SetSumMember
<1>8. DemandOf(b, p) = MinInt(maxBid[b], SumFunctionOnSet(Demands(p), S))
  BY DEF DemandOf, Demands, S
<1>9. DemandOf(b, p) \in Nat /\ DemandOf(b, p) > 0
  <2> DEFINE x == SumFunctionOnSet(Demands(p), S)
  <2>1. x \in Nat /\ x > 0 BY <1>3, <1>4, <1>6, <1>7
  <2>2. DemandOf(b, p) = MinInt(maxBid[b], x) BY <1>8
  <2> HIDE DEF x
  <2> QED BY <1>2, <2>1, <2>2 DEF MinInt
<1> DEFINE f == [c \in Bidders |-> DemandOf(c, p)]
<1>10. ASSUME NEW c \in Bidders PROVE DemandOf(c, p) \in Nat
  <2>1. BidsOf(c) \in SUBSET BidIds BY DEF BidsOf
  <2>2. SumFunctionOnSet(Demands(p), BidsOf(c)) \in Nat BY <1>2, <2>1, DemandSum
  <2>3. DemandOf(c, p) = MinInt(maxBid[c], SumFunctionOnSet(Demands(p), BidsOf(c)))
    BY DEF DemandOf, Demands
  <2>4. maxBid[c] \in Nat BY BookInput
  <2> QED BY <2>2, <2>3, <2>4 DEF MinInt
<1>11. (\A c \in Bidders : f[c] \in Nat) /\ f[b] = DemandOf(b, p) BY <1>2, <1>10
<1>12. Demand(p) = SumFunctionOnSet(f, Bidders) BY DEF Demand
<1> HIDE DEF f
<1>13. /\ f[b] <= SumFunctionOnSet(f, Bidders)
       /\ SumFunctionOnSet(f, Bidders) \in Nat
  BY <1>2, <1>11, BookAssumption, SetSumMember, SetSumNat
<1> QED BY <1>2, <1>9, <1>11, <1>12, <1>13

\* A higher price has more prices below it.
LEMMA RankMonotone ==
  ASSUME NEW P \in SUBSET Nat, IsFiniteSet(P), NEW p \in P, NEW q \in P, p < q
  PROVE  Cardinality(Below(P, p)) < Cardinality(Below(P, q))
<1> DEFINE S == Below(P, q)
           T == Below(P, p)
<1>1. T \in SUBSET S /\ p \in S /\ p \notin T /\ S \in SUBSET P
  <2>1. \A x \in P : x \in Nat OBVIOUS
  <2>2. \A x \in T : x \in S
    <3> SUFFICES ASSUME NEW x \in T PROVE x \in S OBVIOUS
    <3>1. x \in P /\ x < p BY DEF Below
    <3>2. x \in Nat /\ p \in Nat /\ q \in Nat BY <2>1, <3>1
    <3>3. x < q BY <3>1, <3>2
    <3> QED BY <3>1, <3>3 DEF Below
  <2>3. p \in S /\ p \notin T BY <2>1 DEF Below
  <2>4. S \in SUBSET P BY DEF Below
  <2> QED BY <2>2, <2>3, <2>4
<1> HIDE DEF S, T
<1>2. IsFiniteSet(S) /\ IsFiniteSet(T) BY <1>1, FS_Subset
<1>3. Cardinality(T) <= Cardinality(S) /\ Cardinality(S) # Cardinality(T)
  BY <1>1, <1>2, FS_Subset
<1>4. Cardinality(S) \in Nat /\ Cardinality(T) \in Nat BY <1>2, FS_CardinalityType
<1>5. Cardinality(T) < Cardinality(S) BY <1>3, <1>4
<1> QED BY <1>5 DEF S, T

\* In every book without dust, the bisection finds the lowest of the prices at
\* which the demand can be met, and none only if there is none (keeper/match.go:
\* the sort.Search over the prices, "the lowest possible").
THEOREM BisectionFindsLowest == Spec => []LowestPriceMatchedWithoutDust
<1>1. BookInv => LowestPriceMatchedWithoutDust
  <2> SUFFICES ASSUME BookInv, \A k \in BidIds : ~Dust(k) PROVE LowestPriceMatched
    BY DEF LowestPriceMatchedWithoutDust
  <2> DEFINE P == BidPrices(bids)
             n == Cardinality(P)
             F == FeasiblePrices
             L(i) == LowestPrice(P, i)
  <2>1. /\ P \in SUBSET Nat /\ IsFiniteSet(P) /\ n \in Nat
        /\ \A p \in P : p \in Nat \ {0}
    <3>1. /\ Len(bids) \in Nat
          /\ \A k \in BidIds : bids[k].price \in Nat \ {0}
      BY BookInput
    <3>2. \A k \in 1..Len(bids) : bids[k].price \in Nat BY <3>1 DEF BidIds
    <3>3. \A p \in P : p \in Nat \ {0} BY <3>1 DEF BidPrices, BidIds
    <3> QED BY <3>1, <3>2, <3>3, BidPricesType
  <2>2. F = {p \in P : Demand(p) \in 1..sellingAmt} /\ sellingAmt \in Nat
    BY DEF FeasiblePrices, BookInv
  <2>3. \A p \in P : p \in Nat \ {0} /\ Demand(p) > 0 BY DemandPositive
  <2>4. PICK i \in 0..n :
          /\ i < n => L(i) \in F /\ BookMatch.price = L(i) /\ BookMatch.matchedBids # {}
          /\ ~(i < n) => BookMatch.matchedBids = {}
          /\ i > 0 => L(i - 1) \notin F
    BY FoundIndex
  <2>5. /\ Result.matchedBids = BookMatch.matchedBids
        /\ Result.matchedPrice = BookMatch.price
        /\ Result.matchedLen = Cardinality(Result.matchedBids)
        /\ Result.matchedBids \in SUBSET (1..Len(bids))
    BY ResultFacts DEF FairMatch
  <2>6. (Result.matchedLen > 0 <=> i < n) /\ (Result.matchedLen = 0 <=> ~(i < n))
    <3>1. IsFiniteSet(Result.matchedBids)
      <4>1. IsFiniteSet(1..Len(bids)) BY BookInput, FS_Interval
      <4> QED BY <2>5, <4>1, FS_Subset
    <3>2. Cardinality(Result.matchedBids) \in Nat
          /\ (Cardinality(Result.matchedBids) = 0 <=> Result.matchedBids = {})
      BY <3>1, FS_CardinalityType, FS_EmptySet
    <3> QED BY <2>4, <2>5, <3>2
  <2> HIDE DEF P, n, F
  <2>7. ASSUME NEW p \in F, NEW q \in P, p <= q PROVE q \in F
    <3>1. p \in P /\ Demand(p) \in 1..sellingAmt BY <2>2
    <3>2. Demand(q) <= Demand(p) /\ Demand(q) \in Nat /\ Demand(p) \in Nat
      BY <2>3, <2>7, <3>1, DemandAntitone
    <3>3. Demand(q) > 0 BY <2>3
    <3>4. Demand(q) \in 1..sellingAmt BY <2>2, <3>1, <3>2, <3>3
    <3> QED BY <2>2, <3>4
  <2>8. ASSUME NEW j \in 0..n, j < n
        PROVE  L(j) \in P /\ Cardinality(Below(P, L(j))) = j
    BY <2>1, <2>8, LowestPriceType DEF n
  <2>9. ASSUME NEW p \in F PROVE i < n /\ L(i) <= p
    <3> DEFINE r == Cardinality(Below(P, p))
    <3>1. p \in P BY <2>2
    <3>2. r \in Nat /\ r < n
      <4>1. Below(P, p) \in SUBSET P /\ p \notin Below(P, p)
        BY <2>1, <3>1 DEF Below
      <4>2. /\ IsFiniteSet(Below(P, p))
            /\ Cardinality(Below(P, p)) <= Cardinality(P)
            /\ Cardinality(P) # Cardinality(Below(P, p))
        BY <2>1, <3>1, <4>1, FS_Subset
      <4>3. r \in Nat BY <4>2, FS_CardinalityType
      <4>4. r <= n /\ n # r BY <4>2 DEF n
      <4> HIDE DEF r
      <4> QED BY <2>1, <4>3, <4>4
    <3> HIDE DEF r
    <3>3. r >= i
      <4> SUFFICES ASSUME r < i PROVE FALSE BY <2>1, <3>2
      <4> DEFINE j == i - 1
      <4>1. j \in 0..n /\ j < n /\ r <= j /\ i > 0 BY <2>1, <3>2
      <4>2. L(j) \in P /\ Cardinality(Below(P, L(j))) = j BY <2>8, <4>1
      <4>3. L(j) \notin F BY <2>4, <4>1
      <4> DEFINE q == L(j)
      <4>4. q \in P /\ Cardinality(Below(P, q)) = j BY <4>2
      <4> HIDE DEF L, j, q
      <4>5. p <= q
        <5> SUFFICES ASSUME q < p PROVE FALSE BY <2>1, <3>1, <4>4
        <5>1. Cardinality(Below(P, q)) < Cardinality(Below(P, p))
          BY <2>1, <3>1, <4>4, RankMonotone
        <5> QED BY <3>2, <4>1, <4>4, <5>1 DEF r
      <4>6. q \in F BY <2>7, <4>4, <4>5
      <4> QED BY <4>3, <4>6 DEF q
    <3>4. i < n BY <2>1, <3>2, <3>3
    <3>5. L(i) \in P /\ Cardinality(Below(P, L(i))) = i BY <2>8, <3>4
    <3> DEFINE q == L(i)
    <3>6. q \in P /\ Cardinality(Below(P, q)) = i BY <3>5
    <3>7. q <= p
      <4> HIDE DEF q, L
      <4> SUFFICES ASSUME p < q PROVE FALSE BY <2>1, <3>1, <3>6
      <4>1. Cardinality(Below(P, p)) < Cardinality(Below(P, q))
        BY <2>1, <3>1, <3>6, RankMonotone
      <4> QED BY <3>2, <3>3, <3>6, <4>1 DEF r
    <3> QED BY <3>4, <3>7
  <2>10. CASE F = {}
    <3>1. ~(i < n) BY <2>4, <2>10
    <3> QED BY <2>6, <2>10, <3>1 DEF LowestPriceMatched, F
  <2>11. CASE F # {}
    <3>1. i < n BY <2>9, <2>11
    <3>2. L(i) \in F /\ \A p \in F : L(i) <= p BY <2>4, <2>9, <3>1
    <3>3. Min(F) = L(i)
      <4> DEFINE x == L(i)
      <4>1. x \in F /\ (\A p \in F : x <= p) /\ F \in SUBSET Nat
        BY <2>1, <2>2, <3>2
      <4> HIDE DEF x, L
      <4>2. \A y \in F : (\A p \in F : y <= p) => y = x BY <4>1
      <4>3. Min(F) = x BY <4>1, <4>2 DEF Min
      <4> QED BY <4>3 DEF x
    <3>4. Result.matchedPrice = L(i) BY <2>4, <2>5, <3>1
    <3> QED BY <2>6, <2>11, <3>1, <3>3, <3>4 DEF LowestPriceMatched, F
  <2> QED BY <2>10, <2>11
<1> QED BY <1>1, BookSound, PTL
=============================================================================
