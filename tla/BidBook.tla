------------------------------- MODULE BidBook -------------------------------
(***************************************************************************)
(* The bids of one batch auction, arriving one after the other in any      *)
(* order, matched by CalculateBatchAllocation after each arrival (the      *)
(* auction may close at any moment).  The invariants compare the result of *)
(* the loop and of the bisection with what they are meant to compute, for  *)
(* every book that can be built from the given bidders, prices and         *)
(* amounts.  A bid may exceed its bidder's MaxBidAmount: ModifyBid does    *)
(* not check it, and UpdateAllowedBidder may lower it afterwards.          *)
(***************************************************************************)
EXTENDS Matching, FiniteSetsExt

CONSTANTS
  Bidders,         \* the bidders, all of them on the allowed list
  Prices,          \* the bid prices, as decimals
  Amounts,         \* the coin amounts of bids
  SellingAmounts,  \* the amounts an auction may offer
  MaxBidAmounts,   \* the MaxBidAmounts a bidder may have
  BookSize         \* the bound on the number of bids

ASSUME BookAssumption ==
  /\ IsFiniteSet(Bidders)
  /\ Prices \subseteq PosDecimals
  /\ \A S \in {Amounts, SellingAmounts, MaxBidAmounts} : S \subseteq Nat \ {0}
  /\ BookSize \in Nat

VARIABLES
  sellingAmt,  \* the auction's selling coin amount
  maxBid,      \* the auction's allowed bidders
  bids         \* its bids, in the order of their ids

vars == <<sellingAmt, maxBid, bids>>

PayingDenom == "paying"

BookBid(bidder, type, price, amount) ==
  [bidder |-> bidder, type |-> type, price |-> price, amount |-> amount,
   denom |-> IF type = "BatchWorth" THEN PayingDenom ELSE "selling",
   isMatched |-> FALSE]

Init ==
  /\ sellingAmt \in SellingAmounts
  /\ maxBid \in [Bidders -> MaxBidAmounts]
  /\ bids = <<>>

Arrive(bidder, type, price, amount) ==
  /\ Len(bids) < BookSize
  /\ bids' = Append(bids, BookBid(bidder, type, price, amount))
  /\ UNCHANGED <<sellingAmt, maxBid>>

Next ==
  \E bidder \in Bidders, price \in Prices, amount \in Amounts :
    \/ Arrive(bidder, "BatchWorth", price, amount)
    \/ Arrive(bidder, "BatchMany", price, amount)

Spec == Init /\ [][Next]_vars

-----------------------------------------------------------------------------
(***************************************************************************)
(* What the matching is meant to compute, without loops: the amount every  *)
(* bidder demands at a uniform price, and the prices at which the demand   *)
(* of all of them can be met.                                              *)
(***************************************************************************)
BidIds == 1..Len(bids)

DemandOfBid(k, p) ==
  IF bids[k].price < p THEN 0
  ELSE IF bids[k].type = "BatchWorth" THEN QuoTruncateInt(bids[k].amount, p)
  ELSE bids[k].amount

BidsOf(b) == {k \in BidIds : bids[k].bidder = b}

DemandOf(b, p) ==
  MinInt(maxBid[b],
         SumFunctionOnSet([k \in BidIds |-> DemandOfBid(k, p)], BidsOf(b)))

Demand(p) == SumFunctionOnSet([b \in Bidders |-> DemandOf(b, p)], Bidders)

FeasiblePrices == {p \in BidPrices(bids) : Demand(p) \in 1..sellingAmt}

Result == CalculateBatchAllocation(bids, PayingDenom, sellingAmt, maxBid)

\* Every bidder is given exactly what they demand at the matched price, capped
\* by their MaxBidAmount, however their bids are interleaved with those of
\* others (types/match.go: the loop over bidsByPrice with biddableAmtByBidder),
\* and all of it together is within the selling amount.
AllocationIsDemand ==
  LET res == Result
  IN  res.matchedLen > 0 =>
        /\ res.matchedPrice \in FeasiblePrices
        /\ \A b \in Bidders : res.allocation[b] = DemandOf(b, res.matchedPrice)

\* A bid that is too small to buy one unit at some price of the book.
Dust(k) ==
  /\ bids[k].type = "BatchWorth"
  /\ \E p \in BidPrices(bids) : QuoTruncateInt(bids[k].amount, p) = 0

\* keeper/match.go:68 "We use binary search to find the best(the lowest
\* possible) matching price": the bisection finds the lowest of the feasible
\* prices, and none only if there is none.
LowestPriceMatched ==
  LET res == Result
  IN  IF FeasiblePrices = {}
        THEN res.matchedLen = 0
        ELSE res.matchedLen > 0 /\ res.matchedPrice = Min(FeasiblePrices)

\* The same, for books without dust: there the predicate that the bisection
\* searches with is monotone in the price.
LowestPriceMatchedWithoutDust ==
  (\A k \in BidIds : ~Dust(k)) => LowestPriceMatched

\* A bid that is not matched costs its bidder nothing: the refund covers what
\* was reserved for it, and what the matched bids leave is never negative
\* (RefundMap becomes an sdk.Coin, which panics on a negative amount).
UnmatchedBidsRefunded ==
  LET res == Result
      reserved == [k \in BidIds |-> ConvertToPayingAmount(bids[k], PayingDenom)]
  IN  \A b \in Bidders :
        res.refund[b] >= SumFunctionOnSet(reserved, BidsOf(b) \ res.matchedBids)

\* Rounding never costs the auctioneer anything: what the bidders leave in the
\* paying reserve is at least the matched price of what they are given, and no
\* bidder pays more than one coin of rounding per bid.
PaymentCoversAllocation ==
  LET res == Result
  IN  \A b \in Bidders :
        LET due == res.matchedPrice * res.allocation[b]
            paid == res.reservedMatched[b] * ONE
        IN  /\ paid >= due
            /\ paid < due + ONE * Cardinality({k \in res.matchedBids :
                                                 bids[k].bidder = b})
               \/ paid = 0

\* types/utils.go:35 "SortBids sorts bid array by bid price in descending order".
BidsSortedByPrice ==
  LET order == SortBids(bids)
  IN  \A i \in 1..(Len(bids) - 1) :
        bids[order[i]].price >= bids[order[i + 1]].price
=============================================================================
