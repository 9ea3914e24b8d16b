------------------------------ MODULE Matching ------------------------------
(***************************************************************************)
(* How a closing auction is matched: the pure part of the keeper           *)
(* (x/fundraising/types/match.go, types/utils.go, types/bid.go and         *)
(* x/fundraising/keeper/match.go).                                         *)
(*                                                                         *)
(* The bids of one auction are a sequence in the order of their ids (the   *)
(* order of the store's keys): bid k is bids[k].  A bid is a record        *)
(*   [bidder, type, price, denom, amount, isMatched].                      *)
(* The allowed bidders of the auction are a function maxBid from bidders   *)
(* to their MaxBidAmount, with 0 for a bidder who is not on the list       *)
(* (AllowedBidder.Validate demands a positive amount of those who are).    *)
(* The maps of the code (AllocationMap, RefundMap, ...) are total          *)
(* functions on the same bidders; a missing entry is 0.                    *)
(***************************************************************************)
EXTENDS DecMath, Sequences, FiniteSets, Functions

\* The sum of f[1], ..., f[n], as a recursive function so that it can be
\* reasoned about.
SumTo(n, f) ==
  LET sum[k \in 0..n] == IF k = 0 THEN 0 ELSE sum[k - 1] + f[k] IN sum[n]

MinInt(a, b) == IF a < b THEN a ELSE b

(***************************************************************************)
(* Conversions between the two coins of an auction (types/bid.go): the     *)
(* module gives as little and takes as much as the price allows.           *)
(***************************************************************************)
ConvertToSellingAmount(bid, payingDenom) ==
  IF bid.denom = payingDenom
    THEN QuoTruncateInt(bid.amount, bid.price)
    ELSE bid.amount

ConvertToPayingAmount(bid, payingDenom) ==
  IF bid.denom = payingDenom
    THEN bid.amount
    ELSE MulCeilInt(bid.amount, bid.price)

\* What bidder's bids convert to, in selling coin and in paying coin.
TotalSellingAmount(bids, bidder, payingDenom) ==
  SumTo(Len(bids), [k \in 1..Len(bids) |->
    IF bids[k].bidder = bidder
      THEN ConvertToSellingAmount(bids[k], payingDenom) ELSE 0])

TotalPayingAmount(bids, bidder, payingDenom) ==
  SumTo(Len(bids), [k \in 1..Len(bids) |->
    IF bids[k].bidder = bidder
      THEN ConvertToPayingAmount(bids[k], payingDenom) ELSE 0])

-----------------------------------------------------------------------------
(***************************************************************************)
(* Fixed price: every accepted bid was matched when it was placed.         *)
(***************************************************************************)
CalculateFixedPriceAllocation(bids, bidders, payingDenom) ==
  [b \in bidders |-> TotalSellingAmount(bids, b, payingDenom)]

-----------------------------------------------------------------------------
(***************************************************************************)
(* Batch: SortBids orders the bids, and BidsByPrice groups them by price   *)
(* and yields the distinct prices in descending order.  The comparator is  *)
(* no order: of two bids with different prices, each may come before the   *)
(* other, and the result depends on the algorithm.  For up to 12 elements  *)
(* sort.Slice (of the Go version of go.mod) first swaps elements that are  *)
(* six places apart and then sorts by insertion.  The store yields the     *)
(* bids by id, so that a book of up to six bids is sorted as is meant: by  *)
(* descending price, and by id for equal prices.  Books of more than 12    *)
(* bids are sorted by partition, which is not modelled: their order is     *)
(* some order of the bids.                                                 *)
(***************************************************************************)
Less(bids, i, j) == bids[i].price > bids[j].price \/ i < j

ShellPass(bids) ==
  [i \in 1..Len(bids) |->
     IF i + 6 <= Len(bids) /\ Less(bids, i + 6, i) THEN i + 6
     ELSE IF i > 6 /\ Less(bids, i, i - 6) THEN i - 6
     ELSE i]

\* Insertion sort: each bid is moved to the front past every bid that it comes
\* before, to come after the p-th.  before[k] is the set of these bids.
Place(before, sorted, k) ==
  CHOOSE p \in 0..Len(sorted) :
    /\ p > 0 => sorted[p] \notin before[k]
    /\ \A q \in (p + 1)..Len(sorted) : sorted[q] \in before[k]

InsertAfter(sorted, p, k) ==
  SubSeq(sorted, 1, p) \o <<k>> \o SubSeq(sorted, p + 1, Len(sorted))

InsertionSort(before, ids) ==
  LET sorted[n \in 0..Len(ids)] ==
        IF n = 0 THEN <<>>
        ELSE InsertAfter(sorted[n - 1], Place(before, sorted[n - 1], ids[n]),
                         ids[n])
  IN  sorted[Len(ids)]

\* The ids of the bids, in the order of SortBids.
SortBids(bids) ==
  IF Len(bids) <= 12
    THEN InsertionSort([i \in 1..Len(bids) |->
                          {j \in 1..Len(bids) : Less(bids, i, j)}],
                       ShellPass(bids))
    ELSE CHOOSE order \in Bijection(1..Len(bids), 1..Len(bids)) : TRUE

\* The ids of the bids, in the order in which Match visits them: by descending
\* price, and in the order of SortBids for equal prices.
BidsByPrice(bids) ==
  InsertionSort([i \in 1..Len(bids) |->
                   {j \in 1..Len(bids) : bids[i].price > bids[j].price}],
                SortBids(bids))

BidPrices(bids) == {bids[k].price : k \in 1..Len(bids)}

\* Mutant: the index is not reversed, so that the search goes down in price.
HighestPrice(prices, i) ==
  CHOOSE p \in prices : Cardinality({q \in prices : q > p}) = i

\* The i-th lowest price, counting from 0: sort.Search is called with
\* the reversed index.
LowestPrice(prices, i) ==
  CHOOSE p \in prices : Cardinality({q \in prices : q < p}) = i

(***************************************************************************)
(* Match(matchPrice, ...): visit the bids that are willing to pay at least *)
(* matchPrice, fill each one as far as its bidder's MaxBidAmount allows,   *)
(* and give up as soon as the selling amount would be exceeded.  A bidder  *)
(* can still be given maxBid - allocation: biddableAmtByBidder of the code *)
(* starts at maxBid and loses what the allocation gains.                   *)
(***************************************************************************)
NoMatch(bidders) ==
  [fits |-> TRUE, price |-> 0, amount |-> 0, matchedBids |-> {},
   allocation |-> [b \in bidders |-> 0], paying |-> [b \in bidders |-> 0]]

BidAmount(bid, matchPrice) ==
  IF bid.type = "BatchWorth"
    THEN QuoTruncateInt(bid.amount, matchPrice)
    ELSE bid.amount

\* Mutant: every bid is capped on its own.
MatchAmountPerBid(acc, bid, matchPrice, maxBid) ==
  MinInt(BidAmount(bid, matchPrice), maxBid[bid.bidder])

MatchAmount(acc, bid, matchPrice, maxBid) ==
  MinInt(BidAmount(bid, matchPrice),
         maxBid[bid.bidder] - acc.allocation[bid.bidder])

\* Mutant: the amount of this bid is not counted.
ExceededBefore(acc, matchAmt, sellingAmt) == acc.amount > sellingAmt

Exceeds(acc, matchAmt, sellingAmt) == acc.amount + matchAmt > sellingAmt

\* Mutant: the payment is rounded down.
PayingAmountTruncated(matchAmt, matchPrice) ==
  MulTruncateInt(matchAmt, matchPrice)

PayingAmount(matchAmt, matchPrice) == MulCeilInt(matchAmt, matchPrice)

MatchStep(acc, k, bidder, matchAmt, matchPrice, sellingAmt) ==
  IF ~acc.fits \/ Exceeds(acc, matchAmt, sellingAmt)
    THEN [acc EXCEPT !.fits = FALSE]
    ELSE [acc EXCEPT
            !.amount = @ + matchAmt,
            !.allocation[bidder] = @ + matchAmt,
            !.paying[bidder] = @ + PayingAmount(matchAmt, matchPrice),
            !.matchedBids = IF matchAmt > 0 THEN @ \cup {k} ELSE @]

\* Mutant: the loop over the prices does not stop at the matching price.
OutbidNever(bid, matchPrice) == FALSE

\* The loop over the prices stops before this bid.
Outbid(bid, matchPrice) == bid.price < matchPrice

\* order is the result of BidsByPrice.
Match(matchPrice, bids, order, sellingAmt, maxBid) ==
  LET acc[n \in 0..Len(bids)] ==
        IF n = 0
          THEN [NoMatch(DOMAIN maxBid) EXCEPT !.price = matchPrice]
          ELSE IF Outbid(bids[order[n]], matchPrice)
                 THEN acc[n - 1]
                 ELSE MatchStep(acc[n - 1], order[n], bids[order[n]].bidder,
                                MatchAmount(acc[n - 1], bids[order[n]],
                                            matchPrice, maxBid),
                                matchPrice, sellingAmt)
  IN  acc[Len(bids)]

Matched(res) == res.fits /\ res.matchedBids # {}

\* sort.Search(n, ok): the bisection itself, which finds the least true index
\* when ok is monotone.  Every iteration of its loop makes the range i..j smaller,
\* so that it ends within n of them.
Halve(range, ok) ==
  LET h == (range.i + range.j) \div 2
  IN  IF range.i >= range.j THEN range
      ELSE IF ok[h] THEN [range EXCEPT !.j = h]
      ELSE [range EXCEPT !.i = h + 1]

Search(n, ok) ==
  LET range[k \in 0..n] ==
        IF k = 0 THEN [i |-> 0, j |-> n] ELSE Halve(range[k - 1], ok)
  IN  range[n].i

\* The result the closure stored last, of the results for the n prices: the one at
\* the index the search returns, or none when it runs past the last index.
LastMatched(n, res, bidders) ==
  LET found == Search(n, [i \in 0..(n - 1) |-> Matched(res[i])])
  IN  IF found < n THEN res[found] ELSE NoMatch(bidders)

\* prices are the distinct prices of the bids.
FindMatch(bids, prices, order, sellingAmt, maxBid) ==
  LastMatched(Cardinality(prices),
              [i \in 0..(Cardinality(prices) - 1) |->
                 Match(LowestPrice(prices, i), bids, order, sellingAmt, maxBid)],
              DOMAIN maxBid)

\* What the keeper keeps of a match: the bids it marks, and the maps.
MatchingInfo(res, bids, payingDenom, bidders) ==
  LET matchedBids == {k \in 1..Len(bids) : k \in res.matchedBids}
  IN  [matchedLen    |-> Cardinality(matchedBids),
       matchedPrice  |-> res.price,
       matchedBids   |-> matchedBids,
       allocation    |-> res.allocation,
       reservedMatched |-> res.paying,
       refund |-> [b \in bidders |->
                     TotalPayingAmount(bids, b, payingDenom) - res.paying[b]]]

CalculateBatchAllocation(bids, payingDenom, sellingAmt, maxBid) ==
  MatchingInfo(FindMatch(bids, BidPrices(bids), BidsByPrice(bids), sellingAmt,
                         maxBid),
               bids, payingDenom, DOMAIN maxBid)
=============================================================================
