---------------------------- MODULE ReserveProofs ----------------------------
(***************************************************************************)
(* The reserve accounts cover what an auction owes, and a fixed price      *)
(* auction is never oversold, for every value of the constants.            *)
(***************************************************************************)
EXTENDS FundraisingProofs

-----------------------------------------------------------------------------
(***************************************************************************)
(* What the steps do to the records of one auction, and that they leave    *)
(* the records of all others alone.                                        *)
(***************************************************************************)

\* The records and the reserves of auction j are what they were.
Same(j) ==
  /\ j \in Ids => auctions'[j] = auctions[j]
  /\ bids'[j] = bids[j]
  /\ vestingQueues'[j] = vestingQueues[j]
  /\ sellingReserve'[j] = sellingReserve[j]
  /\ payingReserve'[j] = payingReserve[j]
  /\ vestingReserve'[j] = vestingReserve[j]

\* At most the records and the reserves of auction id change.
ChangesOnly(id) ==
  /\ Ids' = Ids
  /\ \A j \in AuctionIds \ {id} : Same(j)

\* Nothing of any auction changes, and no coin is moved.
Quiet ==
  UNCHANGED <<auctions, bids, matchedBidsLen, vestingQueues, reserves, accounts>>

\* The steps of the keeper that change the records or the reserves of auctions.
LEMMA StepCases ==
  ASSUME [Next]_vars
  PROVE  \/ Quiet
         \/ \E m \in CreateMsgs :
              CreateFixedPriceAuction(m) \/ CreateBatchAuction(m)
         \/ \E id \in Ids, u \in Users : CancelAuction(id, u)
         \/ \E id \in Ids, bid \in BidMsg :
              \/ PlaceFixedPriceBid(id, bid)
              \/ PlaceBatchWorthBid(id, bid)
              \/ PlaceBatchManyBid(id, bid)
         \/ \E id \in Ids : \E k \in 1..Len(bids[id]), u \in Users,
               price \in Prices, denom \in Denoms, amount \in Amounts :
              ModifyBid(id, k, u, price, denom, amount)
         \/ \E id \in Ids, u \in Users, amount \in Transfers :
              TransferToReserve(id, u, amount)
         \/ \E id \in Ids :
              \/ ExecuteStandByStatus(id)
              \/ CloseFixedPriceAuction(id)
              \/ CloseBatchAuction(id)
              \/ ExtendRound(id)
              \/ ExecuteVestingStatus(id)
<1>1. ASSUME UNCHANGED vars PROVE Quiet BY <1>1 DEF vars, store, Quiet
<1>2. ASSUME NEW id, NEW list, AddAllowedBidders(id, list) PROVE Quiet
  BY <1>2 DEF AddAllowedBidders, Quiet
<1>3. ASSUME NEW id, NEW u, NEW max, UpdateAllowedBidder(id, u, max) PROVE Quiet
  BY <1>3 DEF UpdateAllowedBidder, Quiet
<1>4. ASSUME NEW period, ParamChange(period) PROVE Quiet
  BY <1>4 DEF ParamChange, Quiet, store
<1>5. ASSUME NEW id, NothingDue(id) PROVE Quiet
  BY <1>5 DEF NothingDue, Quiet, store
<1>6. ASSUME NewBlock PROVE Quiet
  BY <1>6 DEF NewBlock, BeginBlock, Quiet, store
<1>7. CASE Deliver BY <1>2, <1>3, <1>4, <1>7, Zenon DEF Deliver
<1>8. CASE BeginBlocker BY <1>5, <1>8, Zenon DEF BeginBlocker
<1> QED BY <1>1, <1>6, <1>7, <1>8 DEF Next

\* The id that a new auction is given was not in use.
LEMMA NextIdIsNew ==
  ASSUME TypeOK, Len(auctions) < MaxAuctions
  PROVE  NextAuctionId \in AuctionIds /\ NextAuctionId \notin Ids
<1>1. Len(auctions) \in Nat BY LenProperties DEF TypeOK
<1> QED BY <1>1, FundraisingAssumption DEF NextAuctionId, AuctionIds, Ids

\* CreateFixedPriceAuction and CreateBatchAuction add one auction.
LEMMA CreateEffect ==
  ASSUME TypeOK, NEW m \in CreateMsgs, CreateAuction(m)
  PROVE  LET id == NextAuctionId
         IN  /\ id \in AuctionIds /\ id \notin Ids
             /\ Ids' = Ids \cup {id}
             /\ auctions'[id] = NewAuction(m)
             /\ bids'[id] = bids[id]
             /\ vestingQueues'[id] = vestingQueues[id]
             /\ sellingReserve'[id] = sellingReserve[id] + m.sellingAmt
             /\ payingReserve'[id] = payingReserve[id]
             /\ vestingReserve'[id] = vestingReserve[id]
             /\ \A j \in AuctionIds \ {id} : Same(j)
<1> DEFINE id == NextAuctionId
           a == NewAuction(m)
<1>1. id \in AuctionIds /\ id \notin Ids BY NextIdIsNew DEF CreateAuction
<1>2. auctions \in Seq(Auction) /\ Len(auctions) \in Nat
  BY LenProperties DEF TypeOK
<1>3. /\ auctions' = Append(auctions, a)
      /\ sellingReserve' = [sellingReserve EXCEPT ![id] =
                              sellingReserve[id] + m.sellingAmt]
      /\ UNCHANGED <<bids, vestingQueues, payingReserve, vestingReserve>>
  BY DEF CreateAuction
<1>4. /\ Len(auctions') = Len(auctions) + 1
      /\ auctions'[id] = a
      /\ \A j \in Ids : auctions'[j] = auctions[j]
  <2>1. id = Len(auctions) + 1 BY DEF NextAuctionId
  <2> HIDE DEF a, id
  <2> QED BY <1>2, <1>3, <2>1, AppendProperties DEF Ids
<1>5. Ids' = Ids \cup {id}
  <2>1. id = Len(auctions) + 1 BY DEF NextAuctionId
  <2> HIDE DEF id
  <2> QED BY <1>2, <1>4, <2>1 DEF Ids
<1>6. sellingReserve'[id] = sellingReserve[id] + m.sellingAmt
  <2> HIDE DEF id
  <2> QED BY <1>1, <1>3 DEF TypeOK
<1>7. \A j \in AuctionIds \ {id} : Same(j)
  <2> HIDE DEF a, id
  <2> QED BY <1>1, <1>3, <1>4 DEF TypeOK, Same
<1> QED BY <1>1, <1>3, <1>4, <1>5, <1>6, <1>7

\* A step that replaces the record of auction id changes no other record.
LEMMA RecordEffect ==
  ASSUME TypeOK, NEW id \in Ids, NEW a, auctions' = [auctions EXCEPT ![id] = a]
  PROVE  /\ Ids' = Ids
         /\ auctions'[id] = a
         /\ \A j \in Ids \ {id} : auctions'[j] = auctions[j]
<1>1. auctions \in Seq(Auction) /\ DOMAIN auctions = 1..Len(auctions)
      /\ Len(auctions) \in Nat
  BY LenProperties DEF TypeOK
<1>2. Len(auctions') = Len(auctions)
  BY <1>1
<1> QED BY <1>1, <1>2 DEF Ids

\* CancelAuction empties the selling reserve.
LEMMA CancelEffect ==
  ASSUME TypeOK, NEW id \in Ids, NEW u \in Users, CancelAuction(id, u)
  PROVE  /\ ChangesOnly(id)
         /\ Status(id) = "StandBy"
         /\ auctions'[id] =
              [auctions[id] EXCEPT !.status = "Cancelled", !.remaining = 0]
         /\ bids'[id] = bids[id]
         /\ vestingQueues'[id] = vestingQueues[id]
         /\ sellingReserve'[id] = 0
         /\ payingReserve'[id] = payingReserve[id]
         /\ vestingReserve'[id] = vestingReserve[id]
<1> DEFINE a == [auctions[id] EXCEPT !.status = "Cancelled", !.remaining = 0]
<1>1. id \in AuctionIds BY AuctionFacts
<1>2. /\ auctions' = [auctions EXCEPT ![id] = a]
      /\ sellingReserve' = [sellingReserve EXCEPT ![id] = 0]
      /\ UNCHANGED <<bids, vestingQueues, payingReserve, vestingReserve>>
      /\ Status(id) = "StandBy"
  BY DEF CancelAuction, Cancellable
<1> HIDE DEF a
<1>3. /\ Ids' = Ids
      /\ auctions'[id] = a
      /\ \A j \in Ids \ {id} : auctions'[j] = auctions[j]
  BY <1>2, RecordEffect
<1>4. ChangesOnly(id) BY <1>1, <1>2, <1>3 DEF ChangesOnly, Same, TypeOK
<1>5. sellingReserve'[id] = 0 BY <1>1, <1>2 DEF TypeOK
<1> QED BY <1>2, <1>3, <1>4, <1>5 DEF a

\* PlaceBid reserves paying coin and appends the bid; only a fixed price auction
\* records what is left.
LEMMA PlaceEffect ==
  ASSUME TypeOK, NEW id \in Ids, NEW bid \in BidMsg,
         \/ PlaceFixedPriceBid(id, bid)
         \/ PlaceBatchWorthBid(id, bid)
         \/ PlaceBatchManyBid(id, bid)
  PROVE  /\ ChangesOnly(id)
         /\ Status(id) = "Started"
         /\ bid \in Bid /\ bid.price > 0
         /\ vestingQueues'[id] = vestingQueues[id]
         /\ sellingReserve'[id] = sellingReserve[id]
         /\ vestingReserve'[id] = vestingReserve[id]
         /\ \/ /\ Msg(id).type = "FixedPrice" /\ bid.type = "FixedPrice"
               /\ bid.price = Msg(id).startPrice
               /\ bids'[id] = Append(bids[id], [bid EXCEPT !.isMatched = TRUE])
               /\ payingReserve'[id] = payingReserve[id] +
                    ConvertToPayingAmount(bid, Msg(id).payingDenom)
               /\ ConvertToSellingAmount(bid, Msg(id).payingDenom)
                    <= auctions[id].remaining
               /\ auctions'[id] = [auctions[id] EXCEPT !.remaining =
                    @ - ConvertToSellingAmount(bid, Msg(id).payingDenom)]
            \/ /\ Msg(id).type = "Batch" /\ bid.type = "BatchWorth"
               /\ bid.denom = Msg(id).payingDenom
               /\ bids'[id] = Append(bids[id], bid)
               /\ payingReserve'[id] = payingReserve[id] + bid.amount
               /\ auctions'[id] = auctions[id]
            \/ /\ Msg(id).type = "Batch" /\ bid.type = "BatchMany"
               /\ bid.denom = Msg(id).sellingDenom
               /\ bids'[id] = Append(bids[id], bid)
               /\ payingReserve'[id] = payingReserve[id] +
                    ConvertToPayingAmount(bid, Msg(id).payingDenom)
               /\ auctions'[id] = auctions[id]
<1> DEFINE sold == ConvertToSellingAmount(bid, Msg(id).payingDenom)
           cost == ConvertToPayingAmount(bid, Msg(id).payingDenom)
           a == [auctions[id] EXCEPT !.remaining = auctions[id].remaining - sold]
           b == [bid EXCEPT !.isMatched = TRUE]
<1>1. id \in AuctionIds BY AuctionFacts
<1>2. /\ bid \in Bid /\ bid.price > 0 /\ Status(id) = "Started"
      /\ UNCHANGED <<vestingQueues, sellingReserve, vestingReserve>>
  BY BidMsgType DEF PlaceFixedPriceBid, PlaceBatchWorthBid, PlaceBatchManyBid,
                    MayPlaceBid
<1>3. ASSUME NEW x, NEW amt, ReserveAndStore(id, x, amt)
      PROVE  /\ bids'[id] = Append(bids[id], x)
             /\ payingReserve'[id] = payingReserve[id] + amt
             /\ \A j \in AuctionIds \ {id} :
                  bids'[j] = bids[j] /\ payingReserve'[j] = payingReserve[j]
  <2>1. /\ bids' = [bids EXCEPT ![id] = Append(bids[id], x)]
        /\ payingReserve' = [payingReserve EXCEPT ![id] = payingReserve[id] + amt]
    BY <1>3 DEF ReserveAndStore
  <2> QED BY <1>1, <2>1 DEF TypeOK
<1>4. CASE PlaceFixedPriceBid(id, bid)
  <2>1. /\ ReserveAndStore(id, b, cost)
        /\ auctions' = [auctions EXCEPT ![id] = a]
        /\ bid.type = "FixedPrice" /\ Msg(id).type = "FixedPrice"
        /\ bid.price = Msg(id).startPrice
        /\ sold <= auctions[id].remaining
    BY <1>4 DEF PlaceFixedPriceBid, ValidateFixedPriceBid, RemainingAfter
  <2> HIDE DEF a, b, cost
  <2>2. /\ Ids' = Ids
        /\ auctions'[id] = a
        /\ \A j \in Ids \ {id} : auctions'[j] = auctions[j]
    BY <2>1, RecordEffect
  <2>3. /\ bids'[id] = Append(bids[id], b)
        /\ payingReserve'[id] = payingReserve[id] + cost
        /\ \A j \in AuctionIds \ {id} :
             bids'[j] = bids[j] /\ payingReserve'[j] = payingReserve[j]
    BY <1>3, <2>1
  <2>4. ChangesOnly(id) BY <1>2, <2>2, <2>3 DEF ChangesOnly, Same
  <2> QED BY <1>2, <2>1, <2>2, <2>3, <2>4 DEF a, b, cost
<1>5. CASE PlaceBatchWorthBid(id, bid)
  <2>1. /\ ReserveAndStore(id, bid, bid.amount)
        /\ auctions' = auctions
        /\ bid.type = "BatchWorth" /\ Msg(id).type = "Batch"
        /\ bid.denom = Msg(id).payingDenom
    BY <1>5 DEF PlaceBatchWorthBid, ValidateBatchBid
  <2>2. Ids' = Ids BY <2>1 DEF Ids
  <2>3. /\ bids'[id] = Append(bids[id], bid)
        /\ payingReserve'[id] = payingReserve[id] + bid.amount
        /\ \A j \in AuctionIds \ {id} :
             bids'[j] = bids[j] /\ payingReserve'[j] = payingReserve[j]
    BY <1>3, <2>1
  <2>4. ChangesOnly(id) BY <1>2, <2>1, <2>2, <2>3 DEF ChangesOnly, Same
  <2> QED BY <1>2, <2>1, <2>3, <2>4
<1>6. CASE PlaceBatchManyBid(id, bid)
  <2>1. /\ ReserveAndStore(id, bid, cost)
        /\ auctions' = auctions
        /\ bid.type = "BatchMany" /\ Msg(id).type = "Batch"
        /\ bid.denom = Msg(id).sellingDenom
    BY <1>6 DEF PlaceBatchManyBid, ValidateBatchBid
  <2> HIDE DEF cost
  <2>2. Ids' = Ids BY <2>1 DEF Ids
  <2>3. /\ bids'[id] = Append(bids[id], bid)
        /\ payingReserve'[id] = payingReserve[id] + cost
        /\ \A j \in AuctionIds \ {id} :
             bids'[j] = bids[j] /\ payingReserve'[j] = payingReserve[j]
    BY <1>3, <2>1
  <2>4. ChangesOnly(id) BY <1>2, <2>1, <2>2, <2>3 DEF ChangesOnly, Same
  <2> QED BY <1>2, <2>1, <2>3, <2>4 DEF cost
<1> QED BY <1>4, <1>5, <1>6

\* A modified bid, and the book with it.
Modified(bid, price, amount) == [bid EXCEPT !.price = price, !.amount = amount]

WithBid(book, k, bid) == [book EXCEPT ![k] = bid]

\* ModifyBid reserves what a bid with a higher price or amount costs more.
LEMMA ModifyEffect ==
  ASSUME TypeOK, NEW id \in Ids, NEW k \in 1..Len(bids[id]), NEW u \in Users,
         NEW price \in Prices, NEW denom \in Denoms, NEW amount \in Amounts,
         ModifyBid(id, k, u, price, denom, amount)
  PROVE  /\ ChangesOnly(id)
         /\ Status(id) = "Started" /\ Msg(id).type = "Batch"
         /\ price \in Nat /\ amount \in Nat /\ price > 0
         /\ price >= bids[id][k].price /\ amount >= bids[id][k].amount
         /\ price # bids[id][k].price \/ amount # bids[id][k].amount
         /\ auctions'[id] = auctions[id]
         /\ bids'[id] = WithBid(bids[id], k, Modified(bids[id][k], price, amount))
         /\ payingReserve'[id] = payingReserve[id] +
              ReserveDifference(bids[id][k], price, amount)
         /\ vestingQueues'[id] = vestingQueues[id]
         /\ sellingReserve'[id] = sellingReserve[id]
         /\ vestingReserve'[id] = vestingReserve[id]
<1> DEFINE diff == ReserveDifference(bids[id][k], price, amount)
           new == [bids[id][k] EXCEPT !.price = price, !.amount = amount]
           book == [bids[id] EXCEPT ![k] = new]
<1>1. id \in AuctionIds /\ price \in Nat /\ amount \in Nat
  BY AuctionFacts, FundraisingAssumption DEF Decimals
<1>2. /\ Status(id) = "Started" /\ Msg(id).type = "Batch" /\ price > 0
      /\ price >= bids[id][k].price /\ amount >= bids[id][k].amount
      /\ price # bids[id][k].price \/ amount # bids[id][k].amount
      /\ payingReserve' = [payingReserve EXCEPT ![id] = payingReserve[id] + diff]
      /\ bids' = [bids EXCEPT ![id] = book]
      /\ UNCHANGED <<auctions, vestingQueues, sellingReserve, vestingReserve>>
  BY DEF ModifyBid, NotLowered
<1> HIDE DEF diff, book
<1>3. Ids' = Ids BY <1>2 DEF Ids
<1>4. bids'[id] = book /\ payingReserve'[id] = payingReserve[id] + diff
  BY <1>1, <1>2 DEF TypeOK
<1>5. ChangesOnly(id) BY <1>1, <1>2, <1>3 DEF ChangesOnly, Same, TypeOK
<1> QED BY <1>1, <1>2, <1>4, <1>5 DEF book, new, diff, WithBid, Modified

\* A bank transfer to a reserve account changes no record.
LEMMA TransferEffect ==
  ASSUME TypeOK, NEW id \in Ids, NEW u \in Users, NEW amount \in Transfers,
         TransferToReserve(id, u, amount)
  PROVE  /\ ChangesOnly(id)
         /\ auctions'[id] = auctions[id]
         /\ bids'[id] = bids[id]
         /\ vestingQueues'[id] = vestingQueues[id]
         /\ sellingReserve'[id] >= sellingReserve[id]
         /\ payingReserve'[id] >= payingReserve[id]
         /\ vestingReserve'[id] >= vestingReserve[id]
<1>1. id \in AuctionIds /\ amount \in Nat BY AuctionFacts, FundraisingAssumption
<1>2. /\ UNCHANGED <<auctions, bids, vestingQueues>>
      /\ \/ sellingReserve' =
              [sellingReserve EXCEPT ![id] = sellingReserve[id] + amount]
         \/ sellingReserve' = sellingReserve
      /\ \/ payingReserve' =
              [payingReserve EXCEPT ![id] = payingReserve[id] + amount]
         \/ payingReserve' = payingReserve
      /\ \/ vestingReserve' =
              [vestingReserve EXCEPT ![id] = vestingReserve[id] + amount]
         \/ vestingReserve' = vestingReserve
  BY DEF TransferToReserve, store
<1>3. Ids' = Ids BY <1>2 DEF Ids
<1>4. /\ sellingReserve'[id] >= sellingReserve[id]
      /\ \A j \in AuctionIds \ {id} : sellingReserve'[j] = sellingReserve[j]
  BY <1>1, <1>2 DEF TypeOK
<1>5. /\ payingReserve'[id] >= payingReserve[id]
      /\ \A j \in AuctionIds \ {id} : payingReserve'[j] = payingReserve[j]
  BY <1>1, <1>2 DEF TypeOK
<1>6. /\ vestingReserve'[id] >= vestingReserve[id]
      /\ \A j \in AuctionIds \ {id} : vestingReserve'[j] = vestingReserve[j]
  BY <1>1, <1>2 DEF TypeOK
<1>7. ChangesOnly(id) BY <1>2, <1>3, <1>4, <1>5, <1>6 DEF ChangesOnly, Same
<1> QED BY <1>2, <1>4, <1>5, <1>6, <1>7

\* ExecuteStandByStatus opens the auction for bids.
LEMMA StandByEffect ==
  ASSUME TypeOK, NEW id \in Ids, ExecuteStandByStatus(id)
  PROVE  /\ ChangesOnly(id)
         /\ Status(id) = "StandBy"
         /\ auctions'[id] = [auctions[id] EXCEPT !.status = "Started"]
         /\ bids'[id] = bids[id]
         /\ vestingQueues'[id] = vestingQueues[id]
         /\ UNCHANGED <<sellingReserve, payingReserve, vestingReserve>>
         /\ UNCHANGED blockTime
<1> DEFINE a == [auctions[id] EXCEPT !.status = "Started"]
<1>1. /\ auctions' = [auctions EXCEPT ![id] = a]
      /\ UNCHANGED <<bids, vestingQueues, sellingReserve, payingReserve,
                     vestingReserve, blockTime>>
      /\ Status(id) = "StandBy"
  BY DEF ExecuteStandByStatus, reserves, VisitNext
<1> HIDE DEF a
<1>2. /\ Ids' = Ids
      /\ auctions'[id] = a
      /\ \A j \in Ids \ {id} : auctions'[j] = auctions[j]
  BY <1>1, RecordEffect
<1>3. ChangesOnly(id) BY <1>1, <1>2 DEF ChangesOnly, Same
<1> QED BY <1>1, <1>2, <1>3 DEF a

\* The book with the marks that the matching sets.
MarkedBook(book, matched) ==
  [k \in 1..Len(book) |->
     [book[k] EXCEPT !.isMatched = book[k].isMatched \/ k \in matched]]

\* A settlement empties the selling and the paying reserve, and moves what was
\* raised to the vesting reserve when there are schedules.
LEMMA SettleEffect ==
  ASSUME TypeOK, NEW id \in Ids, NEW allocation, NEW refund,
         Settle(id, allocation, refund)
  PROVE  /\ Ids' = Ids
         /\ \A j \in Ids \ {id} : auctions'[j] = auctions[j]
         /\ \A j \in AuctionIds \ {id} :
              /\ vestingQueues'[j] = vestingQueues[j]
              /\ sellingReserve'[j] = sellingReserve[j]
              /\ payingReserve'[j] = payingReserve[j]
              /\ vestingReserve'[j] = vestingReserve[j]
         /\ auctions'[id] = [auctions[id] EXCEPT !.status =
              IF Msg(id).schedules # <<>> THEN "Vesting" ELSE "Finished"]
         /\ vestingQueues'[id] =
              NewVestingQueues(Msg(id).schedules, Raised(id, refund))
         /\ sellingReserve'[id] = 0
         /\ payingReserve'[id] = 0
         /\ vestingReserve'[id] = IF Msg(id).schedules # <<>>
              THEN vestingReserve[id] + Raised(id, refund)
              ELSE vestingReserve[id]
         /\ Raised(id, refund) \in Nat
         /\ Raised(id, refund) <= payingReserve[id]
<1> DEFINE raised == Raised(id, refund)
           vests == Msg(id).schedules # <<>>
           queues == NewVestingQueues(Msg(id).schedules, raised)
           a == [auctions[id] EXCEPT !.status =
                   IF vests THEN "Vesting" ELSE "Finished"]
<1>1. id \in AuctionIds BY AuctionFacts
<1>2. /\ auctions' = [auctions EXCEPT ![id] = a]
      /\ vestingQueues' = [vestingQueues EXCEPT ![id] = queues]
      /\ sellingReserve' = [sellingReserve EXCEPT ![id] = 0]
      /\ payingReserve' = [payingReserve EXCEPT ![id] = 0]
      /\ vestingReserve' = [vestingReserve EXCEPT ![id] =
           IF vests THEN vestingReserve[id] + raised ELSE vestingReserve[id]]
  BY DEF Settle
<1>3. raised \in Nat /\ raised <= payingReserve[id]
  <2>1. Total(refund) \in 0..payingReserve[id] BY DEF Settle, CanSettle
  <2>2. payingReserve[id] \in Nat BY <1>1 DEF TypeOK
  <2> QED BY <2>1, <2>2 DEF Raised
<1> HIDE DEF a, queues, raised, vests
<1>4. /\ Ids' = Ids
      /\ auctions'[id] = a
      /\ \A j \in Ids \ {id} : auctions'[j] = auctions[j]
  BY <1>2, RecordEffect
<1>5. /\ vestingQueues'[id] = queues
      /\ sellingReserve'[id] = 0
      /\ payingReserve'[id] = 0
      /\ vestingReserve'[id] =
           IF vests THEN vestingReserve[id] + raised ELSE vestingReserve[id]
      /\ \A j \in AuctionIds \ {id} :
              /\ vestingQueues'[j] = vestingQueues[j]
              /\ sellingReserve'[j] = sellingReserve[j]
              /\ payingReserve'[j] = payingReserve[j]
              /\ vestingReserve'[j] = vestingReserve[j]
  BY <1>1, <1>2 DEF TypeOK
<1> QED BY <1>3, <1>4, <1>5 DEF a, queues, raised, vests

\* The matching marks bids of this auction only.
LEMMA RecordMatchEffect ==
  ASSUME TypeOK, NEW id \in Ids, NEW mInfo, RecordMatch(id, mInfo)
  PROVE  /\ bids'[id] = MarkedBook(bids[id], mInfo.matchedBids)
         /\ \A j \in AuctionIds \ {id} : bids'[j] = bids[j]
<1>1. id \in AuctionIds BY AuctionFacts
<1>2. bids' = [bids EXCEPT ![id] = MarkedBook(bids[id], mInfo.matchedBids)]
  BY DEF RecordMatch, MarkedBook
<1> QED BY <1>1, <1>2 DEF TypeOK

\* A closed auction is settled, and its book is what it was but for the marks.
LEMMA CloseEffect ==
  ASSUME TypeOK, NEW id \in Ids,
         CloseFixedPriceAuction(id) \/ CloseBatchAuction(id)
  PROVE  \E refund, matched :
           /\ ChangesOnly(id)
           /\ Status(id) = "Started"
           /\ EndTime(id) <= blockTime
           /\ UNCHANGED blockTime
           /\ auctions'[id] = [auctions[id] EXCEPT !.status =
                IF Msg(id).schedules # <<>> THEN "Vesting" ELSE "Finished"]
           /\ bids'[id] \in {bids[id], MarkedBook(bids[id], matched)}
           /\ vestingQueues'[id] =
                NewVestingQueues(Msg(id).schedules, Raised(id, refund))
           /\ sellingReserve'[id] = 0
           /\ payingReserve'[id] = 0
           /\ vestingReserve'[id] = IF Msg(id).schedules # <<>>
                THEN vestingReserve[id] + Raised(id, refund)
                ELSE vestingReserve[id]
           /\ Raised(id, refund) \in Nat
           /\ Raised(id, refund) <= payingReserve[id]
           /\ \A i \in 1..Len(Msg(id).schedules) :
                NewVestingQueues(Msg(id).schedules, Raised(id, refund))[i].amount
                  \in Nat
<1>1. PICK allocation, refund, matched :
        /\ Settle(id, allocation, refund)
        /\ bids'[id] \in {bids[id], MarkedBook(bids[id], matched)}
        /\ \A j \in AuctionIds \ {id} : bids'[j] = bids[j]
        /\ Status(id) = "Started"
        /\ EndTime(id) <= blockTime
        /\ UNCHANGED blockTime
  <2>1. CASE CloseFixedPriceAuction(id)
    <3>1. /\ Settle(id, FixedPriceAllocation(id), NoRefund)
          /\ bids' = bids
          /\ Status(id) = "Started"
          /\ EndTime(id) <= blockTime
          /\ UNCHANGED blockTime
      BY <2>1 DEF CloseFixedPriceAuction, ShouldAuctionClosed, VisitNext
    <3> QED BY <3>1
  <2>2. CASE CloseBatchAuction(id)
    <3>1. /\ Settle(id, BatchAllocation(id).allocation, BatchAllocation(id).refund)
          /\ RecordMatch(id, BatchAllocation(id))
          /\ Status(id) = "Started"
          /\ EndTime(id) <= blockTime
          /\ UNCHANGED blockTime
      BY <2>2 DEF CloseBatchAuction, ClosingBatch, ShouldAuctionClosed, VisitNext
    <3>2. /\ bids'[id] = MarkedBook(bids[id], BatchAllocation(id).matchedBids)
          /\ \A j \in AuctionIds \ {id} : bids'[j] = bids[j]
      BY <3>1, RecordMatchEffect
    <3> QED BY <3>1, <3>2
  <2> QED BY <2>1, <2>2
<1>2. /\ Ids' = Ids
      /\ \A j \in Ids \ {id} : auctions'[j] = auctions[j]
      /\ \A j \in AuctionIds \ {id} :
           /\ vestingQueues'[j] = vestingQueues[j]
           /\ sellingReserve'[j] = sellingReserve[j]
           /\ payingReserve'[j] = payingReserve[j]
           /\ vestingReserve'[j] = vestingReserve[j]
      /\ auctions'[id] = [auctions[id] EXCEPT !.status =
           IF Msg(id).schedules # <<>> THEN "Vesting" ELSE "Finished"]
      /\ vestingQueues'[id] =
           NewVestingQueues(Msg(id).schedules, Raised(id, refund))
      /\ sellingReserve'[id] = 0
      /\ payingReserve'[id] = 0
      /\ vestingReserve'[id] = IF Msg(id).schedules # <<>>
           THEN vestingReserve[id] + Raised(id, refund)
           ELSE vestingReserve[id]
      /\ Raised(id, refund) \in Nat
      /\ Raised(id, refund) <= payingReserve[id]
  BY <1>1, SettleEffect
<1>3. \A i \in 1..Len(Msg(id).schedules) :
        NewVestingQueues(Msg(id).schedules, Raised(id, refund))[i].amount \in Nat
  BY <1>1 DEF Settle, CanSettle
<1>4. ChangesOnly(id) BY <1>1, <1>2 DEF ChangesOnly, Same
<1> QED BY <1>1, <1>2, <1>3, <1>4

\* Another round: the bids are marked and the end time is later.
LEMMA ExtendEffect ==
  ASSUME TypeOK, NEW id \in Ids, ExtendRound(id)
  PROVE  /\ ChangesOnly(id)
         /\ Status(id) = "Started" /\ Msg(id).type = "Batch"
         /\ auctions'[id] = [auctions[id] EXCEPT !.endTimes =
              Append(@, EndTime(id) + extendedPeriod)]
         /\ bids'[id] = MarkedBook(bids[id], BatchAllocation(id).matchedBids)
         /\ vestingQueues'[id] = vestingQueues[id]
         /\ UNCHANGED <<sellingReserve, payingReserve, vestingReserve>>
         /\ UNCHANGED blockTime
<1> DEFINE a == [auctions[id] EXCEPT !.endTimes =
                   Append(auctions[id].endTimes, EndTime(id) + extendedPeriod)]
<1>1. /\ auctions' = [auctions EXCEPT ![id] = a]
      /\ RecordMatch(id, BatchAllocation(id))
      /\ UNCHANGED <<vestingQueues, sellingReserve, payingReserve,
                     vestingReserve, blockTime>>
      /\ Status(id) = "Started" /\ Msg(id).type = "Batch"
  BY DEF ExtendRound, ClosingBatch, reserves, VisitNext
<1> HIDE DEF a
<1>2. /\ Ids' = Ids
      /\ auctions'[id] = a
      /\ \A j \in Ids \ {id} : auctions'[j] = auctions[j]
  BY <1>1, RecordEffect
<1>3. /\ bids'[id] = MarkedBook(bids[id], BatchAllocation(id).matchedBids)
      /\ \A j \in AuctionIds \ {id} : bids'[j] = bids[j]
  BY <1>1, RecordMatchEffect
<1>4. ChangesOnly(id) BY <1>1, <1>2, <1>3 DEF ChangesOnly, Same
<1> QED BY <1>1, <1>2, <1>3, <1>4 DEF a

\* The queues after a release.
ReleasedQueues(queues, t) ==
  [i \in 1..Len(queues) |->
     [queues[i] EXCEPT !.released =
        queues[i].released \/ (queues[i].releaseTime <= t /\ ~queues[i].released)]]

\* ReleaseVestingPayingCoin pays the queues that are due.
LEMMA ReleaseEffect ==
  ASSUME TypeOK, NEW id \in Ids, ExecuteVestingStatus(id)
  PROVE  /\ ChangesOnly(id)
         /\ Status(id) = "Vesting"
         /\ auctions'[id] = [auctions[id] EXCEPT !.status =
              IF ShouldRelease(vestingQueues[id][Len(vestingQueues[id])])
                THEN "Finished" ELSE @]
         /\ bids'[id] = bids[id]
         /\ vestingQueues'[id] = ReleasedQueues(vestingQueues[id], blockTime)
         /\ UNCHANGED <<sellingReserve, payingReserve, blockTime>>
         /\ ReleasedAmount(id) \in 0..vestingReserve[id]
         /\ vestingReserve'[id] = vestingReserve[id] - ReleasedAmount(id)
         /\ \E i \in 1..Len(vestingQueues[id]) :
              ShouldRelease(vestingQueues[id][i])
<1> DEFINE due == ReleasedAmount(id)
           last == ShouldRelease(vestingQueues[id][Len(vestingQueues[id])])
           a == [auctions[id] EXCEPT !.status =
                   IF last THEN "Finished" ELSE auctions[id].status]
           queues == ReleasedQueues(vestingQueues[id], blockTime)
<1>1. id \in AuctionIds BY AuctionFacts
<1>2. /\ auctions' = [auctions EXCEPT ![id] = a]
      /\ vestingReserve' = [vestingReserve EXCEPT ![id] = vestingReserve[id] - due]
      /\ vestingQueues' = [vestingQueues EXCEPT ![id] = queues]
      /\ UNCHANGED <<bids, sellingReserve, payingReserve, blockTime>>
      /\ Status(id) = "Vesting"
      /\ due \in 0..vestingReserve[id]
      /\ \E i \in 1..Len(vestingQueues[id]) : ShouldRelease(vestingQueues[id][i])
  BY DEF ExecuteVestingStatus, CanRelease, ReleasedQueues, ShouldRelease, VisitNext
<1> HIDE DEF a, queues, due, last
<1>3. /\ Ids' = Ids
      /\ auctions'[id] = a
      /\ \A j \in Ids \ {id} : auctions'[j] = auctions[j]
  BY <1>2, RecordEffect
<1>4. /\ vestingReserve'[id] = vestingReserve[id] - due
      /\ vestingQueues'[id] = queues
      /\ \A j \in AuctionIds \ {id} :
           /\ vestingReserve'[j] = vestingReserve[j]
           /\ vestingQueues'[j] = vestingQueues[j]
  BY <1>1, <1>2 DEF TypeOK
<1>5. ChangesOnly(id) BY <1>2, <1>3, <1>4 DEF ChangesOnly, Same
<1> QED BY <1>2, <1>3, <1>4, <1>5 DEF a, queues, due, last

-----------------------------------------------------------------------------
(***************************************************************************)
(* What the bids of a book add up to, in selling and in paying coin.       *)
(***************************************************************************)
SoldCoin(book, denom) ==
  SumTo(Len(book), [k \in 1..Len(book) |-> ConvertToSellingAmount(book[k], denom)])

BidCoin(book, denom) ==
  SumTo(Len(book), [k \in 1..Len(book) |-> ConvertToPayingAmount(book[k], denom)])

\* A book of bids with positive prices, so that every conversion is defined.
Book == {book \in Seq(Bid) : \A k \in 1..Len(book) : book[k].price > 0}

\* The conversions of the bids of a book are natural numbers.
LEMMA BookTypes ==
  ASSUME NEW book \in Book, NEW denom
  PROVE  /\ Len(book) \in Nat
         /\ DOMAIN book = 1..Len(book)
         /\ \A k \in 1..Len(book) :
              /\ book[k] \in Bid
              /\ ConvertToSellingAmount(book[k], denom) \in Nat
              /\ ConvertToPayingAmount(book[k], denom) \in Nat
<1>1. book \in Seq(Bid) BY DEF Book
<1>2. Len(book) \in Nat /\ DOMAIN book = 1..Len(book) BY <1>1, LenProperties
<1>3. \A k \in 1..Len(book) : book[k] \in Bid /\ book[k].price > 0
  BY <1>1, ElementOfSeq DEF Book
<1> QED BY <1>2, <1>3, ConvertTypes

\* ... and so are their sums.
LEMMA BookSums ==
  ASSUME NEW book \in Book, NEW denom
  PROVE  SoldCoin(book, denom) \in Nat /\ BidCoin(book, denom) \in Nat
<1> DEFINE f == [k \in 1..Len(book) |-> ConvertToSellingAmount(book[k], denom)]
           g == [k \in 1..Len(book) |-> ConvertToPayingAmount(book[k], denom)]
<1>1. /\ Len(book) \in Nat
      /\ \A k \in 1..Len(book) : f[k] \in Nat /\ g[k] \in Nat
  BY BookTypes
<1> HIDE DEF f, g
<1>2. SumTo(Len(book), f) \in Nat /\ SumTo(Len(book), g) \in Nat
  BY <1>1, SumNat
<1> QED BY <1>2 DEF SoldCoin, BidCoin, f, g

\* An empty book adds up to nothing.
LEMMA EmptyBook ==
  ASSUME NEW denom
  PROVE  <<>> \in Book /\ SoldCoin(<<>>, denom) = 0 /\ BidCoin(<<>>, denom) = 0
<1>1. <<>> \in Seq(Bid) /\ Len(<<>>) = 0 OBVIOUS
<1>2. <<>> \in Book BY <1>1 DEF Book
<1> DEFINE f == [k \in 1..Len(<<>>) |-> ConvertToSellingAmount(<<>>[k], denom)]
           g == [k \in 1..Len(<<>>) |-> ConvertToPayingAmount(<<>>[k], denom)]
<1>3. SumTo(Len(<<>>), f) = 0 /\ SumTo(Len(<<>>), g) = 0
  <2> HIDE DEF f, g
  <2>1. \A h : \A k \in 1..0 : h[k] = 0 OBVIOUS
  <2> QED BY <1>1, <2>1, SumZero
<1> QED BY <1>2, <1>3 DEF SoldCoin, BidCoin

\* The sum of one term more.
LEMMA SumAppend ==
  ASSUME NEW n \in Nat, NEW f, NEW g, Summable(n, f), g[n + 1] \in Int,
         \A k \in 1..n : g[k] = f[k]
  PROVE  SumTo(n + 1, g) = SumTo(n, f) + g[n + 1]
<1>1. Summable(n + 1, g) BY DEF Summable
<1>2. n + 1 \in Nat /\ n + 1 > 0 /\ (n + 1) - 1 = n OBVIOUS
<1>3. SumTo(n + 1, g) = SumTo((n + 1) - 1, g) + g[n + 1] BY <1>1, <1>2, SumStep
<1>4. SumTo(n, f) = SumTo(n, g) BY SumSame
<1> QED BY <1>2, <1>3, <1>4

\* A new bid adds what it converts to.
LEMMA BookAppend ==
  ASSUME NEW book \in Book, NEW bid \in Bid, bid.price > 0, NEW denom
  PROVE  /\ Append(book, bid) \in Book
         /\ SoldCoin(Append(book, bid), denom) =
              SoldCoin(book, denom) + ConvertToSellingAmount(bid, denom)
         /\ BidCoin(Append(book, bid), denom) =
              BidCoin(book, denom) + ConvertToPayingAmount(bid, denom)
<1> DEFINE n == Len(book)
           new == Append(book, bid)
           f == [k \in 1..n |-> ConvertToSellingAmount(book[k], denom)]
           g == [k \in 1..n |-> ConvertToPayingAmount(book[k], denom)]
           f1 == [k \in 1..Len(new) |-> ConvertToSellingAmount(new[k], denom)]
           g1 == [k \in 1..Len(new) |-> ConvertToPayingAmount(new[k], denom)]
<1>1. book \in Seq(Bid) /\ n \in Nat BY BookTypes DEF Book
<1>2. /\ new \in Seq(Bid) /\ Len(new) = n + 1
      /\ \A k \in 1..n : new[k] = book[k]
      /\ new[n + 1] = bid
  BY <1>1, AppendProperties
<1>3. \A k \in 1..n : book[k].price > 0 BY DEF Book
<1> HIDE DEF new
<1>4. new \in Book
  <2>1. \A k \in 1..(n + 1) : new[k].price > 0
    <3> SUFFICES ASSUME NEW k \in 1..(n + 1) PROVE new[k].price > 0 OBVIOUS
    <3>1. CASE k = n + 1 BY <1>2, <3>1
    <3>2. CASE k \in 1..n BY <1>2, <1>3, <3>2
    <3> QED BY <1>1, <3>1, <3>2
  <2> QED BY <1>2, <2>1 DEF Book
<1>5. /\ \A k \in 1..n : f1[k] = f[k] /\ g1[k] = g[k]
      /\ f1[n + 1] = ConvertToSellingAmount(bid, denom)
      /\ g1[n + 1] = ConvertToPayingAmount(bid, denom)
  BY <1>1, <1>2
<1>6. Summable(n, f) /\ Summable(n, g)
  <2>1. \A k \in 1..n : f[k] \in Nat /\ g[k] \in Nat BY BookTypes
  <2> HIDE DEF f, g
  <2> QED BY <2>1 DEF Summable
<1>7. /\ ConvertToSellingAmount(bid, denom) \in Int
      /\ ConvertToPayingAmount(bid, denom) \in Int
  BY ConvertTypes
<1> HIDE DEF f, g, f1, g1, n
<1>8. /\ SumTo(n + 1, f1) = SumTo(n, f) + f1[n + 1]
      /\ SumTo(n + 1, g1) = SumTo(n, g) + g1[n + 1]
  BY <1>1, <1>5, <1>6, <1>7, SumAppend
<1>9. /\ SoldCoin(book, denom) = SumTo(n, f) /\ SoldCoin(new, denom) = SumTo(n + 1, f1)
      /\ BidCoin(book, denom) = SumTo(n, g) /\ BidCoin(new, denom) = SumTo(n + 1, g1)
  <2>1. /\ SoldCoin(book, denom) = SumTo(n, f) /\ SoldCoin(new, denom) = SumTo(Len(new), f1)
        /\ BidCoin(book, denom) = SumTo(n, g) /\ BidCoin(new, denom) = SumTo(Len(new), g1)
    BY DEF SoldCoin, BidCoin, f, g, f1, g1, n
  <2> QED BY <1>2, <2>1
<1> QED BY <1>4, <1>5, <1>8, <1>9 DEF new

\* Marks do not change what a book adds up to.
LEMMA BookMark ==
  ASSUME NEW book \in Book, NEW matched, NEW denom
  PROVE  /\ MarkedBook(book, matched) \in Book
         /\ Len(MarkedBook(book, matched)) = Len(book)
         /\ SoldCoin(MarkedBook(book, matched), denom) = SoldCoin(book, denom)
         /\ BidCoin(MarkedBook(book, matched), denom) = BidCoin(book, denom)
<1> DEFINE n == Len(book)
           new == MarkedBook(book, matched)
           f == [k \in 1..n |-> ConvertToSellingAmount(book[k], denom)]
           g == [k \in 1..n |-> ConvertToPayingAmount(book[k], denom)]
           f1 == [k \in 1..Len(new) |-> ConvertToSellingAmount(new[k], denom)]
           g1 == [k \in 1..Len(new) |-> ConvertToPayingAmount(new[k], denom)]
<1>1. /\ n \in Nat
      /\ \A k \in 1..n : book[k] \in Bid /\ book[k].price > 0
  BY BookTypes DEF Book
<1>2. \A k \in 1..n :
        new[k] = [book[k] EXCEPT !.isMatched = book[k].isMatched \/ k \in matched]
  BY DEF MarkedBook
<1>3. ASSUME NEW k \in 1..n
      PROVE  /\ new[k] \in Bid
             /\ new[k].price = book[k].price
             /\ new[k].amount = book[k].amount
             /\ new[k].denom = book[k].denom
  <2> DEFINE b == book[k]
             mark == b.isMatched \/ k \in matched
  <2>1. b \in Bid BY <1>1
  <2>2. mark \in BOOLEAN OBVIOUS
  <2>3. new[k] = [b EXCEPT !.isMatched = mark] BY <1>2
  <2> HIDE DEF b, mark, new
  <2>4. /\ new[k] \in Bid /\ new[k].price = b.price
        /\ new[k].amount = b.amount /\ new[k].denom = b.denom
    BY <2>1, <2>2, <2>3 DEF Bid
  <2> QED BY <2>4 DEF b
<1>4. new \in Seq(Bid) /\ Len(new) = n
  <2>1. new = [k \in 1..n |-> new[k]] BY DEF MarkedBook
  <2> HIDE DEF new
  <2>2. new \in [1..n -> Bid] BY <1>3, <2>1
  <2> QED BY <1>1, <2>2, FcnIsSeq
<1> HIDE DEF new
<1>5. new \in Book BY <1>1, <1>3, <1>4 DEF Book
<1>6. \A k \in 1..n : f1[k] = f[k] /\ g1[k] = g[k]
  BY <1>3, <1>4 DEF ConvertToSellingAmount, ConvertToPayingAmount
<1>7. Summable(n, f) /\ Summable(n, g) BY BookTypes DEF Summable
<1> HIDE DEF f, g, f1, g1, n
<1>8. SumTo(n, f) = SumTo(n, f1) /\ SumTo(n, g) = SumTo(n, g1)
  BY <1>1, <1>6, <1>7, SumSame
<1>9. /\ SoldCoin(book, denom) = SumTo(n, f) /\ SoldCoin(new, denom) = SumTo(n, f1)
      /\ BidCoin(book, denom) = SumTo(n, g) /\ BidCoin(new, denom) = SumTo(n, g1)
  <2>1. /\ SoldCoin(book, denom) = SumTo(n, f) /\ SoldCoin(new, denom) = SumTo(Len(new), f1)
        /\ BidCoin(book, denom) = SumTo(n, g) /\ BidCoin(new, denom) = SumTo(Len(new), g1)
    BY DEF SoldCoin, BidCoin, f, g, f1, g1, n
  <2> QED BY <1>4, <2>1
<1> QED BY <1>4, <1>5, <1>8, <1>9 DEF new, n

\* A modified bid changes the sum by the difference of what it converts to.
LEMMA BookModify ==
  ASSUME NEW book \in Book, NEW k \in 1..Len(book), NEW bid \in Bid,
         bid.price > 0, NEW denom
  PROVE  LET new == WithBid(book, k, bid)
         IN  /\ new \in Book
             /\ Len(new) = Len(book)
             /\ BidCoin(new, denom) = BidCoin(book, denom) +
                  (ConvertToPayingAmount(bid, denom) -
                     ConvertToPayingAmount(book[k], denom))
<1> DEFINE n == Len(book)
           new == WithBid(book, k, bid)
           g == [i \in 1..n |-> ConvertToPayingAmount(book[i], denom)]
           g1 == [i \in 1..Len(new) |-> ConvertToPayingAmount(new[i], denom)]
<1>1. /\ book \in Seq(Bid) /\ n \in Nat /\ DOMAIN book = 1..n
      /\ \A i \in 1..n : book[i] \in Bid /\ book[i].price > 0
  BY BookTypes DEF Book
<1>2. new \in Seq(Bid) /\ Len(new) = n BY <1>1, ExceptSeq DEF WithBid
<1>3. new[k] = bid /\ \A i \in (1..n) \ {k} : new[i] = book[i]
  BY <1>1 DEF WithBid
<1> HIDE DEF new
<1>4. new \in Book BY <1>1, <1>2, <1>3 DEF Book
<1>5. /\ Summable(n, g) /\ Summable(n, g1)
      /\ g[k] = ConvertToPayingAmount(book[k], denom)
      /\ g1[k] = ConvertToPayingAmount(bid, denom)
      /\ \A i \in (1..n) \ {k} : g1[i] = g[i]
  <2>1. \A i \in 1..n : g[i] \in Nat BY BookTypes
  <2>2. \A i \in 1..Len(new) : ConvertToPayingAmount(new[i], denom) \in Nat
    BY <1>4, BookTypes
  <2>3. \A i \in 1..n : g1[i] = ConvertToPayingAmount(new[i], denom) BY <1>2
  <2>4. \A i \in 1..n : g1[i] \in Nat BY <1>2, <2>2, <2>3
  <2>5. Summable(n, g) /\ Summable(n, g1)
    <3> HIDE DEF g, g1
    <3> QED BY <2>1, <2>4 DEF Summable
  <2>6. /\ g[k] = ConvertToPayingAmount(book[k], denom)
        /\ g1[k] = ConvertToPayingAmount(bid, denom)
    BY <1>3, <2>3
  <2>7. \A i \in (1..n) \ {k} : g1[i] = g[i]
    BY <1>3, <2>3
  <2> QED BY <2>5, <2>6, <2>7
<1> HIDE DEF g, g1, n
<1>6. SumTo(n, g1) = SumTo(n, g) + (g1[k] - g[k])
  <2>1. k \in 1..n BY DEF n
  <2> QED BY <1>1, <1>5, <2>1, SumChange
<1>7. BidCoin(book, denom) = SumTo(n, g) /\ BidCoin(new, denom) = SumTo(n, g1)
  <2>1. /\ BidCoin(book, denom) = SumTo(n, g)
        /\ BidCoin(new, denom) = SumTo(Len(new), g1)
    BY DEF BidCoin, g, g1, n
  <2> QED BY <1>2, <2>1
<1> QED BY <1>2, <1>4, <1>5, <1>6, <1>7 DEF new, n

-----------------------------------------------------------------------------
(***************************************************************************)
(* What the vesting queues of an auction add up to.                        *)
(***************************************************************************)
Unreleased(queues) ==
  SumTo(Len(queues), [i \in 1..Len(queues) |->
    IF queues[i].released THEN 0 ELSE queues[i].amount])

DueBy(queues, t) ==
  SumTo(Len(queues), [i \in 1..Len(queues) |->
    IF queues[i].releaseTime <= t /\ ~queues[i].released
      THEN queues[i].amount ELSE 0])

\* No queues hold no coin.
LEMMA NoQueues == Unreleased(<<>>) = 0
<1> DEFINE f == [i \in 1..Len(<<>>) |->
                   IF <<>>[i].released THEN 0 ELSE <<>>[i].amount]
<1>1. Len(<<>>) = 0 OBVIOUS
<1> HIDE DEF f
<1>2. \A k \in 1..0 : f[k] = 0 OBVIOUS
<1>3. SumTo(Len(<<>>), f) = 0 BY <1>1, <1>2, SumZero
<1> QED BY <1>3 DEF Unreleased, f

\* A release pays out exactly what the queues hold less afterwards.
LEMMA ReleaseSums ==
  ASSUME NEW queues \in Seq(VestingQueue), NEW t
  PROVE  LET new == ReleasedQueues(queues, t)
         IN  /\ new \in Seq(VestingQueue)
             /\ Len(new) = Len(queues)
             /\ DueBy(queues, t) \in Nat
             /\ Unreleased(new) \in Nat
             /\ Unreleased(queues) = Unreleased(new) + DueBy(queues, t)
<1> DEFINE n == Len(queues)
           new == ReleasedQueues(queues, t)
           due(i) == queues[i].releaseTime <= t /\ ~queues[i].released
           f == [i \in 1..n |-> IF queues[i].released THEN 0 ELSE queues[i].amount]
           g == [i \in 1..n |-> IF due(i) THEN queues[i].amount ELSE 0]
           h == [i \in 1..Len(new) |-> IF new[i].released THEN 0 ELSE new[i].amount]
<1>1. /\ n \in Nat /\ DOMAIN queues = 1..n
      /\ \A i \in 1..n : queues[i] \in VestingQueue
  BY LenProperties, ElementOfSeq
<1>2. ASSUME NEW i \in 1..n
      PROVE  /\ new[i] \in VestingQueue
             /\ new[i].amount = queues[i].amount
             /\ new[i].released = (queues[i].released \/ due(i))
  <2> DEFINE q == queues[i]
             r == q.released \/ due(i)
  <2>1. q \in VestingQueue BY <1>1
  <2>2. r \in BOOLEAN OBVIOUS
  <2>3. new[i] = [q EXCEPT !.released = r] BY DEF ReleasedQueues
  <2> HIDE DEF q, r, new
  <2>4. new[i] \in VestingQueue /\ new[i].amount = q.amount /\ new[i].released = r
    BY <2>1, <2>2, <2>3 DEF VestingQueue
  <2> QED BY <2>4 DEF q, r
<1>3. new \in Seq(VestingQueue) /\ Len(new) = n
  <2>1. new = [i \in 1..n |-> new[i]] BY DEF ReleasedQueues
  <2> HIDE DEF new
  <2>2. new \in [1..n -> VestingQueue] BY <1>2, <2>1
  <2> QED BY <1>1, <2>2, FcnIsSeq
<1> HIDE DEF new
<1>4. \A i \in 1..n : queues[i].amount \in Nat /\ queues[i].released \in BOOLEAN
  BY <1>1 DEF VestingQueue
<1>5. ASSUME NEW i \in 1..n
      PROVE  g[i] \in Nat /\ h[i] \in Nat /\ f[i] = h[i] + g[i]
  <2>1. h[i] = IF queues[i].released \/ due(i) THEN 0 ELSE queues[i].amount
    BY <1>2, <1>3
  <2>2. g[i] = IF due(i) THEN queues[i].amount ELSE 0 OBVIOUS
  <2>3. f[i] = IF queues[i].released THEN 0 ELSE queues[i].amount OBVIOUS
  <2>4. due(i) => ~queues[i].released OBVIOUS
  <2> HIDE DEF f, g, h, due
  <2>5. CASE queues[i].released BY <1>4, <2>1, <2>2, <2>3, <2>4, <2>5
  <2>6. CASE ~queues[i].released BY <1>4, <2>1, <2>2, <2>3, <2>4, <2>6
  <2> QED BY <2>5, <2>6
<1> HIDE DEF f, g, h, due, n
<1>6. /\ Summable(n, g) /\ SumTo(n, g) \in Nat
      /\ Summable(n, h) /\ SumTo(n, h) \in Nat
  BY <1>1, <1>5, SumNat
<1>7. SumTo(n, f) = SumTo(n, h) + SumTo(n, g)
  BY <1>1, <1>5, <1>6, SumPlus
<1>8. /\ Unreleased(queues) = SumTo(n, f)
      /\ DueBy(queues, t) = SumTo(n, g)
      /\ Unreleased(new) = SumTo(n, h)
  <2>1. /\ Unreleased(queues) = SumTo(n, f)
        /\ DueBy(queues, t) = SumTo(n, g)
        /\ Unreleased(new) = SumTo(Len(new), h)
    BY DEF Unreleased, DueBy, f, g, h, n, due
  <2> QED BY <1>3, <2>1
<1> QED BY <1>3, <1>6, <1>7, <1>8 DEF n, new

\* What the queues hold is a natural number.
LEMMA UnreleasedType ==
  ASSUME NEW queues \in Seq(VestingQueue)
  PROVE  Unreleased(queues) \in Nat
<1> DEFINE new == ReleasedQueues(queues, 0)
<1>1. /\ DueBy(queues, 0) \in Nat /\ Unreleased(new) \in Nat
      /\ Unreleased(queues) = Unreleased(new) + DueBy(queues, 0)
  BY ReleaseSums
<1> QED BY <1>1

\* The portions that ApplyVestingSchedules computes are natural numbers.
LEMMA PortionTypes ==
  ASSUME NEW schedules \in Seq(Schedule), NEW raised \in Nat
  PROVE  /\ Len(schedules) \in Nat
         /\ \A i \in 1..Len(schedules) :
              MulTruncateInt(raised, schedules[i].weight) \in Nat
<1>1. Len(schedules) \in Nat BY LenProperties
<1>2. \A i \in 1..Len(schedules) : schedules[i].weight \in Nat
  <2>1. \A i \in 1..Len(schedules) : schedules[i] \in Schedule BY ElementOfSeq
  <2> QED BY <2>1 DEF Schedule, Decimals
<1>3. \A w \in Nat : MulTruncateInt(raised, w) \in Nat
  <2> SUFFICES ASSUME NEW w \in Nat PROVE MulTruncateInt(raised, w) \in Nat
    OBVIOUS
  <2> DEFINE x == raised * w
  <2>1. x \in Nat OBVIOUS
  <2> HIDE DEF x
  <2>2. x \div ONE \in Nat BY <2>1, OneAssumption, DivIsNat
  <2> QED BY <2>2 DEF MulTruncateInt, x
<1> QED BY <1>1, <1>2, <1>3

\* ApplyVestingSchedules puts all that was raised into the queues: what
\* truncation leaves is in the last one.
LEMMA NewQueues ==
  ASSUME NEW schedules \in Seq(Schedule), NEW raised \in Nat
  PROVE  LET queues == NewVestingQueues(schedules, raised)
         IN  /\ schedules = <<>> => queues = <<>>
             /\ schedules # <<>> => Unreleased(queues) = raised
<1> DEFINE n == Len(schedules)
           queues == NewVestingQueues(schedules, raised)
           portion == [i \in 1..n |-> MulTruncateInt(raised, schedules[i].weight)]
           rest == raised - SumTo(n - 1, portion)
           f == [i \in 1..Len(queues) |->
                   IF queues[i].released THEN 0 ELSE queues[i].amount]
<1>1. n \in Nat /\ \A i \in 1..n : portion[i] \in Nat BY PortionTypes
<1>2. schedules # <<>> => n > 0 BY <1>1, EmptySeq
<1>3. CASE schedules = <<>>
  <2>1. queues = <<>> BY <1>3, EmptySeq DEF NewVestingQueues
  <2> QED BY <1>3, <2>1
<1>4. CASE n > 0
  <2>1. \A i \in 1..n : /\ queues[i].amount = IF i = n THEN rest ELSE portion[i]
                        /\ queues[i].released = FALSE
    BY DEF NewVestingQueues
  <2>2. Len(queues) = n
    <3>1. DOMAIN queues = 1..n BY DEF NewVestingQueues
    <3>2. queues \in [1..n -> {queues[i] : i \in 1..n}]
      <4>1. queues = [i \in 1..n |-> queues[i]] BY DEF NewVestingQueues
      <4> HIDE DEF queues
      <4> QED BY <4>1
    <3> HIDE DEF queues
    <3> QED BY <1>1, <3>2, FcnIsSeq
  <2> HIDE DEF queues, portion, rest
  <2>3. /\ \A i \in 1..(n - 1) : f[i] = portion[i]
        /\ f[n] = rest
    BY <1>1, <1>4, <2>1, <2>2
  <2>4. n - 1 \in Nat /\ Summable(n - 1, portion) /\ Summable(n - 1, f)
    <3> HIDE DEF f
    <3> QED BY <1>1, <1>4, <2>3 DEF Summable
  <2> HIDE DEF f
  <2>5. SumTo(n - 1, portion) \in Int BY <2>4, SumStep
  <2>6. rest \in Int /\ rest + SumTo(n - 1, portion) = raised
    BY <2>5 DEF rest
  <2>7. SumTo(n - 1, portion) = SumTo(n - 1, f) BY <2>3, <2>4, SumSame
  <2>8. Summable(n, f) BY <1>1, <1>4, <2>3, <2>4, <2>6 DEF Summable
  <2>9. SumTo(n, f) = SumTo(n - 1, f) + f[n] BY <1>1, <1>4, <2>8, SumStep
  <2>10. SumTo(n, f) = raised BY <2>3, <2>5, <2>6, <2>7, <2>9
  <2>11. Unreleased(queues) = SumTo(n, f)
    <3>1. Unreleased(queues) = SumTo(Len(queues), f) BY DEF Unreleased, f
    <3> QED BY <2>2, <3>1
  <2>12. schedules # <<>> BY <1>4, EmptySeq
  <2> QED BY <2>10, <2>11, <2>12 DEF queues
<1> QED BY <1>2, <1>3, <1>4

-----------------------------------------------------------------------------
(***************************************************************************)
(* The inductive invariant about the records of an auction.                *)
(***************************************************************************)

\* What ValidateBasic checked of the message that created an auction and later
\* steps rely on.
ValidMsg(m) ==
  /\ m.startPrice > 0
  /\ m.sellingDenom # m.payingDenom
  /\ ValidateVestingSchedules(m.schedules, m.endTime)

\* A bid that PlaceBid accepts for an auction created by m.
BidFits(m, bid) ==
  \/ /\ m.type = "FixedPrice" /\ bid.type = "FixedPrice"
     /\ bid.price = m.startPrice
  \/ /\ m.type = "Batch" /\ bid.type = "BatchWorth"
     /\ bid.denom = m.payingDenom
  \/ /\ m.type = "Batch" /\ bid.type = "BatchMany"
     /\ bid.denom = m.sellingDenom

BookFits(m, book) ==
  book \in Book /\ \A k \in 1..Len(book) : BidFits(m, book[k])

\* Bids are taken from the start on, there are queues from the settlement on,
\* and what a fixed price auction has left is what its bids have not bought.
RecordOK(a, book, queues) ==
  /\ ValidMsg(a.msg)
  /\ BookFits(a.msg, book)
  /\ a.status \in {"StandBy", "Cancelled"} => book = <<>>
  /\ a.status \in {"StandBy", "Cancelled", "Started"} => queues = <<>>
  /\ a.msg.type = "FixedPrice" /\ a.status # "Cancelled" =>
       a.remaining + SoldCoin(book, a.msg.payingDenom) = a.msg.sellingAmt

RecordsOf(id) ==
  IF id \in Ids THEN RecordOK(auctions[id], bids[id], vestingQueues[id])
  ELSE bids[id] = <<>> /\ vestingQueues[id] = <<>>

RecordsInv == \A id \in AuctionIds : RecordsOf(id)

\* The fields that an update of another field leaves alone.
LEMMA RecordFields ==
  ASSUME NEW a \in Auction, NEW s, NEW r, NEW e
  PROVE  /\ a.msg \in CreateMsg /\ a.status \in AuctionStatus
         /\ a.remaining \in Nat
         /\ LET b == [a EXCEPT !.status = s]
            IN  b.msg = a.msg /\ b.remaining = a.remaining /\ b.status = s
                /\ b.endTimes = a.endTimes
         /\ LET b == [a EXCEPT !.remaining = r]
            IN  b.msg = a.msg /\ b.status = a.status /\ b.remaining = r
                /\ b.endTimes = a.endTimes
         /\ LET b == [a EXCEPT !.status = s, !.remaining = r]
            IN  b.msg = a.msg /\ b.status = s /\ b.remaining = r
                /\ b.endTimes = a.endTimes
         /\ LET b == [a EXCEPT !.endTimes = e]
            IN  b.msg = a.msg /\ b.status = a.status
                /\ b.remaining = a.remaining /\ b.endTimes = e
BY DEF Auction

\* A message that passes ValidateBasic is one that later steps can rely on.
LEMMA CreatedMsg ==
  ASSUME NEW m \in CreateMsgs, CreateAuction(m)
  PROVE  m \in CreateMsg /\ ValidMsg(m)
BY FundraisingAssumption DEF CreateAuction, ValidateBasicCreate, ValidMsg

\* The records of the auctions that a step does not touch stay sound.
LEMMA OthersKeepRecords ==
  ASSUME RecordsInv, NEW id, ChangesOnly(id), NEW j \in AuctionIds, j # id
  PROVE  RecordsOf(j)'
<1>1. Same(j) /\ Ids' = Ids /\ RecordsOf(j) BY DEF ChangesOnly, RecordsInv
<1> QED BY <1>1 DEF Same, RecordsOf

\* It is enough to look at the auction that a step changes.
LEMMA OneRecord ==
  ASSUME RecordsInv, NEW id \in Ids, ChangesOnly(id),
         RecordOK(auctions'[id], bids'[id], vestingQueues'[id])
  PROVE  RecordsInv'
<1>1. AuctionIds' = AuctionIds BY DEF AuctionIds
<1>2. id \in Ids' BY DEF ChangesOnly
<1>3. RecordsOf(id)' BY <1>2 DEF RecordsOf
<1> QED BY <1>1, <1>3, OthersKeepRecords DEF RecordsInv

\* The matching changes the marks of the bids only.
LEMMA MarkedBookFits ==
  ASSUME NEW m, NEW book, BookFits(m, book), NEW matched
  PROVE  BookFits(m, MarkedBook(book, matched))
<1> DEFINE new == MarkedBook(book, matched)
<1>1. book \in Book /\ \A k \in 1..Len(book) : book[k] \in Bid
  BY BookTypes DEF BookFits
<1>2. new \in Book /\ Len(new) = Len(book) BY <1>1, BookMark
<1>3. ASSUME NEW k \in 1..Len(book) PROVE BidFits(m, new[k])
  <2> DEFINE b == book[k]
             mark == b.isMatched \/ k \in matched
  <2>1. new[k] = [b EXCEPT !.isMatched = mark] BY DEF MarkedBook
  <2>2. b \in Bid /\ BidFits(m, b) BY <1>1 DEF BookFits
  <2> HIDE DEF b, mark, new
  <2>3. new[k].type = b.type /\ new[k].price = b.price /\ new[k].denom = b.denom
    BY <2>1, <2>2 DEF Bid
  <2> QED BY <2>2, <2>3 DEF BidFits
<1> QED BY <1>2, <1>3 DEF BookFits

\* A bid that fits makes a book that fits.
LEMMA AppendedBookFits ==
  ASSUME NEW m, NEW book, BookFits(m, book), NEW bid \in Bid, bid.price > 0,
         BidFits(m, bid)
  PROVE  BookFits(m, Append(book, bid))
<1> DEFINE n == Len(book)
           new == Append(book, bid)
<1>1. book \in Book /\ book \in Seq(Bid) /\ n \in Nat
  BY BookTypes DEF BookFits, Book
<1>2. new \in Book BY <1>1, BookAppend
<1>3. /\ Len(new) = n + 1 /\ new[n + 1] = bid
      /\ \A k \in 1..n : new[k] = book[k]
  BY <1>1, AppendProperties
<1>4. \A k \in 1..n : BidFits(m, book[k]) BY DEF BookFits
<1> HIDE DEF new
<1>5. ASSUME NEW k \in 1..(n + 1) PROVE BidFits(m, new[k])
  <2>1. CASE k = n + 1 BY <1>3, <2>1
  <2>2. CASE k \in 1..n BY <1>3, <1>4, <2>2
  <2> QED BY <1>1, <2>1, <2>2
<1>6. BookFits(m, new) BY <1>2, <1>3, <1>5 DEF BookFits
<1> QED BY <1>6 DEF new

\* PlaceBid keeps the records sound: a fixed price auction has so much less left
\* as the bid buys.
LEMMA PlaceRecord ==
  ASSUME TypeOK, RecordsInv, NEW id \in Ids, NEW bid \in BidMsg,
         \/ PlaceFixedPriceBid(id, bid)
         \/ PlaceBatchWorthBid(id, bid)
         \/ PlaceBatchManyBid(id, bid)
  PROVE  RecordsInv'
<1> DEFINE a == auctions[id]
           m == Msg(id)
           sold == ConvertToSellingAmount(bid, m.payingDenom)
           matched == [bid EXCEPT !.isMatched = TRUE]
<1>1. id \in AuctionIds /\ a \in Auction BY AuctionFacts
<1>2. RecordOK(a, bids[id], vestingQueues[id]) BY <1>1 DEF RecordsInv, RecordsOf
<1>3. /\ ChangesOnly(id) /\ a.status = "Started"
      /\ bid \in Bid /\ bid.price > 0
      /\ vestingQueues'[id] = vestingQueues[id]
  BY PlaceEffect DEF Status
<1>4. /\ ValidMsg(m) /\ BookFits(m, bids[id]) /\ vestingQueues[id] = <<>>
      /\ m.type = "FixedPrice" =>
           a.remaining + SoldCoin(bids[id], m.payingDenom) = m.sellingAmt
  BY <1>2, <1>3 DEF RecordOK, Msg
<1>5. bids[id] \in Book /\ SoldCoin(bids[id], m.payingDenom) \in Nat
      /\ sold \in Nat /\ a.remaining \in Nat
  BY <1>1, <1>3, <1>4, BookSums, ConvertTypes, RecordFields DEF BookFits
<1>6. RecordOK(auctions'[id], bids'[id], vestingQueues'[id])
  <2>1. CASE /\ m.type = "FixedPrice" /\ bid.type = "FixedPrice"
             /\ bid.price = m.startPrice
             /\ bids'[id] = Append(bids[id], matched)
             /\ auctions'[id] = [a EXCEPT !.remaining = a.remaining - sold]
    <3>1. matched \in Bid /\ matched.price = bid.price /\ matched.price > 0
          /\ matched.type = bid.type /\ matched.denom = bid.denom
          /\ matched.amount = bid.amount
      BY <1>3, BidMsgType DEF Bid
    <3>2. ConvertToSellingAmount(matched, m.payingDenom) = sold
      BY <3>1 DEF ConvertToSellingAmount
    <3>3. BidFits(m, matched) BY <2>1, <3>1 DEF BidFits
    <3> HIDE DEF matched, sold, a, m
    <3>4. BookFits(m, bids'[id]) BY <1>4, <2>1, <3>1, <3>3, AppendedBookFits
    <3>5. SoldCoin(bids'[id], m.payingDenom) =
            SoldCoin(bids[id], m.payingDenom) + sold
      BY <1>5, <2>1, <3>1, <3>2, BookAppend
    <3>6. /\ auctions'[id].msg = a.msg
          /\ auctions'[id].status = a.status
          /\ auctions'[id].remaining = a.remaining - sold
      BY <1>1, <2>1, RecordFields
    <3>7. a.msg = m BY DEF a, m, Msg
    <3>8. auctions'[id].remaining + SoldCoin(bids'[id], m.payingDenom) = m.sellingAmt
      BY <1>4, <1>5, <2>1, <3>5, <3>6
    <3> QED BY <1>3, <1>4, <3>4, <3>6, <3>7, <3>8 DEF RecordOK
  <2>2. CASE /\ BidFits(m, bid) /\ m.type = "Batch"
             /\ bids'[id] = Append(bids[id], bid)
             /\ auctions'[id] = a
    <3> HIDE DEF sold, a, m
    <3>1. BookFits(m, bids'[id]) BY <1>3, <1>4, <2>2, AppendedBookFits
    <3>2. a.msg = m BY DEF a, m, Msg
    <3> QED BY <1>3, <1>4, <2>2, <3>1, <3>2 DEF RecordOK
  <2> QED BY <2>1, <2>2, PlaceEffect DEF BidFits
<1> QED BY <1>3, <1>6, OneRecord

\* ModifyBid changes the price and the amount of a bid of a batch auction.
LEMMA ModifyRecord ==
  ASSUME TypeOK, RecordsInv, NEW id \in Ids, NEW k \in 1..Len(bids[id]),
         NEW u \in Users, NEW price \in Prices, NEW denom \in Denoms,
         NEW amount \in Amounts, ModifyBid(id, k, u, price, denom, amount)
  PROVE  RecordsInv'
<1> DEFINE a == auctions[id]
           m == Msg(id)
           old == bids[id][k]
           bid == Modified(old, price, amount)
<1>1. id \in AuctionIds /\ a \in Auction BY AuctionFacts
<1>2. RecordOK(a, bids[id], vestingQueues[id]) BY <1>1 DEF RecordsInv, RecordsOf
<1>3. /\ ChangesOnly(id) /\ a.status = "Started" /\ m.type = "Batch"
      /\ price \in Nat /\ amount \in Nat /\ price > 0
      /\ auctions'[id] = a
      /\ bids'[id] = WithBid(bids[id], k, bid)
      /\ vestingQueues'[id] = vestingQueues[id]
  <2>1. /\ ChangesOnly(id)
        /\ Status(id) = "Started" /\ Msg(id).type = "Batch"
        /\ price \in Nat /\ amount \in Nat /\ price > 0
        /\ auctions'[id] = auctions[id]
        /\ bids'[id] = WithBid(bids[id], k, Modified(bids[id][k], price, amount))
        /\ vestingQueues'[id] = vestingQueues[id]
    <3> HIDE DEF a, m, old, bid
    <3> QED BY ModifyEffect
  <2> QED BY <2>1 DEF Status
<1>4. ValidMsg(m) /\ BookFits(m, bids[id]) /\ vestingQueues[id] = <<>>
  BY <1>2, <1>3 DEF RecordOK, Msg
<1>5. /\ bids[id] \in Book /\ old \in Bid /\ BidFits(m, old)
      /\ DOMAIN bids[id] = 1..Len(bids[id])
      /\ \A i \in 1..Len(bids[id]) : BidFits(m, bids[id][i])
  BY <1>4, BookTypes DEF BookFits
<1>6. /\ bid \in Bid /\ bid.price > 0 /\ bid.type = old.type
      /\ bid.denom = old.denom
  BY <1>3, <1>5 DEF Bid, Decimals, Modified
<1>7. BidFits(m, bid) BY <1>3, <1>5, <1>6 DEF BidFits
<1> HIDE DEF a, m, bid
<1>8. bids'[id] \in Book /\ Len(bids'[id]) = Len(bids[id])
  <2> DEFINE new == WithBid(bids[id], k, bid)
  <2>1. new \in Book /\ Len(new) = Len(bids[id])
    BY <1>5, <1>6, BookModify, Zenon
  <2> QED BY <1>3, <2>1
<1>9. BookFits(m, bids'[id])
  <2>1. \A i \in 1..Len(bids[id]) :
          bids'[id][i] = IF i = k THEN bid ELSE bids[id][i]
    BY <1>3, <1>5 DEF WithBid
  <2> QED BY <1>5, <1>7, <1>8, <2>1 DEF BookFits
<1>10. a.msg = m BY DEF a, m, Msg
<1>11. RecordOK(auctions'[id], bids'[id], vestingQueues'[id])
  BY <1>3, <1>4, <1>9, <1>10 DEF RecordOK
<1> QED BY <1>3, <1>11, OneRecord

\* A new auction starts with an empty book and without queues.
LEMMA CreateRecord ==
  ASSUME TypeOK, RecordsInv, NEW m \in CreateMsgs, CreateAuction(m)
  PROVE  RecordsInv'
<1> DEFINE a == NewAuction(m)
<1>1. PICK id \in AuctionIds :
        /\ id \notin Ids
        /\ Ids' = Ids \cup {id}
        /\ auctions'[id] = a
        /\ bids'[id] = bids[id]
        /\ vestingQueues'[id] = vestingQueues[id]
        /\ \A j \in AuctionIds \ {id} : Same(j)
  BY CreateEffect
<1>2. m \in CreateMsg /\ ValidMsg(m) BY CreatedMsg
<1>3. bids[id] = <<>> /\ vestingQueues[id] = <<>>
  BY <1>1 DEF RecordsInv, RecordsOf
<1>4. /\ a.msg = m
      /\ m.type = "FixedPrice" => a.remaining = m.sellingAmt
  BY DEF NewAuction
<1> HIDE DEF a
<1>5. SoldCoin(<<>>, m.payingDenom) = 0 /\ <<>> \in Book BY EmptyBook
<1>6. m.sellingAmt \in Nat BY <1>2 DEF CreateMsg
<1>7. RecordOK(a, <<>>, <<>>)
  <2>1. Len(<<>>) = 0 OBVIOUS
  <2>2. BookFits(m, <<>>) BY <1>5, <2>1 DEF BookFits
  <2> QED BY <1>2, <1>4, <1>5, <1>6, <2>2 DEF RecordOK
<1>8. RecordsOf(id)' BY <1>1, <1>3, <1>7 DEF RecordsOf
<1>9. ASSUME NEW j \in AuctionIds, j # id PROVE RecordsOf(j)'
  <2>1. Same(j) /\ RecordsOf(j) BY <1>1, <1>9 DEF RecordsInv
  <2>2. j \in Ids' <=> j \in Ids BY <1>1, <1>9
  <2> QED BY <2>1, <2>2 DEF Same, RecordsOf
<1> QED BY <1>8, <1>9 DEF RecordsInv, AuctionIds

\* A cancelled auction never took a bid.
LEMMA CancelRecord ==
  ASSUME TypeOK, RecordsInv, NEW id \in Ids, NEW u \in Users,
         CancelAuction(id, u)
  PROVE  RecordsInv'
<1> DEFINE a == auctions[id]
           b == [a EXCEPT !.status = "Cancelled", !.remaining = 0]
<1>1. id \in AuctionIds /\ a \in Auction BY AuctionFacts
<1>2. RecordOK(a, bids[id], vestingQueues[id]) BY <1>1 DEF RecordsInv, RecordsOf
<1>3. /\ ChangesOnly(id) /\ a.status = "StandBy"
      /\ auctions'[id] = b
      /\ bids'[id] = bids[id]
      /\ vestingQueues'[id] = vestingQueues[id]
  BY CancelEffect DEF Status
<1>4. b.msg = a.msg /\ b.status = "Cancelled" BY <1>1, RecordFields
<1> HIDE DEF a, b
<1>5. RecordOK(b, bids[id], vestingQueues[id])
  BY <1>2, <1>3, <1>4 DEF RecordOK
<1> QED BY <1>3, <1>5, OneRecord

\* An auction that starts has no bids yet.
LEMMA StandByRecord ==
  ASSUME TypeOK, RecordsInv, NEW id \in Ids, ExecuteStandByStatus(id)
  PROVE  RecordsInv'
<1> DEFINE a == auctions[id]
           b == [a EXCEPT !.status = "Started"]
<1>1. id \in AuctionIds /\ a \in Auction BY AuctionFacts
<1>2. RecordOK(a, bids[id], vestingQueues[id]) BY <1>1 DEF RecordsInv, RecordsOf
<1>3. /\ ChangesOnly(id) /\ a.status = "StandBy"
      /\ auctions'[id] = b
      /\ bids'[id] = bids[id]
      /\ vestingQueues'[id] = vestingQueues[id]
  BY StandByEffect DEF Status
<1>4. b.msg = a.msg /\ b.status = "Started" /\ b.remaining = a.remaining
  BY <1>1, RecordFields
<1> HIDE DEF a, b
<1>5. RecordOK(b, bids[id], vestingQueues[id])
  BY <1>2, <1>3, <1>4 DEF RecordOK
<1> QED BY <1>3, <1>5, OneRecord

\* The settlement keeps the book but for the marks.
LEMMA CloseRecord ==
  ASSUME TypeOK, RecordsInv, NEW id \in Ids,
         CloseFixedPriceAuction(id) \/ CloseBatchAuction(id)
  PROVE  RecordsInv'
<1> DEFINE a == auctions[id]
           s == IF Msg(id).schedules # <<>> THEN "Vesting" ELSE "Finished"
           b == [a EXCEPT !.status = s]
           d == a.msg.payingDenom
<1>1. id \in AuctionIds /\ a \in Auction BY AuctionFacts
<1>2. RecordOK(a, bids[id], vestingQueues[id]) BY <1>1 DEF RecordsInv, RecordsOf
<1>3. PICK matched :
        /\ ChangesOnly(id) /\ Status(id) = "Started"
        /\ auctions'[id] = b
        /\ bids'[id] \in {bids[id], MarkedBook(bids[id], matched)}
  <2> HIDE DEF a
  <2> QED BY CloseEffect DEF a
<1>4. a.status = "Started" BY <1>3 DEF Status
<1>5. /\ b.msg = a.msg /\ b.status \in {"Vesting", "Finished"}
      /\ b.remaining = a.remaining
  <2>1. b.msg = a.msg /\ b.status = s /\ b.remaining = a.remaining
    <3> HIDE DEF s
    <3> QED BY <1>1, RecordFields
  <2> QED BY <2>1
<1> HIDE DEF a, b, s
<1>6. BookFits(a.msg, bids[id]) /\ bids[id] \in Book
  BY <1>2 DEF RecordOK, BookFits
<1>7. /\ BookFits(a.msg, bids'[id])
      /\ SoldCoin(bids'[id], d) = SoldCoin(bids[id], d)
  BY <1>3, <1>6, MarkedBookFits, BookMark
<1>8. RecordOK(b, bids'[id], vestingQueues'[id])
  BY <1>2, <1>4, <1>5, <1>7 DEF RecordOK
<1> QED BY <1>3, <1>8, OneRecord

\* Another round keeps the book but for the marks.
LEMMA ExtendRecord ==
  ASSUME TypeOK, RecordsInv, NEW id \in Ids, ExtendRound(id)
  PROVE  RecordsInv'
<1> DEFINE a == auctions[id]
           e == Append(a.endTimes, EndTime(id) + extendedPeriod)
           b == [a EXCEPT !.endTimes = e]
           d == a.msg.payingDenom
           matched == BatchAllocation(id).matchedBids
<1>1. id \in AuctionIds /\ a \in Auction BY AuctionFacts
<1>2. RecordOK(a, bids[id], vestingQueues[id]) BY <1>1 DEF RecordsInv, RecordsOf
<1>3. /\ ChangesOnly(id) /\ Status(id) = "Started"
      /\ auctions'[id] = b
      /\ bids'[id] = MarkedBook(bids[id], matched)
      /\ vestingQueues'[id] = vestingQueues[id]
  BY ExtendEffect
<1>4. b.msg = a.msg /\ b.status = a.status /\ b.remaining = a.remaining
  <2> HIDE DEF e
  <2> QED BY <1>1, RecordFields
<1>5. a.status = "Started" BY <1>3 DEF Status
<1> HIDE DEF a, b, e, matched
<1>6. BookFits(a.msg, bids[id]) /\ bids[id] \in Book
  BY <1>2 DEF RecordOK, BookFits
<1>7. /\ BookFits(a.msg, bids'[id])
      /\ SoldCoin(bids'[id], d) = SoldCoin(bids[id], d)
  BY <1>3, <1>6, MarkedBookFits, BookMark
<1>8. RecordOK(b, bids'[id], vestingQueues'[id])
  BY <1>2, <1>3, <1>4, <1>5, <1>7 DEF RecordOK
<1> QED BY <1>3, <1>8, OneRecord

\* A release of vested coins concerns an auction that is settled.
LEMMA ReleaseRecord ==
  ASSUME TypeOK, RecordsInv, NEW id \in Ids, ExecuteVestingStatus(id)
  PROVE  RecordsInv'
<1> DEFINE a == auctions[id]
           s == IF ShouldRelease(vestingQueues[id][Len(vestingQueues[id])])
                  THEN "Finished" ELSE a.status
           b == [a EXCEPT !.status = s]
<1>1. id \in AuctionIds /\ a \in Auction BY AuctionFacts
<1>2. RecordOK(a, bids[id], vestingQueues[id]) BY <1>1 DEF RecordsInv, RecordsOf
<1>3. /\ ChangesOnly(id) /\ Status(id) = "Vesting"
      /\ auctions'[id] = b
      /\ bids'[id] = bids[id]
  BY ReleaseEffect
<1>4. s \in {"Vesting", "Finished"} BY <1>3 DEF Status
<1>5. b.msg = a.msg /\ b.status = s /\ b.remaining = a.remaining
  <2> HIDE DEF s
  <2> QED BY <1>1, RecordFields
<1>6. a.status = "Vesting" BY <1>3 DEF Status
<1> HIDE DEF a, b, s
<1>7. RecordOK(b, bids'[id], vestingQueues'[id])
  BY <1>2, <1>3, <1>4, <1>5, <1>6 DEF RecordOK
<1> QED BY <1>3, <1>7, OneRecord

\* Every step keeps the records of all auctions sound.
LEMMA RecordsStep ==
  ASSUME TypeOK, RecordsInv, [Next]_vars
  PROVE  RecordsInv'
<1>1. CASE Quiet
  <2>1. Ids' = Ids BY <1>1 DEF Quiet, Ids
  <2> QED BY <1>1, <2>1 DEF Quiet, RecordsInv, RecordsOf, AuctionIds
<1>2. ASSUME NEW m \in CreateMsgs,
             CreateFixedPriceAuction(m) \/ CreateBatchAuction(m)
      PROVE  RecordsInv'
  BY <1>2, CreateRecord DEF CreateFixedPriceAuction, CreateBatchAuction
<1>3. ASSUME NEW id \in Ids, NEW u \in Users, NEW amount \in Transfers,
             TransferToReserve(id, u, amount)
      PROVE  RecordsInv'
  <2>1. /\ ChangesOnly(id) /\ auctions'[id] = auctions[id]
        /\ bids'[id] = bids[id] /\ vestingQueues'[id] = vestingQueues[id]
    BY <1>3, TransferEffect
  <2>2. RecordOK(auctions[id], bids[id], vestingQueues[id])
    BY AuctionFacts DEF RecordsInv, RecordsOf
  <2> QED BY <2>1, <2>2, OneRecord
<1> QED
  BY <1>1, <1>2, <1>3, StepCases, CancelRecord, PlaceRecord, ModifyRecord,
     StandByRecord, CloseRecord, ExtendRecord, ReleaseRecord, Zenon

\* There are no records in the beginning.
LEMMA RecordsInit == Init => RecordsInv
<1> SUFFICES ASSUME Init PROVE RecordsInv OBVIOUS
<1>1. Ids = {} BY EmptySeq DEF Init, Ids
<1> QED BY <1>1 DEF Init, RecordsInv, RecordsOf

\* The handlers and the BeginBlocker keep the records of every auction in order.
LEMMA RecordsSound == Spec => []RecordsInv
<1>1. TypeOK /\ RecordsInv /\ [Next]_vars => RecordsInv' BY RecordsStep
<1> QED BY <1>1, RecordsInit, TypeCorrect, PTL DEF Spec

\* What RecordsInv says of a fixed price auction.
LEMMA NeverOversoldNow == TypeOK /\ RecordsInv => FixedPriceNeverOversold
<1> SUFFICES ASSUME TypeOK, RecordsInv, NEW id \in Ids, FixedPrice(id),
                    Status(id) # "Cancelled"
             PROVE  auctions[id].remaining + TotalSoldCoin(id) =
                      Msg(id).sellingAmt
  BY DEF FixedPriceNeverOversold
<1>1. RecordOK(auctions[id], bids[id], vestingQueues[id])
  BY AuctionFacts DEF RecordsInv, RecordsOf
<1>2. TotalSoldCoin(id) = SoldCoin(bids[id], Msg(id).payingDenom)
  BY DEF TotalSoldCoin, SoldCoin
<1> QED BY <1>1, <1>2 DEF RecordOK, FixedPrice, Status, Msg

\* keeper/bid.go, PlaceBid of a fixed price bid: whatever bids are placed, in
\* whichever coin and with whatever rounding, RemainingSellingCoin plus what the
\* accepted bids bought is the selling coin of the auction.
THEOREM NeverOversold == Spec => []FixedPriceNeverOversold
BY NeverOversoldNow, TypeCorrect, RecordsSound, PTL

-----------------------------------------------------------------------------
(***************************************************************************)
(* What a reserve account holds beyond what its auction owes.              *)
(***************************************************************************)
SellingOwed(a) ==
  IF a.status \in {"StandBy", "Started"} THEN a.msg.sellingAmt ELSE 0

PayingOwed(a, book) ==
  IF a.status = "Started" THEN BidCoin(book, a.msg.payingDenom) ELSE 0

SellingSurplus(id) ==
  sellingReserve[id] - (IF id \in Ids THEN SellingOwed(auctions[id]) ELSE 0)

PayingSurplus(id) ==
  payingReserve[id] -
    (IF id \in Ids THEN PayingOwed(auctions[id], bids[id]) ELSE 0)

VestingSurplus(id) == vestingReserve[id] - Unreleased(vestingQueues[id])

\* A step keeps each surplus of an auction, or pays it out.
KeepsSurplus(id) ==
  /\ SellingSurplus(id)' \in {SellingSurplus(id), 0}
  /\ PayingSurplus(id)' \in {PayingSurplus(id), 0}
  /\ VestingSurplus(id)' \in {VestingSurplus(id), 0}

\* A step adds to the surplus of an auction.
AddsSurplus(id) ==
  \E x, y, z \in Nat :
    /\ SellingSurplus(id)' = SellingSurplus(id) + x
    /\ PayingSurplus(id)' = PayingSurplus(id) + y
    /\ VestingSurplus(id)' = VestingSurplus(id) + z

\* The amounts are natural numbers.
LEMMA OwedTypes ==
  ASSUME TypeOK, RecordsInv, NEW id \in Ids
  PROVE  /\ SellingOwed(auctions[id]) \in Nat
         /\ PayingOwed(auctions[id], bids[id]) \in Nat
         /\ BidCoin(bids[id], Msg(id).payingDenom) \in Nat
         /\ sellingReserve[id] \in Nat
         /\ payingReserve[id] \in Nat
         /\ vestingReserve[id] \in Nat
<1>1. id \in AuctionIds /\ auctions[id] \in Auction /\ Msg(id) \in CreateMsg
  BY AuctionFacts
<1>2. Msg(id).sellingAmt \in Nat BY <1>1 DEF CreateMsg
<1>3. bids[id] \in Book
  BY <1>1 DEF RecordsInv, RecordsOf, RecordOK, BookFits
<1>4. BidCoin(bids[id], Msg(id).payingDenom) \in Nat BY <1>3, BookSums
<1> QED BY <1>1, <1>2, <1>4 DEF SellingOwed, PayingOwed, Msg, TypeOK

\* The surplus of an auction that a step does not touch stays.
LEMMA SameSurplus ==
  ASSUME NEW id, Same(id), id \in Ids' <=> id \in Ids
  PROVE  KeepsSurplus(id)
BY DEF Same, KeepsSurplus, SellingSurplus, PayingSurplus, VestingSurplus

\* It is enough to look at the auction that a step changes.
LEMMA OneSurplus ==
  ASSUME NEW id \in Ids, ChangesOnly(id),
         sellingReserve'[id] - SellingOwed(auctions'[id]) \in
           {sellingReserve[id] - SellingOwed(auctions[id]), 0},
         payingReserve'[id] - PayingOwed(auctions'[id], bids'[id]) \in
           {payingReserve[id] - PayingOwed(auctions[id], bids[id]), 0},
         vestingReserve'[id] - Unreleased(vestingQueues'[id]) \in
           {vestingReserve[id] - Unreleased(vestingQueues[id]), 0}
  PROVE  \A j \in AuctionIds : KeepsSurplus(j)
<1>1. id \in Ids' /\ Ids' = Ids BY DEF ChangesOnly
<1>2. KeepsSurplus(id)
  <2>1. SellingSurplus(id)' \in {SellingSurplus(id), 0}
    BY <1>1 DEF SellingSurplus
  <2>2. PayingSurplus(id)' \in {PayingSurplus(id), 0}
    BY <1>1 DEF PayingSurplus
  <2>3. VestingSurplus(id)' \in {VestingSurplus(id), 0}
    BY DEF VestingSurplus
  <2> QED BY <2>1, <2>2, <2>3 DEF KeepsSurplus
<1>3. ASSUME NEW j \in AuctionIds, j # id PROVE KeepsSurplus(j)
  BY <1>1, <1>3, SameSurplus DEF ChangesOnly
<1> QED BY <1>2, <1>3

\* The selling coin of a new auction is reserved, and it owes no more than that.
LEMMA CreateSurplus ==
  ASSUME TypeOK, RecordsInv, NEW m \in CreateMsgs, CreateAuction(m)
  PROVE  \A j \in AuctionIds : KeepsSurplus(j)
<1> DEFINE a == NewAuction(m)
<1>1. PICK id \in AuctionIds :
        /\ id \notin Ids
        /\ Ids' = Ids \cup {id}
        /\ auctions'[id] = a
        /\ bids'[id] = bids[id]
        /\ vestingQueues'[id] = vestingQueues[id]
        /\ sellingReserve'[id] = sellingReserve[id] + m.sellingAmt
        /\ payingReserve'[id] = payingReserve[id]
        /\ vestingReserve'[id] = vestingReserve[id]
        /\ \A j \in AuctionIds \ {id} : Same(j)
  BY CreateEffect
<1>2. m.sellingAmt \in Nat BY FundraisingAssumption DEF CreateMsg
<1>3. bids[id] = <<>> BY <1>1 DEF RecordsInv, RecordsOf
<1>4. a.msg = m /\ a.status \in {"StandBy", "Started"} BY DEF NewAuction
<1> HIDE DEF a
<1>5. SellingOwed(a) = m.sellingAmt BY <1>4 DEF SellingOwed
<1>6. PayingOwed(a, <<>>) = 0 BY EmptyBook DEF PayingOwed
<1>7. sellingReserve[id] \in Nat /\ payingReserve[id] \in Nat BY DEF TypeOK
<1>8. KeepsSurplus(id)
  <2>1. SellingSurplus(id)' = SellingSurplus(id)
    BY <1>1, <1>2, <1>5, <1>7 DEF SellingSurplus
  <2>2. PayingSurplus(id)' = PayingSurplus(id)
    BY <1>1, <1>3, <1>6, <1>7 DEF PayingSurplus
  <2>3. VestingSurplus(id)' = VestingSurplus(id) BY <1>1 DEF VestingSurplus
  <2> QED BY <2>1, <2>2, <2>3 DEF KeepsSurplus
<1>9. ASSUME NEW j \in AuctionIds, j # id PROVE KeepsSurplus(j)
  BY <1>1, <1>9, SameSurplus
<1> QED BY <1>8, <1>9

\* A cancelled auction returns all of the selling reserve.
LEMMA CancelSurplus ==
  ASSUME TypeOK, RecordsInv, NEW id \in Ids, NEW u \in Users,
         CancelAuction(id, u)
  PROVE  \A j \in AuctionIds : KeepsSurplus(j)
<1> DEFINE a == auctions[id]
           b == [a EXCEPT !.status = "Cancelled", !.remaining = 0]
<1>1. a \in Auction BY AuctionFacts
<1>2. /\ ChangesOnly(id) /\ a.status = "StandBy"
      /\ auctions'[id] = b
      /\ bids'[id] = bids[id]
      /\ vestingQueues'[id] = vestingQueues[id]
      /\ sellingReserve'[id] = 0
      /\ payingReserve'[id] = payingReserve[id]
      /\ vestingReserve'[id] = vestingReserve[id]
  BY CancelEffect DEF Status
<1>3. b.status = "Cancelled" BY <1>1, RecordFields
<1> HIDE DEF a, b
<1>4. SellingOwed(b) = 0 BY <1>3 DEF SellingOwed
<1>5. PayingOwed(b, bids[id]) = 0 /\ PayingOwed(a, bids[id]) = 0
  BY <1>2, <1>3 DEF PayingOwed
<1> QED BY <1>2, <1>4, <1>5, OneSurplus DEF a

\* A new bid reserves exactly what it adds to the coin that the bids account for.
LEMMA PlaceSurplus ==
  ASSUME TypeOK, RecordsInv, NEW id \in Ids, NEW bid \in BidMsg,
         \/ PlaceFixedPriceBid(id, bid)
         \/ PlaceBatchWorthBid(id, bid)
         \/ PlaceBatchManyBid(id, bid)
  PROVE  \A j \in AuctionIds : KeepsSurplus(j)
<1> DEFINE a == auctions[id]
           b == auctions'[id]
           m == Msg(id)
           d == m.payingDenom
           cost == ConvertToPayingAmount(bid, d)
           sold == ConvertToSellingAmount(bid, d)
           matched == [bid EXCEPT !.isMatched = TRUE]
<1>1. id \in AuctionIds /\ a \in Auction BY AuctionFacts
<1>2. /\ ChangesOnly(id) /\ a.status = "Started"
      /\ bid \in Bid /\ bid.price > 0
      /\ vestingQueues'[id] = vestingQueues[id]
      /\ sellingReserve'[id] = sellingReserve[id]
      /\ vestingReserve'[id] = vestingReserve[id]
  BY PlaceEffect DEF Status
<1>3. bids[id] \in Book /\ BidCoin(bids[id], d) \in Nat
  BY <1>1, BookSums DEF RecordsInv, RecordsOf, RecordOK, BookFits
<1>4. cost \in Nat /\ bid.amount \in Nat BY <1>2, ConvertTypes DEF Bid
<1>5. payingReserve[id] \in Nat BY <1>1 DEF TypeOK
<1>6. /\ b.msg = a.msg /\ b.status = a.status
      /\ payingReserve'[id] = payingReserve[id] + cost
      /\ BidCoin(bids'[id], d) = BidCoin(bids[id], d) + cost
  <2>1. CASE /\ bids'[id] = Append(bids[id], matched)
             /\ payingReserve'[id] = payingReserve[id] + cost
             /\ auctions'[id] = [a EXCEPT !.remaining = a.remaining - sold]
    <3>1. matched \in Bid /\ matched.price = bid.price /\ matched.price > 0
          /\ matched.denom = bid.denom /\ matched.amount = bid.amount
      BY <1>2, BidMsgType DEF Bid
    <3>2. ConvertToPayingAmount(matched, d) = cost
      BY <3>1 DEF ConvertToPayingAmount
    <3>3. b.msg = a.msg /\ b.status = a.status
      <4> HIDE DEF sold, a
      <4> QED BY <1>1, <2>1, RecordFields
    <3> HIDE DEF matched, cost, d
    <3>4. BidCoin(bids'[id], d) = BidCoin(bids[id], d) + cost
      BY <1>3, <2>1, <3>1, <3>2, BookAppend
    <3> QED BY <2>1, <3>3, <3>4
  <2>2. CASE /\ bids'[id] = Append(bids[id], bid)
             /\ payingReserve'[id] = payingReserve[id] + cost
             /\ auctions'[id] = a
    <3>1. ConvertToPayingAmount(bid, d) = cost OBVIOUS
    <3> HIDE DEF cost, d
    <3>2. BidCoin(bids'[id], d) = BidCoin(bids[id], d) + cost
      BY <1>2, <1>3, <2>2, <3>1, BookAppend
    <3> QED BY <2>2, <3>2
  <2>3. CASE /\ bids'[id] = Append(bids[id], bid)
             /\ bid.denom = d
             /\ payingReserve'[id] = payingReserve[id] + bid.amount
             /\ auctions'[id] = a
    <3>1. cost = bid.amount BY <2>3 DEF ConvertToPayingAmount
    <3> HIDE DEF cost
    <3> QED BY <2>2, <2>3, <3>1
  <2> QED BY <2>1, <2>2, <2>3, PlaceEffect
<1>7. a.msg = m BY DEF Msg
<1> HIDE DEF a, b, m, cost
<1>8. SellingOwed(b) = SellingOwed(a) BY <1>6 DEF SellingOwed
<1>9. PayingOwed(a, bids[id]) = BidCoin(bids[id], d) BY <1>2, <1>7 DEF PayingOwed
<1>10. PayingOwed(b, bids'[id]) = BidCoin(bids[id], d) + cost
  BY <1>2, <1>6, <1>7 DEF PayingOwed
<1> HIDE DEF d
<1>11. payingReserve'[id] - PayingOwed(b, bids'[id]) =
         payingReserve[id] - PayingOwed(a, bids[id])
  BY <1>3, <1>4, <1>5, <1>6, <1>9, <1>10
<1> QED BY <1>2, <1>8, <1>11, OneSurplus DEF a, b

\* ModifyBid reserves exactly what the modified bid accounts for more.
LEMMA ModifySurplus ==
  ASSUME TypeOK, RecordsInv, NEW id \in Ids, NEW k \in 1..Len(bids[id]),
         NEW u \in Users, NEW price \in Prices, NEW denom \in Denoms,
         NEW amount \in Amounts, ModifyBid(id, k, u, price, denom, amount)
  PROVE  \A j \in AuctionIds : KeepsSurplus(j)
<1> DEFINE a == auctions[id]
           m == Msg(id)
           d == m.payingDenom
           old == bids[id][k]
           bid == Modified(old, price, amount)
           diff == ReserveDifference(old, price, amount)
<1>1. id \in AuctionIds /\ a \in Auction BY AuctionFacts
<1>2. RecordOK(a, bids[id], vestingQueues[id]) BY <1>1 DEF RecordsInv, RecordsOf
<1>3. /\ ChangesOnly(id) /\ Status(id) = "Started" /\ Msg(id).type = "Batch"
      /\ price \in Nat /\ amount \in Nat /\ price > 0
      /\ auctions'[id] = auctions[id]
      /\ bids'[id] = WithBid(bids[id], k, Modified(bids[id][k], price, amount))
      /\ payingReserve'[id] = payingReserve[id] +
           ReserveDifference(bids[id][k], price, amount)
      /\ vestingQueues'[id] = vestingQueues[id]
      /\ sellingReserve'[id] = sellingReserve[id]
      /\ vestingReserve'[id] = vestingReserve[id]
  <2> HIDE DEF a, m, d, old, bid, diff
  <2> QED BY ModifyEffect
<1>4. bids[id] \in Book /\ ValidMsg(m) /\ BidFits(m, old)
  BY <1>2 DEF RecordOK, BookFits, Msg
<1>5. old \in Bid /\ old.price > 0 BY <1>4, BookTypes DEF Book
<1>6. /\ bid \in Bid /\ bid.price = price /\ bid.amount = amount
      /\ bid.denom = old.denom /\ bid.price > 0
  BY <1>3, <1>5 DEF Bid, Decimals, Modified
<1>7. diff = ConvertToPayingAmount(bid, d) - ConvertToPayingAmount(old, d)
  <2>1. CASE old.type = "BatchWorth" /\ old.denom = d
    <3>1. diff = amount - old.amount BY <2>1 DEF ReserveDifference
    <3>2. /\ ConvertToPayingAmount(bid, d) = amount
          /\ ConvertToPayingAmount(old, d) = old.amount
      BY <1>6, <2>1 DEF ConvertToPayingAmount
    <3> QED BY <3>1, <3>2
  <2>2. CASE old.type = "BatchMany" /\ old.denom = m.sellingDenom
    <3>1. diff = MulCeilInt(amount, price) - MulCeilInt(old.amount, old.price)
      BY <2>2 DEF ReserveDifference
    <3>2. old.denom # d BY <1>4, <2>2 DEF ValidMsg
    <3>3. /\ ConvertToPayingAmount(bid, d) = MulCeilInt(amount, price)
          /\ ConvertToPayingAmount(old, d) = MulCeilInt(old.amount, old.price)
      BY <1>6, <3>2 DEF ConvertToPayingAmount
    <3> QED BY <3>1, <3>3
  <2> QED BY <1>3, <1>4, <2>1, <2>2 DEF BidFits
<1>8. ConvertToPayingAmount(bid, d) \in Nat /\ ConvertToPayingAmount(old, d) \in Nat
  BY <1>5, <1>6, ConvertTypes
<1>9. diff \in Int BY <1>7, <1>8
<1>10. BidCoin(bids[id], d) \in Nat BY <1>4, BookSums
<1>11. payingReserve[id] \in Nat BY <1>1 DEF TypeOK
<1>12. a.status = "Started" /\ a.msg = m BY <1>3 DEF Status, Msg
<1>13. payingReserve'[id] = payingReserve[id] + diff BY <1>3
<1>14. bids'[id] = WithBid(bids[id], k, bid) BY <1>3
<1> HIDE DEF a, m, d, bid, diff
<1>15. BidCoin(bids'[id], d) = BidCoin(bids[id], d) + diff
  <2>1. BidCoin(WithBid(bids[id], k, bid), d) = BidCoin(bids[id], d) +
          (ConvertToPayingAmount(bid, d) - ConvertToPayingAmount(bids[id][k], d))
    BY <1>4, <1>6, BookModify
  <2> QED BY <1>7, <1>14, <2>1
<1>16. /\ PayingOwed(a, bids[id]) = BidCoin(bids[id], d)
       /\ PayingOwed(a, bids'[id]) = BidCoin(bids[id], d) + diff
  BY <1>12, <1>15 DEF PayingOwed, d
<1>17. payingReserve'[id] - PayingOwed(a, bids'[id]) =
         payingReserve[id] - PayingOwed(a, bids[id])
  BY <1>9, <1>10, <1>11, <1>13, <1>16
<1> QED BY <1>3, <1>17, OneSurplus DEF a

\* An auction that starts owes nothing more: it has no bids yet.
LEMMA StandBySurplus ==
  ASSUME TypeOK, RecordsInv, NEW id \in Ids, ExecuteStandByStatus(id)
  PROVE  \A j \in AuctionIds : KeepsSurplus(j)
<1> DEFINE a == auctions[id]
           b == [a EXCEPT !.status = "Started"]
<1>1. id \in AuctionIds /\ a \in Auction BY AuctionFacts
<1>2. RecordOK(a, bids[id], vestingQueues[id]) BY <1>1 DEF RecordsInv, RecordsOf
<1>3. /\ ChangesOnly(id) /\ a.status = "StandBy"
      /\ auctions'[id] = b
      /\ bids'[id] = bids[id]
      /\ vestingQueues'[id] = vestingQueues[id]
      /\ UNCHANGED <<sellingReserve, payingReserve, vestingReserve>>
  BY StandByEffect DEF Status
<1>4. b.msg = a.msg /\ b.status = "Started" BY <1>1, RecordFields
<1> HIDE DEF a, b
<1>5. bids[id] = <<>> BY <1>2, <1>3 DEF RecordOK
<1>6. SellingOwed(b) = SellingOwed(a) BY <1>3, <1>4 DEF SellingOwed
<1>7. PayingOwed(b, bids[id]) = 0 /\ PayingOwed(a, bids[id]) = 0
  BY <1>3, <1>5, EmptyBook DEF PayingOwed
<1> QED BY <1>3, <1>6, <1>7, OneSurplus DEF a

\* A settlement empties the two reserves, and puts what it adds to the vesting
\* reserve into queues.
LEMMA CloseSurplus ==
  ASSUME TypeOK, RecordsInv, NEW id \in Ids,
         CloseFixedPriceAuction(id) \/ CloseBatchAuction(id)
  PROVE  \A j \in AuctionIds : KeepsSurplus(j)
<1> DEFINE a == auctions[id]
           m == Msg(id)
           s == IF m.schedules # <<>> THEN "Vesting" ELSE "Finished"
           b == [a EXCEPT !.status = s]
<1>1. id \in AuctionIds /\ a \in Auction /\ m \in CreateMsg BY AuctionFacts
<1>2. RecordOK(a, bids[id], vestingQueues[id]) BY <1>1 DEF RecordsInv, RecordsOf
<1>3. PICK refund :
        /\ ChangesOnly(id) /\ Status(id) = "Started"
        /\ auctions'[id] = b
        /\ vestingQueues'[id] = NewVestingQueues(m.schedules, Raised(id, refund))
        /\ sellingReserve'[id] = 0
        /\ payingReserve'[id] = 0
        /\ vestingReserve'[id] = IF m.schedules # <<>>
             THEN vestingReserve[id] + Raised(id, refund) ELSE vestingReserve[id]
        /\ Raised(id, refund) \in Nat
  <2> HIDE DEF a, m
  <2> QED BY CloseEffect DEF a, m
<1> DEFINE raised == Raised(id, refund)
<1>4. b.status \in {"Vesting", "Finished"}
  <2>1. b.status = s
    <3> HIDE DEF s
    <3> QED BY <1>1, RecordFields
  <2> QED BY <2>1
<1>5. a.status = "Started" BY <1>3 DEF Status
<1>6. m.schedules \in Seq(Schedule) BY <1>1 DEF CreateMsg
<1>7. vestingReserve[id] \in Nat BY <1>1 DEF TypeOK
<1>8. Unreleased(vestingQueues[id]) = 0
  BY <1>2, <1>5, NoQueues DEF RecordOK
<1> HIDE DEF a, b, m, raised
<1>9. SellingOwed(b) = 0 /\ PayingOwed(b, bids'[id]) = 0
  BY <1>4 DEF SellingOwed, PayingOwed
<1>10. Unreleased(vestingQueues'[id]) = IF m.schedules # <<>> THEN raised ELSE 0
  <2>1. raised \in Nat BY <1>3 DEF raised
  <2>2. vestingQueues'[id] = NewVestingQueues(m.schedules, raised)
    BY <1>3 DEF raised
  <2> QED BY <1>6, <2>1, <2>2, NewQueues, NoQueues
<1>11. vestingReserve'[id] - Unreleased(vestingQueues'[id]) =
         vestingReserve[id] - Unreleased(vestingQueues[id])
  <2>1. raised \in Nat /\ vestingReserve'[id] =
          IF m.schedules # <<>> THEN vestingReserve[id] + raised
          ELSE vestingReserve[id]
    BY <1>3 DEF raised
  <2> QED BY <1>7, <1>8, <1>10, <2>1
<1> QED BY <1>3, <1>9, <1>11, OneSurplus

\* Another round moves no coin.
LEMMA ExtendSurplus ==
  ASSUME TypeOK, RecordsInv, NEW id \in Ids, ExtendRound(id)
  PROVE  \A j \in AuctionIds : KeepsSurplus(j)
<1> DEFINE a == auctions[id]
           e == Append(a.endTimes, EndTime(id) + extendedPeriod)
           b == [a EXCEPT !.endTimes = e]
           matched == BatchAllocation(id).matchedBids
<1>1. id \in AuctionIds /\ a \in Auction BY AuctionFacts
<1>2. RecordOK(a, bids[id], vestingQueues[id]) BY <1>1 DEF RecordsInv, RecordsOf
<1>3. /\ ChangesOnly(id)
      /\ auctions'[id] = b
      /\ bids'[id] = MarkedBook(bids[id], matched)
      /\ vestingQueues'[id] = vestingQueues[id]
      /\ UNCHANGED <<sellingReserve, payingReserve, vestingReserve>>
  BY ExtendEffect
<1>4. b.msg = a.msg /\ b.status = a.status
  <2> HIDE DEF e
  <2> QED BY <1>1, RecordFields
<1> HIDE DEF a, b, e, matched
<1>5. bids[id] \in Book BY <1>2 DEF RecordOK, BookFits
<1>6. BidCoin(bids'[id], a.msg.payingDenom) = BidCoin(bids[id], a.msg.payingDenom)
  BY <1>3, <1>5, BookMark
<1>7. /\ SellingOwed(b) = SellingOwed(a)
      /\ PayingOwed(b, bids'[id]) = PayingOwed(a, bids[id])
  BY <1>4, <1>6 DEF SellingOwed, PayingOwed
<1> QED BY <1>3, <1>7, OneSurplus DEF a

\* A release takes from the vesting reserve what it takes from the queues.
LEMMA ReleaseSurplus ==
  ASSUME TypeOK, RecordsInv, NEW id \in Ids, ExecuteVestingStatus(id)
  PROVE  \A j \in AuctionIds : KeepsSurplus(j)
<1> DEFINE a == auctions[id]
           s == IF ShouldRelease(vestingQueues[id][Len(vestingQueues[id])])
                  THEN "Finished" ELSE a.status
           b == [a EXCEPT !.status = s]
           due == DueBy(vestingQueues[id], blockTime)
<1>1. id \in AuctionIds /\ a \in Auction BY AuctionFacts
<1>2. /\ ChangesOnly(id) /\ Status(id) = "Vesting"
      /\ auctions'[id] = b
      /\ bids'[id] = bids[id]
      /\ vestingQueues'[id] = ReleasedQueues(vestingQueues[id], blockTime)
      /\ UNCHANGED <<sellingReserve, payingReserve>>
      /\ vestingReserve'[id] = vestingReserve[id] - ReleasedAmount(id)
  BY ReleaseEffect
<1>3. a.status = "Vesting" BY <1>2 DEF Status
<1>4. b.status \in {"Vesting", "Finished"}
  <2>1. b.status = s
    <3> HIDE DEF s
    <3> QED BY <1>1, RecordFields
  <2> QED BY <1>3, <2>1
<1>5. ReleasedAmount(id) = due BY DEF ReleasedAmount, DueBy, ShouldRelease
<1>6. vestingQueues[id] \in Seq(VestingQueue) /\ vestingReserve[id] \in Nat
  BY <1>1 DEF TypeOK
<1> HIDE DEF a, b, s, due
<1>7. /\ SellingOwed(b) = 0 /\ PayingOwed(b, bids[id]) = 0
      /\ SellingOwed(a) = 0 /\ PayingOwed(a, bids[id]) = 0
  BY <1>3, <1>4 DEF SellingOwed, PayingOwed
<1>8. /\ due \in Nat /\ Unreleased(vestingQueues'[id]) \in Nat
      /\ Unreleased(vestingQueues[id]) = Unreleased(vestingQueues'[id]) + due
  BY <1>2, <1>6, ReleaseSums DEF due
<1>9. vestingReserve'[id] - Unreleased(vestingQueues'[id]) =
        vestingReserve[id] - Unreleased(vestingQueues[id])
  BY <1>2, <1>5, <1>6, <1>8
<1> QED BY <1>2, <1>7, <1>9, OneSurplus DEF a

\* A step that is no bank transfer keeps every surplus or pays it out.
LEMMA SurplusStep ==
  ASSUME TypeOK, RecordsInv, [Next]_vars
  PROVE  \/ \A j \in AuctionIds : KeepsSurplus(j)
         \/ \E id \in Ids, u \in Users, amount \in Transfers :
              TransferToReserve(id, u, amount)
<1>1. ASSUME Quiet, NEW j \in AuctionIds PROVE KeepsSurplus(j)
  <2>1. Ids' = Ids BY <1>1 DEF Quiet, Ids
  <2>2. Same(j) BY <1>1 DEF Quiet, Same, reserves
  <2> QED BY <2>1, <2>2, SameSurplus
<1>2. ASSUME NEW m \in CreateMsgs,
             CreateFixedPriceAuction(m) \/ CreateBatchAuction(m)
      PROVE  \A j \in AuctionIds : KeepsSurplus(j)
  BY <1>2, CreateSurplus DEF CreateFixedPriceAuction, CreateBatchAuction
<1> QED
  BY <1>1, <1>2, StepCases, CancelSurplus, PlaceSurplus, ModifySurplus,
     StandBySurplus, CloseSurplus, ExtendSurplus, ReleaseSurplus, Zenon

\* A bank transfer to a reserve account adds to a surplus.
LEMMA TransferSurplus ==
  ASSUME TypeOK, RecordsInv, NEW id \in Ids, NEW u \in Users,
         NEW amount \in Transfers, TransferToReserve(id, u, amount)
  PROVE  \A j \in AuctionIds : KeepsSurplus(j) \/ AddsSurplus(j)
<1>1. /\ ChangesOnly(id) /\ auctions'[id] = auctions[id]
      /\ bids'[id] = bids[id] /\ vestingQueues'[id] = vestingQueues[id]
      /\ sellingReserve'[id] >= sellingReserve[id]
      /\ payingReserve'[id] >= payingReserve[id]
      /\ vestingReserve'[id] >= vestingReserve[id]
  BY TransferEffect
<1>2. id \in Ids' /\ Ids' = Ids BY <1>1 DEF ChangesOnly
<1>3. /\ sellingReserve'[id] \in Nat /\ payingReserve'[id] \in Nat
      /\ vestingReserve'[id] \in Nat
  BY AuctionFacts, TransferType DEF TypeOK
<1>4. /\ sellingReserve[id] \in Nat /\ SellingOwed(auctions[id]) \in Nat
      /\ payingReserve[id] \in Nat /\ PayingOwed(auctions[id], bids[id]) \in Nat
      /\ vestingReserve[id] \in Nat
  BY OwedTypes
<1>5. Unreleased(vestingQueues[id]) \in Nat
  BY AuctionFacts, UnreleasedType DEF TypeOK
<1>6. PICK x \in Nat : SellingSurplus(id)' = SellingSurplus(id) + x
  <2>1. sellingReserve'[id] - sellingReserve[id] \in Nat BY <1>1, <1>3, <1>4
  <2> QED BY <1>1, <1>2, <1>3, <1>4, <2>1 DEF SellingSurplus
<1>7. PICK y \in Nat : PayingSurplus(id)' = PayingSurplus(id) + y
  <2>1. payingReserve'[id] - payingReserve[id] \in Nat BY <1>1, <1>3, <1>4
  <2> QED BY <1>1, <1>2, <1>3, <1>4, <2>1 DEF PayingSurplus
<1>8. PICK z \in Nat : VestingSurplus(id)' = VestingSurplus(id) + z
  <2>1. vestingReserve'[id] - vestingReserve[id] \in Nat BY <1>1, <1>3, <1>4
  <2> QED BY <1>1, <1>3, <1>4, <1>5, <2>1 DEF VestingSurplus
<1>9. ASSUME NEW j \in AuctionIds, j # id PROVE KeepsSurplus(j)
  BY <1>1, <1>2, <1>9, SameSurplus DEF ChangesOnly
<1> QED BY <1>6, <1>7, <1>8, <1>9 DEF AddsSurplus

\* The reserves cover what is owed.
Covered ==
  \A id \in AuctionIds :
    /\ SellingSurplus(id) \in Nat
    /\ PayingSurplus(id) \in Nat
    /\ VestingSurplus(id) \in Nat

\* The reserves hold what is owed.
Exact ==
  \A id \in AuctionIds :
    SellingSurplus(id) = 0 /\ PayingSurplus(id) = 0 /\ VestingSurplus(id) = 0

\* Nothing is reserved and nothing is owed in the beginning.
LEMMA SurplusInit == Init => Covered /\ Exact
<1> SUFFICES ASSUME Init, NEW id \in AuctionIds
             PROVE  SellingSurplus(id) = 0 /\ PayingSurplus(id) = 0
                      /\ VestingSurplus(id) = 0
  BY DEF Covered, Exact
<1>1. id \notin Ids BY EmptySeq DEF Init, Ids
<1>2. vestingQueues[id] = <<>> BY DEF Init
<1> QED BY <1>1, <1>2, NoQueues
        DEF Init, SellingSurplus, PayingSurplus, VestingSurplus

\* No step makes a surplus negative.
LEMMA CoveredStep ==
  ASSUME TypeOK, RecordsInv, Covered, [Next]_vars
  PROVE  Covered'
<1>1. ASSUME NEW id \in AuctionIds, KeepsSurplus(id) \/ AddsSurplus(id)
      PROVE  /\ SellingSurplus(id)' \in Nat
             /\ PayingSurplus(id)' \in Nat
             /\ VestingSurplus(id)' \in Nat
  BY <1>1 DEF KeepsSurplus, AddsSurplus, Covered
<1>2. \A id \in AuctionIds : KeepsSurplus(id) \/ AddsSurplus(id)
  BY SurplusStep, TransferSurplus
<1> QED BY <1>1, <1>2 DEF Covered, AuctionIds

\* The reserve accounts of the keeper never hold less than what is owed.
LEMMA CoveredSound == Spec => []Covered
<1>1. TypeOK /\ RecordsInv /\ Covered /\ [Next]_vars => Covered' BY CoveredStep
<1>2. Init => Covered BY SurplusInit
<1> QED BY <1>1, <1>2, TypeCorrect, RecordsSound, PTL DEF Spec

\* What the surpluses say of the reserve accounts.
LEMMA ReservesCoverNow ==
  TypeOK /\ RecordsInv /\ Covered => ReservesCoverObligations
<1> SUFFICES ASSUME TypeOK, RecordsInv, Covered, NEW id \in Ids
             PROVE  /\ Status(id) \in {"StandBy", "Started"} =>
                         sellingReserve[id] >= Msg(id).sellingAmt
                    /\ Status(id) = "Started" =>
                         payingReserve[id] >= TotalBidCoin(id)
                    /\ vestingReserve[id] >= UnreleasedCoin(id)
  BY DEF ReservesCoverObligations
<1>1. /\ SellingSurplus(id) \in Nat /\ PayingSurplus(id) \in Nat
      /\ VestingSurplus(id) \in Nat
  BY AuctionFacts DEF Covered
<1>2. /\ SellingOwed(auctions[id]) \in Nat
      /\ PayingOwed(auctions[id], bids[id]) \in Nat
      /\ sellingReserve[id] \in Nat /\ payingReserve[id] \in Nat
      /\ vestingReserve[id] \in Nat
  BY OwedTypes
<1>3. Unreleased(vestingQueues[id]) \in Nat
  BY AuctionFacts, UnreleasedType DEF TypeOK
<1>4. /\ TotalBidCoin(id) = BidCoin(bids[id], Msg(id).payingDenom)
      /\ UnreleasedCoin(id) = Unreleased(vestingQueues[id])
  BY DEF TotalBidCoin, BidCoin, UnreleasedCoin, Unreleased
<1>5. Status(id) \in {"StandBy", "Started"} =>
        SellingOwed(auctions[id]) = Msg(id).sellingAmt
  BY DEF SellingOwed, Status, Msg
<1>6. Status(id) = "Started" =>
        PayingOwed(auctions[id], bids[id]) = TotalBidCoin(id)
  BY <1>4 DEF PayingOwed, Status, Msg
<1>7. sellingReserve[id] >= SellingOwed(auctions[id])
  BY <1>1, <1>2 DEF SellingSurplus
<1>8. payingReserve[id] >= PayingOwed(auctions[id], bids[id])
  BY <1>1, <1>2 DEF PayingSurplus
<1>9. vestingReserve[id] >= Unreleased(vestingQueues[id])
  BY <1>1, <1>2, <1>3 DEF VestingSurplus
<1> QED BY <1>4, <1>5, <1>6, <1>7, <1>8, <1>9

\* keeper/invariants.go, SellingPoolReserveAmountInvariant,
\* PayingPoolReserveAmountInvariant and VestingPoolReserveAmountInvariant hold of
\* every behaviour: whatever is bid, modified, matched, released or sent to the
\* reserve accounts, they cover what the auction owes.
THEOREM ReservesCover == Spec => []ReservesCoverObligations
BY ReservesCoverNow, TypeCorrect, RecordsSound, CoveredSound, PTL

\* Without bank transfers to the reserve accounts no step adds to a surplus.
LEMMA ExactStep ==
  ASSUME Transfers = {}, TypeOK, RecordsInv, Exact, [Next]_vars
  PROVE  Exact'
<1>1. \A id \in AuctionIds : KeepsSurplus(id) BY SurplusStep
<1> QED BY <1>1 DEF KeepsSurplus, Exact, AuctionIds

\* The reserve accounts of the keeper then hold neither more nor less than what
\* is owed.
LEMMA ExactSound ==
  ASSUME Transfers = {}
  PROVE  Spec => []Exact
<1>1. TypeOK /\ RecordsInv /\ Exact /\ [Next]_vars => Exact' BY ExactStep
<1>2. Init => Exact BY SurplusInit
<1> QED BY <1>1, <1>2, TypeCorrect, RecordsSound, PTL DEF Spec

\* Without a surplus the reserve accounts hold what is owed.
LEMMA ReservesExactNow == TypeOK /\ RecordsInv /\ Exact => ReservesAreExact
<1> SUFFICES ASSUME TypeOK, RecordsInv, Exact, NEW id \in Ids
             PROVE  /\ sellingReserve[id] =
                         IF Status(id) \in {"StandBy", "Started"}
                           THEN Msg(id).sellingAmt ELSE 0
                    /\ payingReserve[id] =
                         IF Status(id) = "Started" THEN TotalBidCoin(id) ELSE 0
                    /\ vestingReserve[id] = UnreleasedCoin(id)
  BY DEF ReservesAreExact
<1>1. /\ SellingSurplus(id) = 0 /\ PayingSurplus(id) = 0
      /\ VestingSurplus(id) = 0
  BY AuctionFacts DEF Exact
<1>2. /\ SellingOwed(auctions[id]) \in Nat
      /\ PayingOwed(auctions[id], bids[id]) \in Nat
      /\ sellingReserve[id] \in Nat /\ payingReserve[id] \in Nat
      /\ vestingReserve[id] \in Nat
  BY OwedTypes
<1>3. Unreleased(vestingQueues[id]) \in Nat
  BY AuctionFacts, UnreleasedType DEF TypeOK
<1>4. /\ TotalBidCoin(id) = BidCoin(bids[id], Msg(id).payingDenom)
      /\ UnreleasedCoin(id) = Unreleased(vestingQueues[id])
  BY DEF TotalBidCoin, BidCoin, UnreleasedCoin, Unreleased
<1>5. sellingReserve[id] = SellingOwed(auctions[id])
  BY <1>1, <1>2 DEF SellingSurplus
<1>6. payingReserve[id] = PayingOwed(auctions[id], bids[id])
  BY <1>1, <1>2 DEF PayingSurplus
<1>7. vestingReserve[id] = Unreleased(vestingQueues[id])
  BY <1>1, <1>2, <1>3 DEF VestingSurplus
<1> QED BY <1>4, <1>5, <1>6, <1>7 DEF SellingOwed, PayingOwed, Status, Msg

\* When nobody sends coins to a reserve account, the reserve accounts hold
\* exactly what the auctions owe: RefundRemainingSellingCoin, RefundPayingCoin,
\* ApplyVestingSchedules and ReleaseVestingPayingCoin leave no coin behind.
THEOREM ReservesExact ==
  ASSUME Transfers = {}
  PROVE  Spec => []ReservesAreExact
BY ReservesExactNow, ExactSound, TypeCorrect, RecordsSound, PTL
=============================================================================
