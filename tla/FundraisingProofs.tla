-------------------------- MODULE FundraisingProofs --------------------------
(***************************************************************************)
(* Theorems about the keeper, for every value of the constants.            *)
(***************************************************************************)
EXTENDS FundraisingProperties, MatchingProofs

-----------------------------------------------------------------------------
(***************************************************************************)
(* Facts about bids and coins.                                             *)
(***************************************************************************)

\* The two conversions of a bid, for a bid with a positive price.
LEMMA ConvertTypes ==
  ASSUME NEW bid \in Bid, bid.price > 0, NEW denom
  PROVE  /\ ConvertToSellingAmount(bid, denom) \in Nat
         /\ ConvertToPayingAmount(bid, denom) \in Nat
<1>1. bid.amount \in Nat /\ bid.price \in Nat BY DEF Bid, Decimals
<1> QED BY <1>1, DecTypes DEF ConvertToSellingAmount, ConvertToPayingAmount

\* What a user is charged stays a natural number, and so does what others get.
LEMMA CoinTypes ==
  ASSUME NEW d, NEW n \in Nat, NEW c1 \in Coins, NEW c2 \in Coins
  PROVE  Coin(d, n) \in Coins /\ Plus(c1, c2) \in Coins
BY DEF Coin, Plus, Coins

\* A debit the bank allows leaves every balance a natural number (SendCoins).
LEMMA DebitType ==
  ASSUME balance \in [Users -> Coins], NEW u \in Users, NEW c \in Coins,
         HasCoins(u, c)
  PROVE  Debit(u, c) \in [Users -> Coins]
BY DEF Debit, HasCoins, Coins

\* A credit leaves every balance a natural number.
LEMMA CreditType ==
  ASSUME balance \in [Users -> Coins], NEW u \in Users, NEW c \in Coins
  PROVE  Credit(u, c) \in [Users -> Coins]
BY DEF Credit, Plus, Coins

-----------------------------------------------------------------------------
(***************************************************************************)
(* Type correctness, action by action.                                     *)
(***************************************************************************)

\* The fields of an existing auction have their types.
LEMMA AuctionFacts ==
  ASSUME TypeOK, NEW id \in Ids
  PROVE  /\ id \in AuctionIds
         /\ auctions[id] \in Auction
         /\ Msg(id) \in CreateMsg
         /\ EndTime(id) \in Nat
         /\ Len(auctions[id].endTimes) \in Nat \ {0}
<1>1. Len(auctions) \in Nat /\ Len(auctions) <= MaxAuctions
  BY LenProperties DEF TypeOK
<1>2. id \in AuctionIds
  BY <1>1, FundraisingAssumption DEF Ids, AuctionIds
<1>3. auctions[id] \in Auction
  BY ElementOfSeq DEF TypeOK, Ids
<1>4. auctions[id].endTimes \in Seq(Time) /\ auctions[id].endTimes # <<>>
  BY <1>3 DEF Auction
<1>5. Len(auctions[id].endTimes) \in Nat \ {0}
  BY <1>4, EmptySeq
<1>6. EndTime(id) \in Nat
  BY <1>4, <1>5, ElementOfSeq DEF EndTime, Time
<1> QED BY <1>2, <1>3, <1>5, <1>6 DEF Msg, Auction

\* Replacing an auction by another keeps the sequence of auctions typed.
LEMMA AuctionUpdate ==
  ASSUME TypeOK, NEW id \in Ids, NEW a \in Auction,
         auctions' = [auctions EXCEPT ![id] = a]
  PROVE  auctions' \in Seq(Auction) /\ Len(auctions') = Len(auctions)
BY ExceptSeq DEF TypeOK, Ids

\* The state the genesis block leaves behind is typed.
LEMMA InitType == Init => TypeOK
<1> SUFFICES ASSUME Init PROVE TypeOK OBVIOUS
<1>1. auctions \in Seq(Auction) /\ Len(auctions) = 0
  BY EmptySeq DEF Init
<1>2. bids \in [AuctionIds -> Seq(Bid)]
      /\ vestingQueues \in [AuctionIds -> Seq(VestingQueue)]
  BY EmptySeq DEF Init
<1> QED BY <1>1, <1>2, FundraisingAssumption DEF Init, TypeOK, Time, Coins

\* CreateFixedPriceAuction and CreateBatchAuction keep the types: the selling
\* coin is debited only when the auctioneer has it.
LEMMA CreateType ==
  ASSUME TypeOK, NEW m \in CreateMsgs, CreateAuction(m)
  PROVE  TypeOK'
<1> DEFINE charge == Plus(AuctionCreationFee, Coin(m.sellingDenom, m.sellingAmt))
           a == NewAuction(m)
<1>1. m \in CreateMsg BY FundraisingAssumption
<1>2. m.sellingAmt \in Nat /\ m.auctioneer \in Users /\ m.endTime \in Time
  BY <1>1 DEF CreateMsg
<1>3. AuctionCreationFee \in Coins BY FundraisingAssumption
<1>4. charge \in Coins BY <1>2, <1>3, CoinTypes
<1>5. balance' \in [Users -> Coins]
  <2> HIDE DEF charge
  <2>1. HasCoins(m.auctioneer, Plus(AuctionCreationFee, Coin(m.sellingDenom, m.sellingAmt)))
        /\ balance' = Debit(m.auctioneer, Plus(AuctionCreationFee, Coin(m.sellingDenom, m.sellingAmt)))
    BY DEF CreateAuction
  <2>2. HasCoins(m.auctioneer, charge) /\ balance' = Debit(m.auctioneer, charge)
    BY <2>1 DEF charge
  <2>3. balance \in [Users -> Coins] BY DEF TypeOK
  <2> QED BY <2>2, <2>3, <1>2, <1>4, DebitType
<1>6. communityPool' \in Coins
  BY <1>3, CoinTypes DEF CreateAuction, TypeOK
<1>7. a \in Auction
  <2>1. <<m.endTime>> \in Seq(Time) \ {<<>>} BY <1>2
  <2> QED BY <1>1, <1>2, <2>1
          DEF NewAuction, Auction, AuctionStatus, Decimals
<1>8. auctions' \in Seq(Auction) /\ Len(auctions') = Len(auctions) + 1
  <2> HIDE DEF a
  <2>1. auctions' = Append(auctions, a) BY DEF CreateAuction, a
  <2>2. auctions \in Seq(Auction) BY DEF TypeOK
  <2> QED BY <2>1, <2>2, <1>7, AppendProperties
<1>9. Len(auctions) \in Nat /\ Len(auctions) + 1 <= MaxAuctions
  BY LenProperties, FundraisingAssumption DEF CreateAuction, TypeOK
<1>10. sellingReserve' \in [AuctionIds -> Nat]
  <2>1. sellingReserve' =
          [sellingReserve EXCEPT ![NextAuctionId] =
             sellingReserve[NextAuctionId] + m.sellingAmt]
    BY DEF CreateAuction
  <2>2. NextAuctionId \in AuctionIds
    BY <1>9, FundraisingAssumption DEF NextAuctionId, AuctionIds
  <2> QED BY <1>2, <2>1, <2>2 DEF TypeOK
<1>11. cursor' \in 0..Len(auctions')
  BY <1>8, <1>9 DEF CreateAuction, TypeOK, chain
<1> QED BY <1>5, <1>6, <1>8, <1>9, <1>10, <1>11 DEF CreateAuction, TypeOK, chain

\* CancelAuction keeps the types: the reserve refunded is what was deposited.
LEMMA CancelType ==
  ASSUME TypeOK, NEW id \in Ids, NEW u \in Users, CancelAuction(id, u)
  PROVE  TypeOK'
<1> DEFINE a == [auctions[id] EXCEPT !.status = "Cancelled", !.remaining = 0]
           c == Coin(Msg(id).sellingDenom, sellingReserve[id])
<1>1. id \in AuctionIds /\ auctions[id] \in Auction BY AuctionFacts
<1>2. a \in Auction BY <1>1 DEF Auction, AuctionStatus
<1>3. auctions' = [auctions EXCEPT ![id] = a] BY DEF CancelAuction
<1>4. auctions' \in Seq(Auction) /\ Len(auctions') = Len(auctions)
  <2> HIDE DEF a
  <2> QED BY <1>2, <1>3, AuctionUpdate
<1>5. sellingReserve[id] \in Nat BY <1>1 DEF TypeOK
<1>6. c \in Coins
  <2>1. [d \in Denoms |-> 0] \in Coins BY DEF Coins
  <2> QED BY <1>5, <2>1, CoinTypes
<1>7. balance' = Credit(u, c) BY DEF CancelAuction
<1>8. balance' \in [Users -> Coins]
  <2> HIDE DEF c
  <2>1. balance \in [Users -> Coins] BY DEF TypeOK
  <2> QED BY <1>6, <1>7, <2>1, CreditType
<1>9. sellingReserve' \in [AuctionIds -> Nat] BY DEF CancelAuction, TypeOK
<1> QED BY <1>4, <1>8, <1>9 DEF CancelAuction, TypeOK, chain

\* AddAllowedBidders, an upsert of several bidders, keeps the types.
LEMMA AddAllowedType ==
  ASSUME TypeOK, NEW id \in Ids, NEW list \in AllowedBidderLists,
         AddAllowedBidders(id, list)
  PROVE  TypeOK'
<1> DEFINE entries(u) == {k \in StoredEntries(id, list) : list[k].bidder = u}
           latest(u) == CHOOSE k \in entries(u) : \A j \in entries(u) : j <= k
<1>1. id \in AuctionIds BY AuctionFacts
<1>2. list \in Seq(AllowedBidder) BY FundraisingAssumption
<1>3. Len(list) \in Nat BY <1>2, LenProperties
<1>4. ASSUME NEW u, entries(u) # {}
      PROVE  list[latest(u)].maxBidAmount \in Nat
  <2>1. entries(u) \in SUBSET Nat /\ \A k \in entries(u) : k \in 1..Len(list)
    BY <1>3 DEF StoredEntries
  <2>2. \E k \in entries(u) : \A j \in entries(u) : j <= k
    <3> HIDE DEF entries
    <3>1. \A k \in entries(u) : k <= Len(list) BY <1>3, <2>1
    <3> QED BY <1>3, <1>4, <2>1, <3>1, GreatestNat
  <2>3. latest(u) \in entries(u)
    <3> HIDE DEF entries
    <3> QED BY <2>2
  <2>4. latest(u) \in 1..Len(list) BY <2>1, <2>3
  <2> HIDE DEF latest
  <2>5. list[latest(u)] \in AllowedBidder BY <1>2, <2>4, ElementOfSeq
  <2> QED BY <2>5 DEF AllowedBidder
<1>5. allowed' = [allowed EXCEPT ![id] =
                    [u \in Users |-> IF entries(u) = {} THEN allowed[id][u]
                                     ELSE list[latest(u)].maxBidAmount]]
  BY DEF AddAllowedBidders
<1>6. allowed' \in [AuctionIds -> [Users -> Nat]]
  <2> HIDE DEF entries, latest
  <2>1. [u \in Users |-> IF entries(u) = {} THEN allowed[id][u]
                         ELSE list[latest(u)].maxBidAmount] \in [Users -> Nat]
    BY <1>1, <1>4 DEF TypeOK
  <2> QED BY <1>1, <1>5, <2>1 DEF TypeOK
<1> QED BY <1>6 DEF AddAllowedBidders, TypeOK, chain, accounts, reserves

\* UpdateAllowedBidder keeps the types.
LEMMA UpdateAllowedType ==
  ASSUME TypeOK, NEW id \in Ids, NEW u \in Users, NEW max \in MaxBidAmounts,
         UpdateAllowedBidder(id, u, max)
  PROVE  TypeOK'
<1>1. id \in AuctionIds /\ max \in Nat BY AuctionFacts, FundraisingAssumption
<1>2. allowed' \in [AuctionIds -> [Users -> Nat]]
  BY <1>1 DEF UpdateAllowedBidder, TypeOK
<1> QED BY <1>2 DEF UpdateAllowedBidder, TypeOK, chain, accounts, reserves

\* Every bid message that passes ValidateBasic is a typed bid.
LEMMA BidMsgType ==
  ASSUME NEW bid \in BidMsg
  PROVE  bid \in Bid /\ [bid EXCEPT !.isMatched = TRUE] \in Bid
BY FundraisingAssumption DEF BidMsg, Bid, Decimals

\* ReservePayingCoin keeps balances and reserves natural numbers.
LEMMA ReserveType ==
  ASSUME TypeOK, NEW id \in Ids, NEW bid \in Bid, NEW amt \in Nat,
         ReserveAndStore(id, bid, amt)
  PROVE  /\ balance' \in [Users -> Coins]
         /\ communityPool' \in Coins
         /\ payingReserve' \in [AuctionIds -> Nat]
         /\ bids' \in [AuctionIds -> Seq(Bid)]
<1> DEFINE charge == Plus(PlaceBidFee, Coin(Msg(id).payingDenom, amt))
<1>1. id \in AuctionIds BY AuctionFacts
<1>2. PlaceBidFee \in Coins BY FundraisingAssumption
<1>3. charge \in Coins BY <1>2, CoinTypes
<1>4. HasCoins(bid.bidder, charge) /\ balance' = Debit(bid.bidder, charge)
  BY DEF ReserveAndStore
<1>5. balance' \in [Users -> Coins]
  <2> HIDE DEF charge
  <2>1. balance \in [Users -> Coins] /\ bid.bidder \in Users BY DEF TypeOK, Bid
  <2> QED BY <1>3, <1>4, <2>1, DebitType
<1>6. communityPool' \in Coins
  BY <1>2, CoinTypes DEF ReserveAndStore, TypeOK
<1>7. payingReserve' \in [AuctionIds -> Nat]
  BY <1>1 DEF ReserveAndStore, TypeOK
<1>8. bids' \in [AuctionIds -> Seq(Bid)]
  <2>1. Append(bids[id], bid) \in Seq(Bid) BY <1>1, AppendProperties DEF TypeOK
  <2> QED BY <1>1, <2>1 DEF ReserveAndStore, TypeOK
<1> QED BY <1>5, <1>6, <1>7, <1>8

\* PlaceBid on a fixed price auction keeps the types: the remaining amount is
\* checked before it is lowered.
LEMMA PlaceFixedType ==
  ASSUME TypeOK, NEW id \in Ids, NEW bid \in BidMsg, PlaceFixedPriceBid(id, bid)
  PROVE  TypeOK'
<1> DEFINE b == [bid EXCEPT !.isMatched = TRUE]
           amt == ConvertToPayingAmount(bid, Msg(id).payingDenom)
           sold == ConvertToSellingAmount(bid, Msg(id).payingDenom)
           a == [auctions[id] EXCEPT !.remaining = RemainingAfter(id, bid)]
<1>1. id \in AuctionIds /\ auctions[id] \in Auction BY AuctionFacts
<1>2. bid \in Bid /\ b \in Bid /\ bid.price > 0
  BY BidMsgType DEF PlaceFixedPriceBid, MayPlaceBid
<1>3. amt \in Nat /\ sold \in Nat BY <1>2, ConvertTypes
<1>4. sold <= auctions[id].remaining
  BY DEF PlaceFixedPriceBid, ValidateFixedPriceBid
<1>5. a \in Auction
  <2> HIDE DEF sold
  <2>1. RemainingAfter(id, bid) = auctions[id].remaining - sold
    BY DEF RemainingAfter, sold
  <2>2. auctions[id].remaining \in Nat BY <1>1 DEF Auction
  <2>3. RemainingAfter(id, bid) \in Nat BY <1>3, <1>4, <2>1, <2>2
  <2> QED BY <1>1, <2>3 DEF Auction
<1>6. auctions' = [auctions EXCEPT ![id] = a] BY DEF PlaceFixedPriceBid
<1>7. auctions' \in Seq(Auction) /\ Len(auctions') = Len(auctions)
  <2> HIDE DEF a
  <2> QED BY <1>5, <1>6, AuctionUpdate
<1>8. ReserveAndStore(id, b, amt) BY DEF PlaceFixedPriceBid
<1>9. /\ balance' \in [Users -> Coins]
      /\ communityPool' \in Coins
      /\ payingReserve' \in [AuctionIds -> Nat]
      /\ bids' \in [AuctionIds -> Seq(Bid)]
  <2> HIDE DEF amt, b
  <2> QED BY <1>2, <1>3, <1>8, ReserveType
<1> QED BY <1>7, <1>9 DEF PlaceFixedPriceBid, TypeOK, chain

\* PlaceBid on a batch auction keeps the types.
LEMMA PlaceBatchType ==
  ASSUME TypeOK, NEW id \in Ids, NEW bid \in BidMsg,
         PlaceBatchWorthBid(id, bid) \/ PlaceBatchManyBid(id, bid)
  PROVE  TypeOK'
<1> DEFINE amt == ConvertToPayingAmount(bid, Msg(id).payingDenom)
<1>1. bid \in Bid /\ bid.price > 0
  BY BidMsgType DEF PlaceBatchWorthBid, PlaceBatchManyBid, MayPlaceBid
<1>2. amt \in Nat /\ bid.amount \in Nat BY <1>1, ConvertTypes DEF Bid
<1>3. ReserveAndStore(id, bid, bid.amount) \/ ReserveAndStore(id, bid, amt)
  BY DEF PlaceBatchWorthBid, PlaceBatchManyBid
<1>4. /\ balance' \in [Users -> Coins]
      /\ communityPool' \in Coins
      /\ payingReserve' \in [AuctionIds -> Nat]
      /\ bids' \in [AuctionIds -> Seq(Bid)]
  <2> HIDE DEF amt
  <2> QED BY <1>1, <1>2, <1>3, ReserveType
<1> QED BY <1>4 DEF PlaceBatchWorthBid, PlaceBatchManyBid, TypeOK, chain

\* A bid that is not lowered needs no less coin than before.
LEMMA DifferenceType ==
  ASSUME NEW bid \in Bid, NEW price \in Nat, NEW amount \in Nat,
         bid.price <= price, bid.amount <= amount
  PROVE  ReserveDifference(bid, price, amount) \in Nat
<1>1. bid.price \in Nat /\ bid.amount \in Nat BY DEF Bid, Decimals
<1>2. MulCeilInt(bid.amount, bid.price) <= MulCeilInt(amount, price)
  BY <1>1, MulCeilMonotone
<1>3. /\ MulCeilInt(bid.amount, bid.price) \in Nat
      /\ MulCeilInt(amount, price) \in Nat
  BY <1>1, DecTypes
<1> QED BY <1>1, <1>2, <1>3 DEF ReserveDifference

\* ModifyBid keeps the types: the additional reserve is never negative, because
\* neither the price nor the amount may be lowered.
LEMMA ModifyType ==
  ASSUME TypeOK, NEW id \in Ids, NEW k \in 1..Len(bids[id]), NEW u \in Users,
         NEW price \in Prices, NEW denom \in Denoms, NEW amount \in Amounts,
         ModifyBid(id, k, u, price, denom, amount)
  PROVE  TypeOK'
<1> DEFINE bid == bids[id][k]
           diff == ReserveDifference(bid, price, amount)
           charge == Coin(Msg(id).payingDenom, diff)
           new == [bid EXCEPT !.price = price, !.amount = amount]
<1>1. id \in AuctionIds /\ price \in Nat /\ amount \in Nat
  BY AuctionFacts, FundraisingAssumption DEF Decimals
<1>2. bids[id] \in Seq(Bid) BY <1>1 DEF TypeOK
<1>3. bid \in Bid BY <1>2, ElementOfSeq
<1>4. bid.price \in Nat /\ bid.amount \in Nat BY <1>3 DEF Bid, Decimals
<1>5. bid.price <= price /\ bid.amount <= amount
  BY <1>1, <1>4 DEF ModifyBid, NotLowered
<1>6. diff \in Nat
  <2> HIDE DEF bid
  <2> QED BY <1>1, <1>3, <1>5, DifferenceType
<1>7. charge \in Coins
  <2>1. [d \in Denoms |-> 0] \in Coins BY DEF Coins
  <2> HIDE DEF diff
  <2> QED BY <1>6, <2>1, CoinTypes
<1>8. HasCoins(u, charge) /\ balance' = Debit(u, charge) BY DEF ModifyBid
<1>9. balance' \in [Users -> Coins]
  <2> HIDE DEF charge
  <2>1. balance \in [Users -> Coins] BY DEF TypeOK
  <2> QED BY <1>7, <1>8, <2>1, DebitType
<1>10. payingReserve' = [payingReserve EXCEPT ![id] = payingReserve[id] + diff]
  BY DEF ModifyBid
<1>11. payingReserve' \in [AuctionIds -> Nat]
  <2> HIDE DEF diff
  <2> QED BY <1>1, <1>6, <1>10 DEF TypeOK
<1>12. new \in Bid BY <1>1, <1>3 DEF Bid, Decimals
<1>13. bids' = [bids EXCEPT ![id] = [bids[id] EXCEPT ![k] = new]]
  BY DEF ModifyBid
<1>14. bids' \in [AuctionIds -> Seq(Bid)]
  <2> HIDE DEF new
  <2>1. [bids[id] EXCEPT ![k] = new] \in Seq(Bid) BY <1>2, <1>12, ExceptSeq
  <2> QED BY <1>1, <1>13, <2>1 DEF TypeOK
<1> QED BY <1>9, <1>11, <1>14 DEF ModifyBid, TypeOK, chain

\* A transfer into a reserve from outside the module keeps the types.
LEMMA TransferType ==
  ASSUME TypeOK, NEW id \in Ids, NEW u \in Users, NEW amount \in Transfers,
         TransferToReserve(id, u, amount)
  PROVE  TypeOK'
<1>1. id \in AuctionIds /\ amount \in Nat BY AuctionFacts, FundraisingAssumption
<1>2. ASSUME NEW d PROVE Coin(d, amount) \in Coins
  <2>1. [x \in Denoms |-> 0] \in Coins BY DEF Coins
  <2> QED BY <1>1, <2>1, CoinTypes
<1>3. balance' \in [Users -> Coins]
  <2>1. PICK d : HasCoins(u, Coin(d, amount)) /\ balance' = Debit(u, Coin(d, amount))
    BY DEF TransferToReserve
  <2>2. balance \in [Users -> Coins] BY DEF TypeOK
  <2> QED BY <1>2, <2>1, <2>2, DebitType
<1>4. /\ sellingReserve' \in [AuctionIds -> Nat]
      /\ payingReserve' \in [AuctionIds -> Nat]
      /\ vestingReserve' \in [AuctionIds -> Nat]
  <2>1. ASSUME NEW r \in [AuctionIds -> Nat]
        PROVE  [r EXCEPT ![id] = @ + amount] \in [AuctionIds -> Nat]
    BY <1>1
  <2>2. /\ sellingReserve \in [AuctionIds -> Nat]
        /\ payingReserve \in [AuctionIds -> Nat]
        /\ vestingReserve \in [AuctionIds -> Nat]
    BY DEF TypeOK
  <2>3. /\ \/ sellingReserve' = [sellingReserve EXCEPT ![id] = @ + amount]
           \/ sellingReserve' = sellingReserve
        /\ \/ payingReserve' = [payingReserve EXCEPT ![id] = @ + amount]
           \/ payingReserve' = payingReserve
        /\ \/ vestingReserve' = [vestingReserve EXCEPT ![id] = @ + amount]
           \/ vestingReserve' = vestingReserve
    BY DEF TransferToReserve
  <2> QED BY <2>1, <2>2, <2>3
<1> QED BY <1>3, <1>4 DEF TransferToReserve, TypeOK, chain, store

\* A governance change of the parameters keeps the types.
LEMMA ParamChangeType ==
  ASSUME TypeOK, NEW period \in ExtendedPeriods, ParamChange(period)
  PROVE  TypeOK'
BY FundraisingAssumption DEF ParamChange, TypeOK, store, accounts, reserves

\* The start of BeginBlocker's walk over the auctions keeps the types.
LEMMA BeginBlockType ==
  ASSUME TypeOK, NEW t \in blockTime..MaxTime, BeginBlock(t)
  PROVE  TypeOK'
<1>1. t \in Nat BY FundraisingAssumption DEF TypeOK, Time
<1>2. Len(auctions) \in Nat /\ (auctions # <<>> => Len(auctions) > 0)
  BY LenProperties, EmptySeq DEF TypeOK
<1>3. cursor' \in 0..Len(auctions) BY <1>2 DEF BeginBlock
<1> QED BY <1>1, <1>3 DEF BeginBlock, TypeOK, Time, store, accounts, reserves

\* Moving the walk on to the next auction keeps the types.
LEMMA VisitNextType ==
  ASSUME TypeOK, NEW id \in Ids, Visiting(id), VisitNext,
         Len(auctions') = Len(auctions)
  PROVE  /\ cursor' \in 0..Len(auctions')
         /\ blockTime' \in Time
         /\ extendedPeriod' \in Nat
BY LenProperties DEF TypeOK, Visiting, VisitNext, Ids

\* ExecuteStandByStatus keeps the types.
LEMMA StandByType ==
  ASSUME TypeOK, NEW id \in Ids, ExecuteStandByStatus(id)
  PROVE  TypeOK'
<1> DEFINE a == [auctions[id] EXCEPT !.status = "Started"]
<1>1. a \in Auction BY AuctionFacts DEF Auction, AuctionStatus
<1>2. auctions' = [auctions EXCEPT ![id] = a] BY DEF ExecuteStandByStatus
<1>3. auctions' \in Seq(Auction) /\ Len(auctions') = Len(auctions)
  <2> HIDE DEF a
  <2> QED BY <1>1, <1>2, AuctionUpdate
<1>4. /\ cursor' \in 0..Len(auctions')
      /\ blockTime' \in Time
      /\ extendedPeriod' \in Nat
  BY <1>3, VisitNextType DEF ExecuteStandByStatus
<1> QED BY <1>3, <1>4 DEF ExecuteStandByStatus, TypeOK, accounts, reserves

\* A visit that finds nothing due keeps the types.
LEMMA NothingDueType ==
  ASSUME TypeOK, NEW id \in Ids, NothingDue(id)
  PROVE  TypeOK'
<1>1. auctions' = auctions BY DEF NothingDue, store
<1>2. /\ cursor' \in 0..Len(auctions')
      /\ blockTime' \in Time
      /\ extendedPeriod' \in Nat
  BY <1>1, VisitNextType DEF NothingDue
<1> QED BY <1>2 DEF NothingDue, TypeOK, store, accounts, reserves

\* The refund and the allocation of a settlement arrive as coins, and what the
\* last vesting queue takes is a natural number: CanSettle is what AllocateSellingCoin,
\* RefundPayingCoin and ApplyVestingSchedules demand before they panic.
LEMMA SettleType ==
  ASSUME TypeOK, NEW id \in Ids, NEW allocation, NEW refund,
         Settle(id, allocation, refund)
  PROVE  /\ balance' \in [Users -> Coins]
         /\ communityPool' \in Coins
         /\ sellingReserve' \in [AuctionIds -> Nat]
         /\ payingReserve' \in [AuctionIds -> Nat]
         /\ vestingReserve' \in [AuctionIds -> Nat]
         /\ vestingQueues' \in [AuctionIds -> Seq(VestingQueue)]
         /\ auctions' \in Seq(Auction)
         /\ Len(auctions') = Len(auctions)
<1> DEFINE m == Msg(id)
           unsold == Unsold(id, allocation)
           raised == Raised(id, refund)
           vests == m.schedules # <<>>
           sells(u) == allocation[u] + AuctioneerShare(id, u, unsold)
           pays(u) == refund[u] + IF vests THEN 0
                                  ELSE AuctioneerShare(id, u, raised)
           received(u) == Plus(Coin(m.sellingDenom, sells(u)),
                               Coin(m.payingDenom, pays(u)))
           queues == NewVestingQueues(m.schedules, raised)
           a == [auctions[id] EXCEPT !.status = IF vests THEN "Vesting"
                                                ELSE "Finished"]
<1>1. id \in AuctionIds /\ auctions[id] \in Auction /\ m \in CreateMsg
  BY AuctionFacts
<1>2. allocation \in [Users -> Nat] /\ refund \in [Users -> Nat]
  BY DEF Settle, CanSettle
<1>3. unsold \in Nat /\ raised \in Nat
  <2>1. /\ Total(allocation) \in 0..sellingReserve[id]
        /\ Total(refund) \in 0..payingReserve[id]
    BY DEF Settle, CanSettle
  <2>2. sellingReserve[id] \in Nat /\ payingReserve[id] \in Nat
    BY <1>1 DEF TypeOK
  <2> QED BY <2>1, <2>2 DEF Unsold, Raised
<1>4. ASSUME NEW u \in Users PROVE received(u) \in Coins
  <2>1. sells(u) \in Nat
    <3> HIDE DEF unsold
    <3> QED BY <1>2, <1>3 DEF AuctioneerShare
  <2>2. pays(u) \in Nat
    <3> HIDE DEF raised, vests
    <3> QED BY <1>2, <1>3 DEF AuctioneerShare
  <2> HIDE DEF sells, pays, m
  <2>3. [d \in Denoms |-> 0] \in Coins BY DEF Coins
  <2> QED BY <2>1, <2>2, <2>3, CoinTypes
<1>5. balance' = [u \in Users |-> Plus(balance[u], received(u))]
  BY DEF Settle
<1>6. balance' \in [Users -> Coins]
  <2> HIDE DEF received
  <2>1. \A u \in Users : balance[u] \in Coins BY DEF TypeOK
  <2>2. ASSUME NEW u \in Users PROVE Plus(balance[u], received(u)) \in Coins
    BY <1>4, <2>1, CoinTypes
  <2> QED BY <1>5, <2>2
<1>7. queues \in Seq(VestingQueue)
  <2>1. m.schedules \in Seq(Schedule) BY <1>1 DEF CreateMsg
  <2>2. Len(m.schedules) \in Nat BY <2>1, LenProperties
  <2>3. ASSUME NEW i \in 1..Len(m.schedules)
        PROVE  m.schedules[i].releaseTime \in Time
    <3>1. m.schedules[i] \in Schedule BY <2>1, ElementOfSeq
    <3> HIDE DEF m
    <3> QED BY <3>1 DEF Schedule
  <2>4. \A i \in 1..Len(m.schedules) : queues[i].amount \in Nat
    BY DEF Settle, CanSettle
  <2>5. \A i \in 1..Len(m.schedules) :
          queues[i] = [amount |-> queues[i].amount,
                       releaseTime |-> m.schedules[i].releaseTime,
                       released |-> FALSE]
    BY DEF NewVestingQueues
  <2>6. queues = [i \in 1..Len(m.schedules) |-> queues[i]]
    BY DEF NewVestingQueues
  <2> HIDE DEF queues, m
  <2>7. ASSUME NEW i \in 1..Len(m.schedules) PROVE queues[i] \in VestingQueue
    <3>1. /\ queues[i].amount \in Nat
          /\ m.schedules[i].releaseTime \in Time
          /\ queues[i] = [amount |-> queues[i].amount,
                          releaseTime |-> m.schedules[i].releaseTime,
                          released |-> FALSE]
      BY <2>3, <2>4, <2>5
    <3>2. ASSUME NEW x \in Nat, NEW t \in Time
          PROVE  [amount |-> x, releaseTime |-> t, released |-> FALSE]
                   \in VestingQueue
      BY DEF VestingQueue
    <3>3. [amount |-> queues[i].amount,
           releaseTime |-> m.schedules[i].releaseTime,
           released |-> FALSE] \in VestingQueue
      BY <3>1, <3>2
    <3> QED BY <3>1, <3>3, Zenon
  <2>8. queues \in [1..Len(m.schedules) -> VestingQueue] BY <2>6, <2>7
  <2> QED BY <2>2, <2>8, FcnIsSeq
<1>8. vestingQueues' \in [AuctionIds -> Seq(VestingQueue)]
  <2>1. vestingQueues' = [vestingQueues EXCEPT ![id] = queues] BY DEF Settle
  <2> HIDE DEF queues
  <2> QED BY <1>1, <1>7, <2>1 DEF TypeOK
<1>9. auctions' \in Seq(Auction) /\ Len(auctions') = Len(auctions)
  <2>1. auctions' = [auctions EXCEPT ![id] = a] BY DEF Settle
  <2>2. a \in Auction
    <3> HIDE DEF vests
    <3> QED BY <1>1 DEF Auction, AuctionStatus
  <2> HIDE DEF a
  <2> QED BY <2>1, <2>2, AuctionUpdate
<1>10. vestingReserve' \in [AuctionIds -> Nat]
  <2>1. vestingReserve' = [vestingReserve EXCEPT ![id] =
          IF vests THEN vestingReserve[id] + raised ELSE vestingReserve[id]]
    BY DEF Settle
  <2> HIDE DEF raised, vests
  <2> QED BY <1>1, <1>3, <2>1 DEF TypeOK
<1>11. /\ sellingReserve' \in [AuctionIds -> Nat]
       /\ payingReserve' \in [AuctionIds -> Nat]
       /\ communityPool' \in Coins
  BY <1>1 DEF Settle, TypeOK
<1> QED BY <1>6, <1>8, <1>9, <1>10, <1>11

\* The matching marks bids and counts some of them (CalculateBatchAllocation).
LEMMA RecordMatchType ==
  ASSUME TypeOK, NEW id \in Ids, RecordMatch(id, BatchAllocation(id))
  PROVE  /\ bids' \in [AuctionIds -> Seq(Bid)]
         /\ matchedBidsLen' \in [AuctionIds -> Nat]
<1> DEFINE mInfo == BatchAllocation(id)
           book == bids[id]
           new == [k \in 1..Len(book) |->
                    [book[k] EXCEPT !.isMatched =
                       book[k].isMatched \/ k \in mInfo.matchedBids]]
<1>1. id \in AuctionIds BY AuctionFacts
<1>2. book \in Seq(Bid) /\ Len(book) \in Nat BY <1>1, LenProperties DEF TypeOK
<1>3. new \in Seq(Bid)
  <2> HIDE DEF mInfo
  <2>1. ASSUME NEW k \in 1..Len(book) PROVE new[k] \in Bid
    <3>1. book[k] \in Bid BY <1>2, ElementOfSeq
    <3> HIDE DEF book
    <3> QED BY <3>1 DEF Bid
  <2>2. new \in [1..Len(book) -> Bid] BY <2>1
  <2> HIDE DEF new
  <2> QED BY <1>2, <2>2, FcnIsSeq
<1>4. bids' = [bids EXCEPT ![id] = new] BY DEF RecordMatch
<1>5. bids' \in [AuctionIds -> Seq(Bid)]
  <2> HIDE DEF new
  <2> QED BY <1>1, <1>3, <1>4 DEF TypeOK
<1>6. mInfo.matchedLen \in Nat
  <2>1. PICK S : S \subseteq 1..Len(book) /\ mInfo.matchedLen = Cardinality(S)
    BY DEF BatchAllocation, CalculateBatchAllocation, MatchingInfo
  <2>2. IsFiniteSet(1..Len(book)) BY <1>2, FS_Interval
  <2>3. IsFiniteSet(S) BY <2>1, <2>2, FS_Subset
  <2> HIDE DEF mInfo
  <2> QED BY <2>1, <2>3, FS_CardinalityType
<1>7. matchedBidsLen' = [matchedBidsLen EXCEPT ![id] = mInfo.matchedLen]
  BY DEF RecordMatch
<1> HIDE DEF mInfo
<1> QED BY <1>1, <1>5, <1>6, <1>7 DEF TypeOK

\* CloseFixedPriceAuction keeps the types.
LEMMA CloseFixedType ==
  ASSUME TypeOK, NEW id \in Ids, CloseFixedPriceAuction(id)
  PROVE  TypeOK'
<1>1. Settle(id, FixedPriceAllocation(id), NoRefund)
  BY DEF CloseFixedPriceAuction
<1>2. /\ balance' \in [Users -> Coins]
      /\ communityPool' \in Coins
      /\ sellingReserve' \in [AuctionIds -> Nat]
      /\ payingReserve' \in [AuctionIds -> Nat]
      /\ vestingReserve' \in [AuctionIds -> Nat]
      /\ vestingQueues' \in [AuctionIds -> Seq(VestingQueue)]
      /\ auctions' \in Seq(Auction)
      /\ Len(auctions') = Len(auctions)
  BY <1>1, SettleType
<1>3. /\ cursor' \in 0..Len(auctions')
      /\ blockTime' \in Time
      /\ extendedPeriod' \in Nat
  BY <1>2, VisitNextType DEF CloseFixedPriceAuction
<1> QED BY <1>2, <1>3 DEF CloseFixedPriceAuction, TypeOK

\* CloseBatchAuction, when it finishes the auction, keeps the types.
LEMMA CloseBatchType ==
  ASSUME TypeOK, NEW id \in Ids, CloseBatchAuction(id)
  PROVE  TypeOK'
<1>1. /\ Settle(id, BatchAllocation(id).allocation, BatchAllocation(id).refund)
      /\ RecordMatch(id, BatchAllocation(id))
  BY DEF CloseBatchAuction
<1>2. /\ balance' \in [Users -> Coins]
      /\ communityPool' \in Coins
      /\ sellingReserve' \in [AuctionIds -> Nat]
      /\ payingReserve' \in [AuctionIds -> Nat]
      /\ vestingReserve' \in [AuctionIds -> Nat]
      /\ vestingQueues' \in [AuctionIds -> Seq(VestingQueue)]
      /\ auctions' \in Seq(Auction)
      /\ Len(auctions') = Len(auctions)
  BY <1>1, SettleType
<1>3. /\ bids' \in [AuctionIds -> Seq(Bid)]
      /\ matchedBidsLen' \in [AuctionIds -> Nat]
  BY <1>1, RecordMatchType
<1>4. /\ cursor' \in 0..Len(auctions')
      /\ blockTime' \in Time
      /\ extendedPeriod' \in Nat
  BY <1>2, VisitNextType DEF CloseBatchAuction, ClosingBatch
<1> QED BY <1>2, <1>3, <1>4 DEF CloseBatchAuction, TypeOK

\* ExtendRound, the other outcome of CloseBatchAuction, keeps the types.
LEMMA ExtendType ==
  ASSUME TypeOK, NEW id \in Ids, ExtendRound(id)
  PROVE  TypeOK'
<1> DEFINE ends == Append(auctions[id].endTimes, EndTime(id) + extendedPeriod)
           a == [auctions[id] EXCEPT !.endTimes = ends]
<1>1. id \in AuctionIds /\ auctions[id] \in Auction /\ EndTime(id) \in Nat
  BY AuctionFacts
<1>2. RecordMatch(id, BatchAllocation(id)) BY DEF ExtendRound
<1>3. /\ bids' \in [AuctionIds -> Seq(Bid)]
      /\ matchedBidsLen' \in [AuctionIds -> Nat]
  BY <1>2, RecordMatchType
<1>4. ends \in Seq(Time) \ {<<>>}
  <2>1. auctions[id].endTimes \in Seq(Time) BY <1>1 DEF Auction
  <2>2. EndTime(id) + extendedPeriod \in Time BY <1>1 DEF TypeOK, Time
  <2>3. ends \in Seq(Time) /\ Len(ends) = Len(auctions[id].endTimes) + 1
    BY <2>1, <2>2, AppendProperties
  <2>4. Len(auctions[id].endTimes) \in Nat BY <2>1, LenProperties
  <2> HIDE DEF ends
  <2>5. Len(ends) # 0 BY <2>3, <2>4
  <2> QED BY <2>3, <2>5, EmptySeq
<1>5. auctions' \in Seq(Auction) /\ Len(auctions') = Len(auctions)
  <2>1. auctions' = [auctions EXCEPT ![id] = a] BY DEF ExtendRound
  <2>2. a \in Auction
    <3> HIDE DEF ends
    <3> QED BY <1>1, <1>4 DEF Auction
  <2> HIDE DEF a
  <2> QED BY <2>1, <2>2, AuctionUpdate
<1>6. /\ cursor' \in 0..Len(auctions')
      /\ blockTime' \in Time
      /\ extendedPeriod' \in Nat
  BY <1>5, VisitNextType DEF ExtendRound, ClosingBatch
<1> QED BY <1>3, <1>5, <1>6 DEF ExtendRound, TypeOK, accounts, reserves

\* ReleaseVestingPayingCoin keeps the types.
LEMMA VestingType ==
  ASSUME TypeOK, NEW id \in Ids, ExecuteVestingStatus(id)
  PROVE  TypeOK'
<1> DEFINE queues == vestingQueues[id]
           n == Len(queues)
           c == Coin(Msg(id).payingDenom, ReleasedAmount(id))
           new == [i \in 1..n |-> [queues[i] EXCEPT !.released =
                     queues[i].released \/ ShouldRelease(queues[i])]]
           s == IF ShouldRelease(queues[n]) THEN "Finished"
                ELSE auctions[id].status
           a == [auctions[id] EXCEPT !.status = s]
<1>1. id \in AuctionIds /\ auctions[id] \in Auction /\ Msg(id) \in CreateMsg
  BY AuctionFacts
<1>2. queues \in Seq(VestingQueue) /\ n \in Nat
  BY <1>1, LenProperties DEF TypeOK
<1>3. ReleasedAmount(id) \in Nat /\ ReleasedAmount(id) <= vestingReserve[id]
  <2>1. ReleasedAmount(id) \in 0..vestingReserve[id]
    BY DEF ExecuteVestingStatus, CanRelease
  <2>2. vestingReserve[id] \in Nat BY <1>1 DEF TypeOK
  <2> QED BY <2>1, <2>2
<1>4. balance' \in [Users -> Coins]
  <2>1. [d \in Denoms |-> 0] \in Coins BY DEF Coins
  <2>2. c \in Coins BY <1>3, <2>1, CoinTypes
  <2>3. balance' = Credit(Msg(id).auctioneer, c) BY DEF ExecuteVestingStatus
  <2>4. Msg(id).auctioneer \in Users BY <1>1 DEF CreateMsg
  <2>5. balance \in [Users -> Coins] BY DEF TypeOK
  <2> HIDE DEF c
  <2> QED BY <2>2, <2>3, <2>4, <2>5, CreditType
<1>5. vestingReserve' \in [AuctionIds -> Nat]
  <2>1. vestingReserve' = [vestingReserve EXCEPT ![id] =
                             vestingReserve[id] - ReleasedAmount(id)]
    BY DEF ExecuteVestingStatus
  <2> QED BY <1>1, <1>3, <2>1 DEF TypeOK
<1>6. vestingQueues' \in [AuctionIds -> Seq(VestingQueue)]
  <2>1. vestingQueues' = [vestingQueues EXCEPT ![id] = new]
    BY DEF ExecuteVestingStatus
  <2>2. ASSUME NEW i \in 1..n PROVE new[i] \in VestingQueue
    <3>1. queues[i] \in VestingQueue BY <1>2, ElementOfSeq
    <3>2. ShouldRelease(queues[i]) \in BOOLEAN BY DEF ShouldRelease
    <3> HIDE DEF queues
    <3> QED BY <3>1, <3>2 DEF VestingQueue
  <2>3. new \in [1..n -> VestingQueue] BY <2>2
  <2> HIDE DEF new, n
  <2>4. new \in Seq(VestingQueue) BY <1>2, <2>3, FcnIsSeq
  <2> QED BY <1>1, <2>1, <2>4 DEF TypeOK
<1>7. auctions' \in Seq(Auction) /\ Len(auctions') = Len(auctions)
  <2>1. auctions' = [auctions EXCEPT ![id] = a] BY DEF ExecuteVestingStatus
  <2>2. s \in AuctionStatus BY <1>1 DEF Auction, AuctionStatus
  <2> HIDE DEF s
  <2>3. a \in Auction BY <1>1, <2>2 DEF Auction
  <2> HIDE DEF a
  <2> QED BY <2>1, <2>3, AuctionUpdate
<1>8. /\ cursor' \in 0..Len(auctions')
      /\ blockTime' \in Time
      /\ extendedPeriod' \in Nat
  BY <1>7, VisitNextType DEF ExecuteVestingStatus
<1> QED BY <1>4, <1>5, <1>6, <1>7, <1>8 DEF ExecuteVestingStatus, TypeOK

\* No step of the keeper leaves the types: in particular no balance, reserve,
\* remaining amount or vesting queue ever becomes negative.
LEMMA NextType == TypeOK /\ [Next]_vars => TypeOK'
<1> SUFFICES ASSUME TypeOK, [Next]_vars PROVE TypeOK' OBVIOUS
<1>1. CASE UNCHANGED vars
  BY <1>1 DEF TypeOK, vars, chain, store, accounts, reserves
<1>2. CASE Deliver
  <2>1. ASSUME NEW m \in CreateMsgs,
               CreateFixedPriceAuction(m) \/ CreateBatchAuction(m)
        PROVE  TypeOK'
    BY <2>1, CreateType DEF CreateFixedPriceAuction, CreateBatchAuction
  <2>2. ASSUME NEW period \in ExtendedPeriods, ParamChange(period)
        PROVE  TypeOK'
    BY <2>2, ParamChangeType
  <2> QED BY <1>2, <2>1, <2>2, CancelType, AddAllowedType, UpdateAllowedType,
             PlaceFixedType, PlaceBatchType, ModifyType, TransferType
          DEF Deliver
<1>3. CASE BeginBlocker
  BY <1>3, StandByType, CloseFixedType, CloseBatchType, ExtendType,
     VestingType, NothingDueType DEF BeginBlocker
<1>4. CASE NewBlock BY <1>4, BeginBlockType DEF NewBlock
<1> QED BY <1>1, <1>2, <1>3, <1>4 DEF Next

\* Every reachable state is well typed, for any accounts, denominations, prices,
\* amounts, fees and bounds: what an account or a reserve holds, what a fixed
\* price auction has left to sell (RemainingSellingCoin) and what a modified bid
\* reserves in addition never become negative.
THEOREM TypeCorrect == Spec => []TypeOK
<1>1. Init => TypeOK BY InitType
<1>2. TypeOK /\ [Next]_vars => TypeOK' BY NextType
<1> QED BY <1>1, <1>2, PTL DEF Spec

-----------------------------------------------------------------------------
(***************************************************************************)
(* Extended rounds.                                                        *)
(***************************************************************************)

\* No auction changes its message or its end times.
KeepsRounds ==
  /\ Len(auctions') = Len(auctions)
  /\ \A id \in Ids : /\ auctions'[id].msg = auctions[id].msg
                     /\ auctions'[id].endTimes = auctions[id].endTimes

\* What RoundsBounded says of one auction.
RoundsOf(a) ==
  /\ Len(a.endTimes) \in
       1..(1 + IF a.msg.type = "Batch" THEN a.msg.maxExtendedRound ELSE 0)
  /\ \A i \in 1..(Len(a.endTimes) - 1) : a.endTimes[i] <= a.endTimes[i + 1]

\* The bound on rounds can be established auction by auction.
LEMMA RoundsByAuction == RoundsBounded <=> \A id \in Ids : RoundsOf(auctions[id])
BY DEF RoundsBounded, RoundsOf, Batch, Msg

\* Setting the status and the remaining amount of an auction changes neither.
LEMMA UpdateKeepsRounds ==
  ASSUME TypeOK, NEW id \in Ids, NEW s \in AuctionStatus, NEW r \in Nat,
         auctions' = [auctions EXCEPT ![id] =
                        [auctions[id] EXCEPT !.status = s, !.remaining = r]]
  PROVE  KeepsRounds
<1> DEFINE a == [auctions[id] EXCEPT !.status = s, !.remaining = r]
<1>1. auctions[id] \in Auction BY AuctionFacts
<1>2. /\ a \in Auction
      /\ a.msg = auctions[id].msg
      /\ a.endTimes = auctions[id].endTimes
  BY <1>1 DEF Auction
<1>3. auctions' = [auctions EXCEPT ![id] = a] OBVIOUS
<1> HIDE DEF a
<1>4. Len(auctions') = Len(auctions) BY <1>2, <1>3, AuctionUpdate
<1>5. auctions \in Seq(Auction) /\ DOMAIN auctions = Ids
  BY LenProperties DEF TypeOK, Ids
<1>6. \A j \in Ids : auctions'[j] = IF j = id THEN a ELSE auctions[j]
  BY <1>3, <1>5
<1> QED BY <1>2, <1>4, <1>6 DEF KeepsRounds

\* Of all steps only the two creations and ExtendRound touch end times.
LEMMA OnlyExtendRoundExtends ==
  ASSUME TypeOK, TypeOK', [Next]_vars
  PROVE  \/ KeepsRounds
         \/ \E m \in CreateMsgs : CreateAuction(m)
         \/ \E id \in Ids : ExtendRound(id)
<1>1. CASE auctions' = auctions BY <1>1 DEF KeepsRounds
<1>2. ASSUME NEW id \in Ids
      PROVE  /\ auctions[id] \in Auction
             /\ auctions[id].status \in AuctionStatus
             /\ auctions[id].remaining \in Nat
  BY AuctionFacts DEF Auction
<1>3. ASSUME NEW id \in Ids, NEW u \in Users, CancelAuction(id, u)
      PROVE  KeepsRounds
  <2>1. auctions' = [auctions EXCEPT ![id] =
          [auctions[id] EXCEPT !.status = "Cancelled", !.remaining = 0]]
    BY <1>3 DEF CancelAuction
  <2> QED BY <2>1, UpdateKeepsRounds DEF AuctionStatus
<1>4. ASSUME NEW id \in Ids, NEW bid \in BidMsg, PlaceFixedPriceBid(id, bid)
      PROVE  KeepsRounds
  <2>1. auctions' = [auctions EXCEPT ![id] =
          [auctions[id] EXCEPT !.status = auctions[id].status,
                               !.remaining = RemainingAfter(id, bid)]]
    BY <1>2, <1>4 DEF PlaceFixedPriceBid, Auction
  <2>2. RemainingAfter(id, bid) \in Nat
    <3>1. auctions'[id].remaining = RemainingAfter(id, bid)
      BY <1>2, <2>1, LenProperties DEF TypeOK, Auction, Ids
    <3>2. Len(auctions') = Len(auctions)
      BY <2>1, LenProperties DEF TypeOK
    <3>3. auctions'[id] \in Auction
      BY <3>2, ElementOfSeq DEF TypeOK, Ids
    <3> QED BY <3>1, <3>3 DEF Auction
  <2> QED BY <1>2, <2>1, <2>2, UpdateKeepsRounds
<1>5. ASSUME NEW id \in Ids, NEW s \in AuctionStatus,
             auctions' = [auctions EXCEPT ![id].status = s]
      PROVE  KeepsRounds
  <2>1. auctions' = [auctions EXCEPT ![id] =
          [auctions[id] EXCEPT !.status = s,
                               !.remaining = auctions[id].remaining]]
    BY <1>2, <1>5 DEF Auction
  <2> QED BY <1>2, <2>1, UpdateKeepsRounds
<1>6. ASSUME NEW id \in Ids, NEW allocation, NEW refund,
             Settle(id, allocation, refund)
      PROVE  KeepsRounds
  <2>1. \E s \in {"Vesting", "Finished"} :
          auctions' = [auctions EXCEPT ![id].status = s]
    BY <1>6 DEF Settle
  <2> QED BY <1>5, <2>1 DEF AuctionStatus
<1>7. ASSUME NEW id \in Ids, ExecuteVestingStatus(id)
      PROVE  KeepsRounds
  <2>1. \E s \in {"Finished", auctions[id].status} :
          auctions' = [auctions EXCEPT ![id].status = s]
    BY <1>7 DEF ExecuteVestingStatus
  <2> QED BY <1>2, <1>5, <2>1 DEF AuctionStatus
<1>8. CASE UNCHANGED vars BY <1>1, <1>8 DEF vars, store
<1>9. CASE Deliver
  <2>1. ASSUME NEW m \in CreateMsgs,
               CreateFixedPriceAuction(m) \/ CreateBatchAuction(m)
        PROVE  CreateAuction(m)
    BY <2>1 DEF CreateFixedPriceAuction, CreateBatchAuction
  <2>2. ASSUME NEW id, NEW list, AddAllowedBidders(id, list)
        PROVE  auctions' = auctions
    BY <2>2 DEF AddAllowedBidders
  <2>3. ASSUME NEW id, NEW u, NEW max, UpdateAllowedBidder(id, u, max)
        PROVE  auctions' = auctions
    BY <2>3 DEF UpdateAllowedBidder
  <2>4. ASSUME NEW id, NEW bid,
               PlaceBatchWorthBid(id, bid) \/ PlaceBatchManyBid(id, bid)
        PROVE  auctions' = auctions
    BY <2>4 DEF PlaceBatchWorthBid, PlaceBatchManyBid
  <2>5. ASSUME NEW id, NEW k, NEW u, NEW price, NEW denom, NEW amount,
               ModifyBid(id, k, u, price, denom, amount)
        PROVE  auctions' = auctions
    BY <2>5 DEF ModifyBid
  <2>6. ASSUME NEW id, NEW u, NEW amount, TransferToReserve(id, u, amount)
        PROVE  auctions' = auctions
    BY <2>6 DEF TransferToReserve, store
  <2>7. ASSUME NEW period, ParamChange(period)
        PROVE  auctions' = auctions
    BY <2>7 DEF ParamChange, store
  <2> QED BY <1>1, <1>3, <1>4, <1>9, <2>1, <2>2, <2>3, <2>4, <2>5, <2>6, <2>7
          DEF Deliver
<1>10. CASE BeginBlocker
  <2>1. PICK id \in Ids :
          \/ ExecuteStandByStatus(id)
          \/ CloseFixedPriceAuction(id)
          \/ CloseBatchAuction(id)
          \/ ExtendRound(id)
          \/ ExecuteVestingStatus(id)
          \/ NothingDue(id)
    BY <1>10 DEF BeginBlocker
  <2>2. CASE ExecuteStandByStatus(id)
    BY <1>5, <2>2 DEF ExecuteStandByStatus, AuctionStatus
  <2>3. CASE CloseFixedPriceAuction(id)
    BY <1>6, <2>3 DEF CloseFixedPriceAuction
  <2>4. CASE CloseBatchAuction(id)
    BY <1>6, <2>4 DEF CloseBatchAuction
  <2>5. CASE NothingDue(id) BY <1>1, <2>5 DEF NothingDue, store
  <2> QED BY <1>7, <2>1, <2>2, <2>3, <2>4, <2>5
<1>11. CASE NewBlock BY <1>1, <1>11 DEF NewBlock, BeginBlock, store
<1> QED BY <1>8, <1>9, <1>10, <1>11 DEF Next

\* A new auction has one round, and the check that RoundsAreOver makes before
\* ExtendRound (CloseBatchAuction) keeps the number of rounds bounded.
LEMMA RoundsStep ==
  ASSUME TypeOK, TypeOK', RoundsBounded, [Next]_vars
  PROVE  RoundsBounded'
<1> SUFFICES \A id \in Ids' : RoundsOf(auctions'[id])
  BY DEF RoundsBounded, RoundsOf, Batch, Msg
<1>1. \A id \in Ids : RoundsOf(auctions[id]) BY RoundsByAuction
<1>2. auctions \in Seq(Auction) /\ Len(auctions) \in Nat
  BY LenProperties DEF TypeOK
<1>3. CASE KeepsRounds BY <1>1, <1>3 DEF KeepsRounds, Ids, RoundsOf
<1>4. ASSUME NEW m \in CreateMsgs, CreateAuction(m)
      PROVE  \A id \in Ids' : RoundsOf(auctions'[id])
  <2> DEFINE a == NewAuction(m)
  <2>1. m \in CreateMsg BY FundraisingAssumption
  <2>2. a.endTimes = <<m.endTime>> /\ a.msg = m BY DEF NewAuction
  <2>3. RoundsOf(a)
    <3>1. m.maxExtendedRound \in Nat BY <2>1 DEF CreateMsg
    <3>2. Len(a.endTimes) = 1 BY <2>2
    <3> HIDE DEF a
    <3> QED BY <2>2, <3>1, <3>2 DEF RoundsOf
  <2>4. auctions' = Append(auctions, a) BY <1>4 DEF CreateAuction
  <2> HIDE DEF a
  <2>5. \A id \in Ids' : auctions'[id] = IF id \in Ids THEN auctions[id] ELSE a
    BY <1>2, <2>4, AppendProperties DEF Ids
  <2> QED BY <1>1, <2>3, <2>5
<1>5. ASSUME NEW id \in Ids, ExtendRound(id)
      PROVE  \A j \in Ids' : RoundsOf(auctions'[j])
  <2> DEFINE old == auctions[id].endTimes
             ends == Append(old, EndTime(id) + extendedPeriod)
             a == [auctions[id] EXCEPT !.endTimes = ends]
  <2>1. /\ auctions[id] \in Auction
        /\ EndTime(id) \in Nat
        /\ Len(old) \in Nat \ {0}
        /\ EndTime(id) = old[Len(old)]
        /\ extendedPeriod \in Nat
    BY AuctionFacts DEF EndTime, TypeOK
  <2>2. old \in Seq(Time) /\ \A i \in 1..Len(old) : old[i] \in Nat
    BY <2>1, ElementOfSeq DEF Auction, Time
  <2>3. auctions' = [auctions EXCEPT ![id] = a] BY <1>5 DEF ExtendRound
  <2>4. \A j \in Ids' : auctions'[j] = IF j = id THEN a ELSE auctions[j]
    <3> HIDE DEF a
    <3>1. DOMAIN auctions = Ids /\ DOMAIN auctions' = Ids'
      BY LenProperties DEF TypeOK, Ids
    <3> QED BY <2>3, <3>1
  <2>5. Ids' = Ids
    <3> HIDE DEF a
    <3>1. DOMAIN auctions = Ids /\ DOMAIN auctions' = Ids'
      BY LenProperties DEF TypeOK, Ids
    <3> QED BY <2>3, <3>1
  <2>6. a.endTimes = ends /\ a.msg = auctions[id].msg
    <3> HIDE DEF ends
    <3> QED BY <2>1 DEF Auction
  <2>7. /\ Len(ends) = Len(old) + 1
        /\ \A i \in 1..Len(old) : ends[i] = old[i]
        /\ ends[Len(old) + 1] = EndTime(id) + extendedPeriod
    <3>1. EndTime(id) + extendedPeriod \in Time BY <2>1 DEF Time
    <3> QED BY <2>2, <3>1, AppendProperties
  <2>8. /\ auctions[id].msg.type = "Batch"
        /\ auctions[id].msg.maxExtendedRound + 1 # Len(old)
    BY <1>5 DEF ExtendRound, ClosingBatch, RoundsAreOver, Msg
  <2>9. auctions[id].msg.maxExtendedRound \in Nat
    BY <2>1 DEF Auction, CreateMsg
  <2>10. /\ Len(old) <= 1 + auctions[id].msg.maxExtendedRound
         /\ \A i \in 1..(Len(old) - 1) : old[i] <= old[i + 1]
    BY <1>1, <2>8 DEF RoundsOf
  <2>11. RoundsOf(a)
    <3> HIDE DEF a, ends, old
    <3>1. Len(ends) \in 1..(1 + auctions[id].msg.maxExtendedRound)
      BY <2>1, <2>7, <2>8, <2>9, <2>10
    <3>2. ASSUME NEW i \in 1..(Len(ends) - 1) PROVE ends[i] <= ends[i + 1]
      <4>1. CASE i < Len(old) BY <2>1, <2>2, <2>7, <2>10, <4>1
      <4>2. CASE i = Len(old) BY <2>1, <2>2, <2>7, <4>2
      <4> QED BY <2>1, <2>7, <4>1, <4>2
    <3> QED BY <2>6, <2>8, <3>1, <3>2 DEF RoundsOf
  <2> HIDE DEF a
  <2> QED BY <1>1, <2>4, <2>5, <2>11
<1> QED BY <1>3, <1>4, <1>5, OnlyExtendRoundExtends

\* CloseBatchAuction compares MaxExtendedRound + 1 with the number of end times
\* by equality, not by order.  The equality is never jumped over: no auction ever
\* has more than MaxExtendedRound extended rounds, whatever the bids and however
\* governance changes ExtendedPeriod, and its end times never go backwards.
THEOREM RoundsAreBounded == Spec => []RoundsBounded
<1>1. Init => RoundsBounded
  <2>1. Init => Ids = {} BY EmptySeq DEF Init, Ids
  <2> QED BY <2>1 DEF RoundsBounded
<1>2. TypeOK /\ TypeOK' /\ RoundsBounded /\ [Next]_vars => RoundsBounded'
  BY RoundsStep
<1> QED BY <1>1, <1>2, TypeCorrect, PTL DEF Spec

-----------------------------------------------------------------------------
(***************************************************************************)
(* The book of bids.                                                       *)
(***************************************************************************)

\* A bid is as good as itself.
LEMMA ImprovesItself ==
  ASSUME NEW bid \in Bid
  PROVE  Improves(bid, bid)
BY DEF Improves, Bid, Decimals

\* A book that does not change improves.
LEMMA SameBookImproves ==
  ASSUME TypeOK, NEW id \in Ids, bids'[id] = bids[id]
  PROVE  BookImproves(id)
<1>1. bids[id] \in Seq(Bid) BY AuctionFacts DEF TypeOK
<1>2. Len(bids[id]) \in Nat BY <1>1, LenProperties
<1>3. \A k \in 1..Len(bids[id]) : Improves(bids[id][k], bids[id][k])
  BY <1>1, ElementOfSeq, ImprovesItself
<1> QED BY <1>2, <1>3 DEF BookImproves

\* A step that changes one book of an auction that takes bids improves all
\* books if it improves that one.
LEMMA OneBookImproves ==
  ASSUME TypeOK, NEW id \in Ids, NEW book, Status(id) = "Started",
         bids' = [bids EXCEPT ![id] = book],
         Len(book) >= Len(bids[id]),
         \A k \in 1..Len(bids[id]) : Improves(bids[id][k], book[k])
  PROVE  \A j \in Ids : BookImproves(j)
<1>1. \A j \in Ids : j \in AuctionIds BY AuctionFacts
<1>2. bids'[id] = book /\ \A j \in Ids \ {id} : bids'[j] = bids[j]
  BY <1>1 DEF TypeOK
<1>3. BookImproves(id) BY <1>2 DEF BookImproves, Settled
<1> QED BY <1>2, <1>3, SameBookImproves

\* PlaceBid appends to the book.
LEMMA StoredBidImproves ==
  ASSUME TypeOK, NEW id \in Ids, NEW bid \in Bid, NEW amt,
         Status(id) = "Started", ReserveAndStore(id, bid, amt)
  PROVE  \A j \in Ids : BookImproves(j)
<1> DEFINE book == Append(bids[id], bid)
<1>1. bids[id] \in Seq(Bid) BY AuctionFacts DEF TypeOK
<1>2. Len(bids[id]) \in Nat BY <1>1, LenProperties
<1>3. /\ Len(book) = Len(bids[id]) + 1
      /\ \A k \in 1..Len(bids[id]) : book[k] = bids[id][k]
  BY <1>1, AppendProperties
<1>4. \A k \in 1..Len(bids[id]) : Improves(bids[id][k], bids[id][k])
  BY <1>1, ElementOfSeq, ImprovesItself
<1>5. bids' = [bids EXCEPT ![id] = book] BY DEF ReserveAndStore
<1> HIDE DEF book
<1>6. \A k \in 1..Len(bids[id]) : Improves(bids[id][k], book[k])
  BY <1>3, <1>4
<1>7. Len(book) >= Len(bids[id]) BY <1>2, <1>3
<1> QED BY <1>5, <1>6, <1>7, OneBookImproves

\* ModifyBid lowers neither the price nor the amount.
LEMMA ModifiedBidImproves ==
  ASSUME TypeOK, NEW id \in Ids, NEW k \in 1..Len(bids[id]), NEW u \in Users,
         NEW price \in Prices, NEW denom \in Denoms, NEW amount \in Amounts,
         ModifyBid(id, k, u, price, denom, amount)
  PROVE  \A j \in Ids : BookImproves(j)
<1> DEFINE new == [bids[id][k] EXCEPT !.price = price, !.amount = amount]
           book == [bids[id] EXCEPT ![k] = new]
<1>1. bids[id] \in Seq(Bid) BY AuctionFacts DEF TypeOK
<1>2. /\ Len(bids[id]) \in Nat
      /\ \A i \in 1..Len(bids[id]) : bids[id][i] \in Bid
      /\ DOMAIN bids[id] = 1..Len(bids[id])
  BY <1>1, LenProperties, ElementOfSeq
<1>3. price >= bids[id][k].price /\ amount >= bids[id][k].amount
  BY DEF ModifyBid, NotLowered
<1>4. new \in Bid /\ Improves(bids[id][k], new)
  <2>1. price \in Nat /\ amount \in Nat BY FundraisingAssumption DEF Decimals
  <2>2. bids[id][k] \in Bid BY <1>2
  <2> QED BY <1>3, <2>1, <2>2 DEF Improves, Bid, Decimals
<1>5. bids' = [bids EXCEPT ![id] = book] BY DEF ModifyBid
<1> HIDE DEF new
<1>6. Len(book) = Len(bids[id]) BY <1>1, <1>4, ExceptSeq
<1>7. ASSUME NEW i \in 1..Len(bids[id]) PROVE Improves(bids[id][i], book[i])
  BY <1>2, <1>4, ImprovesItself
<1>8. Status(id) = "Started" BY DEF ModifyBid
<1> HIDE DEF book
<1>9. Len(book) >= Len(bids[id]) BY <1>2, <1>6
<1> QED BY <1>5, <1>7, <1>8, <1>9, OneBookImproves

\* The matching at the end of a round changes nothing but marks.
LEMMA MatchedBookImproves ==
  ASSUME TypeOK, NEW id \in Ids, Status(id) = "Started",
         RecordMatch(id, BatchAllocation(id))
  PROVE  \A j \in Ids : BookImproves(j)
<1> DEFINE matched == BatchAllocation(id).matchedBids
           book == [k \in 1..Len(bids[id]) |->
                     [bids[id][k] EXCEPT !.isMatched =
                        bids[id][k].isMatched \/ k \in matched]]
<1>1. bids[id] \in Seq(Bid) BY AuctionFacts DEF TypeOK
<1>2. /\ Len(bids[id]) \in Nat
      /\ \A i \in 1..Len(bids[id]) : bids[id][i] \in Bid
  BY <1>1, LenProperties, ElementOfSeq
<1>3. bids' = [bids EXCEPT ![id] = book] BY DEF RecordMatch
<1> HIDE DEF matched
<1>4. ASSUME NEW i \in 1..Len(bids[id])
      PROVE  Improves(bids[id][i], book[i]) /\ book[i] \in Bid
  <2> DEFINE b == bids[id][i]
             mark == b.isMatched \/ i \in matched
  <2>1. b \in Bid BY <1>2
  <2>2. mark \in BOOLEAN BY <2>1 DEF Bid
  <2>3. book[i] = [b EXCEPT !.isMatched = mark] OBVIOUS
  <2> HIDE DEF b, mark, book
  <2>4. book[i] \in Bid BY <2>1, <2>2, <2>3 DEF Bid
  <2>5. /\ book[i].price >= b.price
        /\ book[i].amount >= b.amount
        /\ book[i].bidder = b.bidder
        /\ book[i].type = b.type
        /\ book[i].denom = b.denom
    BY <2>1, <2>3 DEF Bid, Decimals
  <2>6. Improves(b, book[i]) BY <2>5, Zenon DEF Improves
  <2> QED BY <2>4, <2>6 DEF b
<1>5. book \in [1..Len(bids[id]) -> Bid] BY <1>4
<1> HIDE DEF book
<1>6. Len(book) = Len(bids[id]) BY <1>2, <1>5, FcnIsSeq
<1>7. Len(book) >= Len(bids[id]) BY <1>2, <1>6
<1> QED BY <1>3, <1>4, <1>7, OneBookImproves

\* Every step of the keeper improves the books.
LEMMA BookStep ==
  ASSUME TypeOK, [Next]_vars
  PROVE  [\A id \in Ids : BookImproves(id)]_vars
<1>1. CASE bids' = bids BY <1>1, SameBookImproves
<1>2. CASE UNCHANGED vars BY <1>2
<1>3. CASE Deliver
  <2>1. ASSUME NEW m \in CreateMsgs,
               CreateFixedPriceAuction(m) \/ CreateBatchAuction(m)
        PROVE  bids' = bids
    BY <2>1 DEF CreateFixedPriceAuction, CreateBatchAuction, CreateAuction
  <2>2. ASSUME NEW id, NEW u, CancelAuction(id, u)
        PROVE  bids' = bids
    BY <2>2 DEF CancelAuction
  <2>3. ASSUME NEW id, NEW list, AddAllowedBidders(id, list)
        PROVE  bids' = bids
    BY <2>3 DEF AddAllowedBidders
  <2>4. ASSUME NEW id, NEW u, NEW max, UpdateAllowedBidder(id, u, max)
        PROVE  bids' = bids
    BY <2>4 DEF UpdateAllowedBidder
  <2>5. ASSUME NEW id \in Ids, NEW bid \in BidMsg,
               \/ PlaceFixedPriceBid(id, bid)
               \/ PlaceBatchWorthBid(id, bid)
               \/ PlaceBatchManyBid(id, bid)
        PROVE  \A j \in Ids : BookImproves(j)
    <3>1. PICK b \in {bid, [bid EXCEPT !.isMatched = TRUE]} :
            \E amt : ReserveAndStore(id, b, amt)
      BY <2>5 DEF PlaceFixedPriceBid, PlaceBatchWorthBid, PlaceBatchManyBid
    <3>2. b \in Bid BY BidMsgType
    <3>3. Status(id) = "Started"
      BY <2>5 DEF PlaceFixedPriceBid, PlaceBatchWorthBid, PlaceBatchManyBid,
                  MayPlaceBid
    <3> QED BY <3>1, <3>2, <3>3, StoredBidImproves
  <2>6. ASSUME NEW id, NEW u, NEW amount, TransferToReserve(id, u, amount)
        PROVE  bids' = bids
    BY <2>6 DEF TransferToReserve, store
  <2>7. ASSUME NEW period, ParamChange(period)
        PROVE  bids' = bids
    BY <2>7 DEF ParamChange, store
  <2> QED BY <1>1, <1>3, <2>1, <2>2, <2>3, <2>4, <2>5, <2>6, <2>7,
             ModifiedBidImproves DEF Deliver
<1>4. CASE BeginBlocker
  <2>1. PICK id \in Ids :
          \/ ExecuteStandByStatus(id)
          \/ CloseFixedPriceAuction(id)
          \/ CloseBatchAuction(id)
          \/ ExtendRound(id)
          \/ ExecuteVestingStatus(id)
          \/ NothingDue(id)
    BY <1>4 DEF BeginBlocker
  <2>2. CASE CloseBatchAuction(id) \/ ExtendRound(id)
    BY <2>2, MatchedBookImproves
       DEF CloseBatchAuction, ExtendRound, ClosingBatch
  <2>3. CASE ExecuteStandByStatus(id) BY <1>1, <2>3 DEF ExecuteStandByStatus
  <2>4. CASE CloseFixedPriceAuction(id)
    BY <1>1, <2>4 DEF CloseFixedPriceAuction
  <2>5. CASE ExecuteVestingStatus(id) BY <1>1, <2>5 DEF ExecuteVestingStatus
  <2>6. CASE NothingDue(id) BY <1>1, <2>6 DEF NothingDue, store
  <2> QED BY <2>1, <2>2, <2>3, <2>4, <2>5, <2>6
<1>5. CASE NewBlock BY <1>1, <1>5 DEF NewBlock, BeginBlock, store
<1> QED BY <1>2, <1>3, <1>4, <1>5 DEF Next

\* The book of an auction only ever gets better for the auctioneer: whatever the
\* interleaving of PlaceBid, ModifyBid and the matching of ended rounds, no bid
\* is lost, lowered or handed over, and a settled book is final.
THEOREM BidsOnlyEverImprove == Spec => BidsOnlyImprove
<1>1. TypeOK /\ [Next]_vars => [\A id \in Ids : BookImproves(id)]_vars
  BY BookStep
<1> QED BY <1>1, TypeCorrect, PTL DEF Spec, BidsOnlyImprove
=============================================================================
