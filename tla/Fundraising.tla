---------------------------- MODULE Fundraising ----------------------------
(***************************************************************************)
(* The keeper of the fundraising module (x/fundraising/keeper) as a state  *)
(* machine: the store it keeps, the bank accounts it moves coins between,  *)
(* one action per message handler or keeper function that another module   *)
(* calls, and the BeginBlocker, which visits the auctions one by one at    *)
(* the start of every block.                                               *)
(*                                                                         *)
(* A message that returns an error (or panics) is rolled back by the       *)
(* transaction that carries it, so that a failing message changes nothing  *)
(* and is no step of this specification: the conditions under which a      *)
(* handler returns early are the guards of its action.  The BeginBlocker   *)
(* is not rolled back: where the code would panic there, the chain halts,  *)
(* and the specification has no step (see CanSettle and CanRelease).       *)
(***************************************************************************)
EXTENDS Matching, FiniteSetsExt

CONSTANTS
  Users,                  \* accounts: auctioneers and bidders
  Denoms,                 \* coin denominations
  InitialBalance,         \* what every account owns in the beginning
  CreateMsgs,             \* the creation messages that may be sent
  Prices, Amounts,        \* prices and coin amounts of bid messages
  AllowedBidderLists,     \* arguments of AddAllowedBidders
  MaxBidAmounts,          \* arguments of UpdateAllowedBidder
  Transfers,              \* amounts of bank transfers to reserve accounts
  AuctionCreationFee,     \* params.AuctionCreationFee
  PlaceBidFee,            \* params.PlaceBidFee
  ExtendedPeriods,        \* the values params.ExtendedPeriod may be given
  MaxNumVestingSchedules, \* types.MaxNumVestingSchedules (100)
  MaxExtendedRound,       \* types.MaxExtendedRound (30)
  MaxAuctions,            \* bound: number of auctions
  MaxBids,                \* bound: number of bids of an auction
  MaxTime                 \* bound: the last block time

Time == Nat
Coins == [Denoms -> Nat]
AuctionIds == 1..MaxAuctions
Schedule == [releaseTime : Time, weight : Decimals]

CreateMsg ==
  [type : {"FixedPrice", "Batch"}, auctioneer : Users,
   startPrice : Decimals, minBidPrice : Decimals,
   sellingDenom : Denoms, sellingAmt : Nat, payingDenom : Denoms,
   schedules : Seq(Schedule), maxExtendedRound : Nat,
   extendedRoundRate : Decimals, startTime : Time, endTime : Time]

AllowedBidder == [bidder : Users, maxBidAmount : Nat]

ASSUME FundraisingAssumption ==
  /\ IsFiniteSet(Users)
  /\ InitialBalance \in [Users -> Coins]
  /\ CreateMsgs \subseteq CreateMsg
  /\ Prices \subseteq Decimals
  /\ Amounts \subseteq Nat
  /\ AllowedBidderLists \subseteq Seq(AllowedBidder)
  /\ MaxBidAmounts \subseteq Nat
  /\ Transfers \subseteq Nat
  /\ AuctionCreationFee \in Coins
  /\ PlaceBidFee \in Coins
  /\ ExtendedPeriods \subseteq Nat /\ ExtendedPeriods # {}
  /\ MaxNumVestingSchedules \in Nat
  /\ MaxExtendedRound \in Nat
  /\ MaxAuctions \in Nat
  /\ MaxBids \in Nat
  /\ MaxTime \in Nat

VARIABLES
  blockTime,      \* ctx.BlockTime()
  cursor,         \* the auction the BeginBlocker visits next, 0 when it is done
  extendedPeriod, \* params.ExtendedPeriod, in units of block time
  auctions,       \* the auctions; the id of an auction is its index
  allowed,        \* AllowedBidder records: MaxBidAmount, 0 when there is none
  bids,           \* the bids of every auction; the id of a bid is its index
  matchedBidsLen, \* MatchedBidsLen of every auction
  vestingQueues,  \* the vesting queues of every auction, by release time
  balance,        \* bank balances of the users
  communityPool,  \* what the community pool has received
  sellingReserve, \* the selling coin in the selling reserve account
  payingReserve,  \* the paying coin in the paying reserve account
  vestingReserve  \* the paying coin in the vesting reserve account

chain == <<blockTime, cursor, extendedPeriod>>
accounts == <<balance, communityPool>>
reserves == <<sellingReserve, payingReserve, vestingReserve>>
store == <<auctions, allowed, bids, matchedBidsLen, vestingQueues>>
vars == <<chain, store, accounts, reserves>>

-----------------------------------------------------------------------------
(***************************************************************************)
(* Types.  An auction keeps the message that created it (the fields of     *)
(* BaseAuction, FixedPriceAuction and BatchAuction that never change) and  *)
(* the fields that do.                                                     *)
(***************************************************************************)
AuctionStatus == {"StandBy", "Started", "Vesting", "Finished", "Cancelled"}

Auction ==
  [msg : CreateMsg, status : AuctionStatus,
   endTimes : Seq(Time) \ {<<>>},
   remaining : Nat, matchedPrice : Decimals]

BidType == {"FixedPrice", "BatchWorth", "BatchMany"}

Bid ==
  [bidder : Users, type : BidType, price : Decimals, denom : Denoms,
   amount : Nat, isMatched : BOOLEAN]

VestingQueue == [amount : Nat, releaseTime : Time, released : BOOLEAN]

TypeOK ==
  /\ blockTime \in Time
  /\ cursor \in 0..Len(auctions)
  /\ extendedPeriod \in Nat
  /\ auctions \in Seq(Auction)
  /\ Len(auctions) <= MaxAuctions
  /\ allowed \in [AuctionIds -> [Users -> Nat]]
  /\ bids \in [AuctionIds -> Seq(Bid)]
  /\ matchedBidsLen \in [AuctionIds -> Nat]
  /\ vestingQueues \in [AuctionIds -> Seq(VestingQueue)]
  /\ balance \in [Users -> Coins]
  /\ communityPool \in Coins
  /\ sellingReserve \in [AuctionIds -> Nat]
  /\ payingReserve \in [AuctionIds -> Nat]
  /\ vestingReserve \in [AuctionIds -> Nat]

-----------------------------------------------------------------------------
(***************************************************************************)
(* The bank module, as the keeper uses it.                                 *)
(***************************************************************************)
Coin(denom, amount) == [d \in Denoms |-> IF d = denom THEN amount ELSE 0]

Plus(c1, c2) == [d \in Denoms |-> c1[d] + c2[d]]

HasCoins(user, coins) == \A d \in Denoms : coins[d] <= balance[user][d]

Debit(user, coins) ==
  [balance EXCEPT ![user] = [d \in Denoms |-> @[d] - coins[d]]]

Credit(user, coins) == [balance EXCEPT ![user] = Plus(@, coins)]

Total(amounts) == SumFunctionOnSet(amounts, Users)

-----------------------------------------------------------------------------
Init ==
  /\ blockTime = 0
  /\ cursor = 0
  /\ extendedPeriod \in ExtendedPeriods
  /\ auctions = <<>>
  /\ allowed = [id \in AuctionIds |-> [u \in Users |-> 0]]
  /\ bids = [id \in AuctionIds |-> <<>>]
  /\ matchedBidsLen = [id \in AuctionIds |-> 0]
  /\ vestingQueues = [id \in AuctionIds |-> <<>>]
  /\ balance = InitialBalance
  /\ communityPool = [d \in Denoms |-> 0]
  /\ sellingReserve = [id \in AuctionIds |-> 0]
  /\ payingReserve = [id \in AuctionIds |-> 0]
  /\ vestingReserve = [id \in AuctionIds |-> 0]

\* Messages are delivered after the BeginBlocker of their block is done.
Delivering == cursor = 0

Ids == 1..Len(auctions)
Msg(id) == auctions[id].msg
Status(id) == auctions[id].status
EndTime(id) == auctions[id].endTimes[Len(auctions[id].endTimes)]

-----------------------------------------------------------------------------
(***************************************************************************)
(* Creating and cancelling auctions.                                       *)
(***************************************************************************)
\* Mutant: the order of the release times is not checked.
ValidateVestingWeights(schedules, endTime) ==
  LET n == Len(schedules)
  IN  n > 0 =>
        /\ \A i \in 1..n : /\ schedules[i].weight \in 1..ONE
                           /\ schedules[i].releaseTime > endTime
        /\ SumTo(n, [i \in 1..n |-> schedules[i].weight]) = ONE

ValidateVestingSchedules(schedules, endTime) ==
  LET n == Len(schedules)
  IN  n > 0 =>
        /\ \A i \in 1..n : /\ schedules[i].weight \in 1..ONE
                           /\ schedules[i].releaseTime > endTime
        /\ \A i \in 1..(n - 1) :
             schedules[i + 1].releaseTime > schedules[i].releaseTime
        /\ SumTo(n, [i \in 1..n |-> schedules[i].weight]) = ONE

ValidateBasicCreate(m) ==
  /\ m.startPrice > 0
  /\ m.sellingAmt > 0
  /\ m.sellingDenom # m.payingDenom
  /\ m.endTime > m.startTime
  /\ ValidateVestingSchedules(m.schedules, m.endTime)

ShouldAuctionStarted(m) == m.startTime <= blockTime

NewAuction(m) ==
  [msg |-> m,
   status |-> IF ShouldAuctionStarted(m) THEN "Started" ELSE "StandBy",
   endTimes |-> <<m.endTime>>,
   remaining |-> IF m.type = "FixedPrice" THEN m.sellingAmt ELSE 0,
   matchedPrice |-> 0]

NextAuctionId == Len(auctions) + 1

\* The part that the two handlers share: the checks, the fee, the reserved
\* selling coin and the stored auction.
CreateAuction(m) ==
  LET id == NextAuctionId
      charge == Plus(AuctionCreationFee, Coin(m.sellingDenom, m.sellingAmt))
  IN  /\ Delivering
      /\ Len(auctions) < MaxAuctions
      /\ ValidateBasicCreate(m)
      /\ blockTime <= m.endTime
      /\ Len(m.schedules) <= MaxNumVestingSchedules
      /\ HasCoins(m.auctioneer, charge)
      /\ balance' = Debit(m.auctioneer, charge)
      /\ communityPool' = Plus(communityPool, AuctionCreationFee)
      /\ sellingReserve' = [sellingReserve EXCEPT ![id] = @ + m.sellingAmt]
      /\ auctions' = Append(auctions, NewAuction(m))
      /\ UNCHANGED <<chain, allowed, bids, matchedBidsLen, vestingQueues,
                     payingReserve, vestingReserve>>

CreateFixedPriceAuction(m) ==
  /\ m.type = "FixedPrice"
  /\ CreateAuction(m)

CreateBatchAuction(m) ==
  /\ m.type = "Batch"
  /\ m.minBidPrice > 0
  /\ m.extendedRoundRate > 0
  /\ m.maxExtendedRound <= MaxExtendedRound
  /\ CreateAuction(m)

\* Mutant: an auction that takes bids can be cancelled.
CancellableUntilClosed(id) == Status(id) \in {"StandBy", "Started"}

Cancellable(id) == Status(id) = "StandBy"

CancelAuction(id, auctioneer) ==
  /\ Delivering
  /\ Msg(id).auctioneer = auctioneer
  /\ Cancellable(id)
  /\ balance' = Credit(auctioneer,
                       Coin(Msg(id).sellingDenom, sellingReserve[id]))
  /\ sellingReserve' = [sellingReserve EXCEPT ![id] = 0]
  /\ auctions' = [auctions EXCEPT ![id].status = "Cancelled",
                                  ![id].remaining = 0]
  /\ UNCHANGED <<chain, allowed, bids, matchedBidsLen, vestingQueues,
                 communityPool, payingReserve, vestingReserve>>

-----------------------------------------------------------------------------
(***************************************************************************)
(* The list of allowed bidders, kept by another module (or, in a test      *)
(* build, by MsgAddAllowedBidder).                                         *)
(***************************************************************************)

\* The entries of the list that are stored: the loop returns an error at the
\* first invalid one, and what it stored before that stays unless the caller
\* rolls it back (then nothing happened, which is no step).
StoredEntries(id, list) ==
  {k \in 1..Len(list) :
     \A j \in 1..k : list[j].maxBidAmount \in 1..Msg(id).sellingAmt}

\* A later entry for the same bidder overwrites an earlier one.
AddAllowedBidders(id, list) ==
  LET entries(u) == {k \in StoredEntries(id, list) : list[k].bidder = u}
      latest(u) == CHOOSE k \in entries(u) : \A j \in entries(u) : j <= k
  IN  /\ Delivering
      /\ list # <<>>
      /\ allowed' = [allowed EXCEPT ![id] =
                       [u \in Users |-> IF entries(u) = {} THEN @[u]
                                        ELSE list[latest(u)].maxBidAmount]]
      /\ UNCHANGED <<chain, auctions, bids, matchedBidsLen, vestingQueues,
                     accounts, reserves>>

UpdateAllowedBidder(id, bidder, maxBidAmount) ==
  /\ Delivering
  /\ allowed[id][bidder] > 0
  /\ maxBidAmount > 0
  /\ allowed' = [allowed EXCEPT ![id][bidder] = maxBidAmount]
  /\ UNCHANGED <<chain, auctions, bids, matchedBidsLen, vestingQueues,
                 accounts, reserves>>

-----------------------------------------------------------------------------
(***************************************************************************)
(* Bids.                                                                   *)
(***************************************************************************)

\* The checks that PlaceBid and MsgPlaceBid.ValidateBasic make for all types.
MayPlaceBid(id, bid) ==
  /\ Delivering
  /\ Len(bids[id]) < MaxBids
  /\ bid.price > 0 /\ bid.amount > 0
  /\ Status(id) = "Started"
  /\ Msg(id).type = "Batch" => bid.price >= Msg(id).minBidPrice
  /\ allowed[id][bid.bidder] > 0

\* The fee is paid, the paying coin reserved and the bid stored.
ReserveAndStore(id, bid, reserveAmt) ==
  LET charge == Plus(PlaceBidFee, Coin(Msg(id).payingDenom, reserveAmt))
  IN  /\ HasCoins(bid.bidder, charge)
      /\ balance' = Debit(bid.bidder, charge)
      /\ communityPool' = Plus(communityPool, PlaceBidFee)
      /\ payingReserve' = [payingReserve EXCEPT ![id] = @ + reserveAmt]
      /\ bids' = [bids EXCEPT ![id] = Append(@, bid)]

\* Mutant: what is left of the selling coin is not checked.
ValidateFixedPriceBidOversold(id, bid) ==
  LET payingDenom == Msg(id).payingDenom
      bidAmt == ConvertToSellingAmount(bid, payingDenom)
  IN  /\ Msg(id).type = "FixedPrice"
      /\ bid.denom \in {payingDenom, Msg(id).sellingDenom}
      /\ bid.price = Msg(id).startPrice
      /\ TotalSellingAmount(bids[id], bid.bidder, payingDenom) + bidAmt
           <= allowed[id][bid.bidder]

ValidateFixedPriceBid(id, bid) ==
  LET payingDenom == Msg(id).payingDenom
      bidAmt == ConvertToSellingAmount(bid, payingDenom)
  IN  /\ Msg(id).type = "FixedPrice"
      /\ bid.denom \in {payingDenom, Msg(id).sellingDenom}
      /\ bid.price = Msg(id).startPrice
      /\ bidAmt <= auctions[id].remaining
      /\ TotalSellingAmount(bids[id], bid.bidder, payingDenom) + bidAmt
           <= allowed[id][bid.bidder]

\* Mutant: the coin amount of the bid is not converted.
RemainingWithoutConversion(id, bid) == auctions[id].remaining - bid.amount

RemainingAfter(id, bid) ==
  auctions[id].remaining - ConvertToSellingAmount(bid, Msg(id).payingDenom)

PlaceFixedPriceBid(id, bid) ==
  /\ bid.type = "FixedPrice"
  /\ MayPlaceBid(id, bid)
  /\ ValidateFixedPriceBid(id, bid)
  /\ ReserveAndStore(id, [bid EXCEPT !.isMatched = TRUE],
                     ConvertToPayingAmount(bid, Msg(id).payingDenom))
  /\ auctions' = [auctions EXCEPT ![id].remaining = RemainingAfter(id, bid)]
  /\ UNCHANGED <<chain, allowed, matchedBidsLen, vestingQueues,
                 sellingReserve, vestingReserve>>

\* ValidateBatchWorthBid and ValidateBatchManyBid differ in the denom only.
ValidateBatchBid(id, bid, denom) ==
  /\ Msg(id).type = "Batch"
  /\ bid.denom = denom
  /\ ConvertToSellingAmount(bid, Msg(id).payingDenom)
       <= allowed[id][bid.bidder]

PlaceBatchWorthBid(id, bid) ==
  /\ bid.type = "BatchWorth"
  /\ MayPlaceBid(id, bid)
  /\ ValidateBatchBid(id, bid, Msg(id).payingDenom)
  /\ ReserveAndStore(id, bid, bid.amount)
  /\ UNCHANGED <<chain, auctions, allowed, matchedBidsLen, vestingQueues,
                 sellingReserve, vestingReserve>>

PlaceBatchManyBid(id, bid) ==
  /\ bid.type = "BatchMany"
  /\ MayPlaceBid(id, bid)
  /\ ValidateBatchBid(id, bid, Msg(id).sellingDenom)
  /\ ReserveAndStore(id, bid,
                     ConvertToPayingAmount(bid, Msg(id).payingDenom))
  /\ UNCHANGED <<chain, auctions, allowed, matchedBidsLen, vestingQueues,
                 sellingReserve, vestingReserve>>

\* Mutant: the difference is rounded, instead of the amounts.
ReserveRoundedDifference(bid, price, amount) ==
  IF bid.type = "BatchWorth"
    THEN amount - bid.amount
    ELSE MulTruncateInt(amount, price) - MulTruncateInt(bid.amount, bid.price)

\* The additional coin that a modified bid reserves.
ReserveDifference(bid, price, amount) ==
  IF bid.type = "BatchWorth"
    THEN amount - bid.amount
    ELSE MulCeilInt(amount, price) - MulCeilInt(bid.amount, bid.price)

\* Mutant: lowering one of the two is allowed when the other is not lowered.
NotBothLowered(bid, price, amount) ==
  price >= bid.price \/ amount >= bid.amount

NotLowered(bid, price, amount) == price >= bid.price /\ amount >= bid.amount

ModifyBid(id, k, bidder, price, denom, amount) ==
  LET bid == bids[id][k]
      diff == ReserveDifference(bid, price, amount)
      charge == Coin(Msg(id).payingDenom, diff)
  IN  /\ Delivering
      /\ price > 0 /\ amount > 0
      /\ Status(id) = "Started"
      /\ Msg(id).type = "Batch"
      /\ bid.bidder = bidder
      /\ price >= Msg(id).minBidPrice
      /\ bid.denom = denom
      /\ NotLowered(bid, price, amount)
      /\ price # bid.price \/ amount # bid.amount
      /\ HasCoins(bidder, charge)
      /\ balance' = Debit(bidder, charge)
      /\ payingReserve' = [payingReserve EXCEPT ![id] = @ + diff]
      /\ bids' = [bids EXCEPT ![id][k].price = price,
                              ![id][k].amount = amount]
      /\ UNCHANGED <<chain, auctions, allowed, matchedBidsLen, vestingQueues,
                     communityPool, sellingReserve, vestingReserve>>

-----------------------------------------------------------------------------
(***************************************************************************)
(* What the rest of the chain may do: anyone can send coins to a reserve   *)
(* account, and governance can change the ExtendedPeriod parameter.        *)
(***************************************************************************)
TransferToReserve(id, user, amount) ==
  /\ Delivering
  /\ amount > 0
  /\ \/ /\ HasCoins(user, Coin(Msg(id).sellingDenom, amount))
        /\ balance' = Debit(user, Coin(Msg(id).sellingDenom, amount))
        /\ sellingReserve' = [sellingReserve EXCEPT ![id] = @ + amount]
        /\ UNCHANGED <<payingReserve, vestingReserve>>
     \/ /\ HasCoins(user, Coin(Msg(id).payingDenom, amount))
        /\ balance' = Debit(user, Coin(Msg(id).payingDenom, amount))
        /\ \/ /\ payingReserve' = [payingReserve EXCEPT ![id] = @ + amount]
              /\ UNCHANGED vestingReserve
           \/ /\ vestingReserve' = [vestingReserve EXCEPT ![id] = @ + amount]
              /\ UNCHANGED payingReserve
        /\ UNCHANGED sellingReserve
  /\ UNCHANGED <<chain, store, communityPool>>

ParamChange(period) ==
  /\ Delivering
  /\ period # extendedPeriod
  /\ extendedPeriod' = period
  /\ UNCHANGED <<blockTime, cursor, store, accounts, reserves>>

-----------------------------------------------------------------------------
(***************************************************************************)
(* BeginBlocker.  A new block starts at time t; its BeginBlocker visits    *)
(* the auctions in the order of their ids, and executes at most one status *)
(* transition of each.                                                     *)
(***************************************************************************)
BeginBlock(t) ==
  /\ cursor = 0
  /\ blockTime' = t
  /\ cursor' = IF auctions = <<>> THEN 0 ELSE 1
  /\ UNCHANGED <<extendedPeriod, store, accounts, reserves>>

Visiting(id) == cursor = id

VisitNext ==
  /\ cursor' = IF cursor = Len(auctions) THEN 0 ELSE cursor + 1
  /\ UNCHANGED <<blockTime, extendedPeriod>>

\* Mutant: the extended rounds are forgotten.
ShouldAuctionClosedEarly(id) == auctions[id].endTimes[1] <= blockTime

ShouldAuctionClosed(id) == EndTime(id) <= blockTime

ExecuteStandByStatus(id) ==
  /\ Visiting(id)
  /\ Status(id) = "StandBy"
  /\ ShouldAuctionStarted(Msg(id))
  /\ auctions' = [auctions EXCEPT ![id].status = "Started"]
  /\ VisitNext
  /\ UNCHANGED <<allowed, bids, matchedBidsLen, vestingQueues,
                 accounts, reserves>>

\* Mutant: what truncation leaves is in no queue.
NewVestingQueuesTruncated(schedules, raised) ==
  [i \in 1..Len(schedules) |->
     [amount |-> MulTruncateInt(raised, schedules[i].weight),
      releaseTime |-> schedules[i].releaseTime,
      released |-> FALSE]]

\* ApplyVestingSchedules: the last queue takes what truncation leaves.
NewVestingQueues(schedules, raised) ==
  LET n == Len(schedules)
      portion == [i \in 1..n |-> MulTruncateInt(raised, schedules[i].weight)]
  IN  [i \in 1..n |->
         [amount |-> IF i = n THEN raised - SumTo(n - 1, portion)
                              ELSE portion[i],
          releaseTime |-> schedules[i].releaseTime,
          released |-> FALSE]]

\* What the paying reserve holds when all refunds are made.
Raised(id, refund) == payingReserve[id] - Total(refund)

\* None of the transfers of a settlement fails: every amount is a valid coin
\* amount and the reserve accounts cover them.
CanSettle(id, allocation, refund) ==
  /\ allocation \in [Users -> Nat]
  /\ refund \in [Users -> Nat]
  /\ Total(allocation) \in 0..sellingReserve[id]
  /\ Total(refund) \in 0..payingReserve[id]
  /\ \A i \in 1..Len(Msg(id).schedules) :
       NewVestingQueues(Msg(id).schedules, Raised(id, refund))[i].amount \in Nat

\* Mutant: the reserve is read before the allocation is paid from it.
UnsoldBeforeAllocation(id, allocation) == sellingReserve[id]

\* What the selling reserve holds when the allocation is paid.
Unsold(id, allocation) == sellingReserve[id] - Total(allocation)

\* What a user receives in a settlement, besides their refund and allocation.
AuctioneerShare(id, user, share) ==
  IF user = Msg(id).auctioneer THEN share ELSE 0

\* AllocateSellingCoin, RefundRemainingSellingCoin, RefundPayingCoin and
\* ApplyVestingSchedules, in this order.
Settle(id, allocation, refund) ==
  LET m == Msg(id)
      unsold == Unsold(id, allocation)
      raised == Raised(id, refund)
      vests == m.schedules # <<>>
      received(u) ==
        Plus(Coin(m.sellingDenom,
                  allocation[u] + AuctioneerShare(id, u, unsold)),
             Coin(m.payingDenom,
                  refund[u] + IF vests THEN 0
                              ELSE AuctioneerShare(id, u, raised)))
  IN  /\ CanSettle(id, allocation, refund)
      /\ balance' = [u \in Users |-> Plus(balance[u], received(u))]
      /\ sellingReserve' = [sellingReserve EXCEPT ![id] = 0]
      /\ payingReserve' = [payingReserve EXCEPT ![id] = 0]
      /\ vestingReserve' = [vestingReserve EXCEPT ![id] =
                              IF vests THEN @ + raised ELSE @]
      /\ vestingQueues' = [vestingQueues EXCEPT ![id] =
                             NewVestingQueues(m.schedules, raised)]
      /\ auctions' = [auctions EXCEPT ![id].status =
                        IF vests THEN "Vesting" ELSE "Finished"]
      /\ UNCHANGED communityPool

FixedPriceAllocation(id) ==
  CalculateFixedPriceAllocation(bids[id], Users, Msg(id).payingDenom)

NoRefund == [u \in Users |-> 0]

CloseFixedPriceAuction(id) ==
  /\ Visiting(id)
  /\ Status(id) = "Started"
  /\ Msg(id).type = "FixedPrice"
  /\ ShouldAuctionClosed(id)
  /\ Settle(id, FixedPriceAllocation(id), NoRefund)
  /\ VisitNext
  /\ UNCHANGED <<allowed, bids, matchedBidsLen>>

BatchAllocation(id) ==
  CalculateBatchAllocation(bids[id], Msg(id).payingDenom,
                           Msg(id).sellingAmt, allowed[id])

\* The matching marks the matched bids (and unmarks none) and remembers their
\* number, whether the auction ends or is extended.
RecordMatch(id, mInfo) ==
  /\ bids' = [bids EXCEPT ![id] = [k \in 1..Len(bids[id]) |->
                [bids[id][k] EXCEPT !.isMatched =
                   bids[id][k].isMatched \/ k \in mInfo.matchedBids]]]
  /\ matchedBidsLen' = [matchedBidsLen EXCEPT ![id] = mInfo.matchedLen]

\* Whether so many of the bids matched at the end of the previous round are no
\* longer matched that there must be another round.
LostMatches(id, matchedLen, lastMatchedLen) ==
  ONE - QuoInts(matchedLen, lastMatchedLen) >= Msg(id).extendedRoundRate

\* Mutant: one round too many.
RoundsAreOverLate(id, matchedLen) ==
  \/ Msg(id).maxExtendedRound + 1 < Len(auctions[id].endTimes)
  \/ /\ matchedBidsLen[id] > 0
     /\ ~LostMatches(id, matchedLen, matchedBidsLen[id])

\* Mutant: the number of rounds is not bounded.
RoundsAreOverByRate(id, matchedLen) ==
  /\ matchedBidsLen[id] > 0
  /\ ~LostMatches(id, matchedLen, matchedBidsLen[id])

\* Mutant: the last length is read after the matching has overwritten it.
RoundsAreOverStale(id, matchedLen) ==
  \/ Msg(id).maxExtendedRound + 1 = Len(auctions[id].endTimes)
  \/ /\ matchedLen > 0
     /\ ~LostMatches(id, matchedLen, matchedLen)

\* The last round is over, or enough of the bids that were matched at the end
\* of the previous round still are.
RoundsAreOver(id, matchedLen) ==
  \/ Msg(id).maxExtendedRound + 1 = Len(auctions[id].endTimes)
  \/ /\ matchedBidsLen[id] > 0
     /\ ~LostMatches(id, matchedLen, matchedBidsLen[id])

ClosingBatch(id) ==
  /\ Visiting(id)
  /\ Status(id) = "Started"
  /\ Msg(id).type = "Batch"
  /\ ShouldAuctionClosed(id)

CloseBatchAuction(id) ==
  LET mInfo == BatchAllocation(id)
  IN  /\ ClosingBatch(id)
      /\ RoundsAreOver(id, mInfo.matchedLen)
      /\ RecordMatch(id, mInfo)
      /\ Settle(id, mInfo.allocation, mInfo.refund)
      /\ VisitNext
      /\ UNCHANGED allowed

ExtendRound(id) ==
  LET mInfo == BatchAllocation(id)
  IN  /\ ClosingBatch(id)
      /\ ~RoundsAreOver(id, mInfo.matchedLen)
      /\ RecordMatch(id, mInfo)
      /\ auctions' = [auctions EXCEPT ![id].endTimes =
                        Append(@, EndTime(id) + extendedPeriod)]
      /\ VisitNext
      /\ UNCHANGED <<allowed, vestingQueues, accounts, reserves>>

\* Mutant: a released queue is released again.
ShouldReleaseAgain(queue) == queue.releaseTime <= blockTime

ShouldRelease(queue) == queue.releaseTime <= blockTime /\ ~queue.released

\* The sum of the queues that are released in this block.
ReleasedAmount(id) ==
  SumTo(Len(vestingQueues[id]), [i \in 1..Len(vestingQueues[id]) |->
    IF ShouldRelease(vestingQueues[id][i])
      THEN vestingQueues[id][i].amount ELSE 0])

CanRelease(id) == ReleasedAmount(id) \in 0..vestingReserve[id]

ExecuteVestingStatus(id) ==
  LET queues == vestingQueues[id]
      n == Len(queues)
  IN  /\ Visiting(id)
      /\ Status(id) = "Vesting"
      /\ \E i \in 1..n : ShouldRelease(queues[i])
      /\ CanRelease(id)
      /\ balance' = Credit(Msg(id).auctioneer,
                           Coin(Msg(id).payingDenom, ReleasedAmount(id)))
      /\ vestingReserve' = [vestingReserve EXCEPT ![id] =
                              @ - ReleasedAmount(id)]
      /\ vestingQueues' = [vestingQueues EXCEPT ![id] = [i \in 1..n |->
            [queues[i] EXCEPT !.released = @ \/ ShouldRelease(queues[i])]]]
      /\ auctions' = [auctions EXCEPT ![id].status =
                        IF ShouldRelease(queues[n]) THEN "Finished" ELSE @]
      /\ VisitNext
      /\ UNCHANGED <<allowed, bids, matchedBidsLen, communityPool,
                     sellingReserve, payingReserve>>

\* Nothing is due for this auction in this block.
NothingDue(id) ==
  /\ Visiting(id)
  /\ CASE Status(id) = "StandBy" -> ~ShouldAuctionStarted(Msg(id))
       [] Status(id) = "Started" -> ~ShouldAuctionClosed(id)
       [] Status(id) = "Vesting" ->
            \A i \in 1..Len(vestingQueues[id]) :
              ~ShouldRelease(vestingQueues[id][i])
       [] OTHER -> TRUE
  /\ VisitNext
  /\ UNCHANGED <<store, accounts, reserves>>

-----------------------------------------------------------------------------
BidMsg ==
  [bidder : Users, type : BidType, price : Prices, denom : Denoms,
   amount : Amounts, isMatched : {FALSE}]

Deliver ==
  \/ \E m \in CreateMsgs : CreateFixedPriceAuction(m) \/ CreateBatchAuction(m)
  \/ \E id \in Ids :
       \/ \E u \in Users : CancelAuction(id, u)
       \/ \E list \in AllowedBidderLists : AddAllowedBidders(id, list)
       \/ \E u \in Users, max \in MaxBidAmounts :
            UpdateAllowedBidder(id, u, max)
       \/ \E bid \in BidMsg :
            \/ PlaceFixedPriceBid(id, bid)
            \/ PlaceBatchWorthBid(id, bid)
            \/ PlaceBatchManyBid(id, bid)
       \/ \E k \in 1..Len(bids[id]), u \in Users, price \in Prices,
             denom \in Denoms, amount \in Amounts :
            ModifyBid(id, k, u, price, denom, amount)
       \/ \E u \in Users, amount \in Transfers :
            TransferToReserve(id, u, amount)
  \/ \E period \in ExtendedPeriods : ParamChange(period)

BeginBlocker ==
  \E id \in Ids :
    \/ ExecuteStandByStatus(id)
    \/ CloseFixedPriceAuction(id)
    \/ CloseBatchAuction(id)
    \/ ExtendRound(id)
    \/ ExecuteVestingStatus(id)
    \/ NothingDue(id)

NewBlock == \E t \in blockTime..MaxTime : BeginBlock(t)

Next == Deliver \/ BeginBlocker \/ NewBlock

Spec == Init /\ [][Next]_vars
=============================================================================
