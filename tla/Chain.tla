------------------------------- MODULE Chain -------------------------------
(***************************************************************************)
(* The whole module as a chain runs it: the keeper's handlers and          *)
(* BeginBlocker with the hooks they call, and restarts from an exported    *)
(* genesis state.  A listener exports and imports what it has heard.       *)
(***************************************************************************)
EXTENDS Genesis, Hooks

chainVars == <<vars, seen>>

ChainInit == Init /\ HooksInit

\* The id that PlaceBid gives to a bid.
NextBidId(id) == Len(bids[id]) + 1

HookedDeliver ==
  \/ \E m \in CreateMsgs :
       /\ CreateFixedPriceAuction(m) \/ CreateBatchAuction(m)
       /\ AfterAuctionCreated(NextAuctionId, m)
  \/ \E id \in Ids :
       \/ \E u \in Users : CancelAuction(id, u) /\ BeforeAuctionCanceled(id)
       \/ \E list \in AllowedBidderLists :
            AddAllowedBidders(id, list) /\ BeforeAllowedBiddersAdded(list)
       \/ \E u \in Users, max \in MaxBidAmounts :
            /\ UpdateAllowedBidder(id, u, max)
            /\ BeforeAllowedBidderUpdated(id, u, max)
       \/ \E bid \in BidMsg :
            /\ \/ PlaceFixedPriceBid(id, bid)
               \/ PlaceBatchWorthBid(id, bid)
               \/ PlaceBatchManyBid(id, bid)
            /\ BeforeBidPlaced(id, NextBidId(id), bid)
       \/ \E k \in 1..Len(bids[id]), u \in Users, price \in Prices,
             denom \in Denoms, amount \in Amounts :
            /\ ModifyBid(id, k, u, price, denom, amount)
            /\ BeforeBidModified(id, k, price, amount)
       \/ \E u \in Users, amount \in Transfers :
            TransferToReserve(id, u, amount) /\ NoHook
  \/ \E period \in ExtendedPeriods : ParamChange(period) /\ NoHook

HookedBeginBlocker ==
  \E id \in Ids :
    \/ ExecuteStandByStatus(id) /\ NoHook
    \/ /\ CloseFixedPriceAuction(id)
       /\ BeforeSellingCoinsAllocated(id, FixedPriceAllocation(id), NoRefund)
    \/ /\ CloseBatchAuction(id)
       /\ LET mInfo == BatchAllocation(id)
          IN  BeforeSellingCoinsAllocated(id, mInfo.allocation, mInfo.refund)
    \/ ExtendRound(id) /\ NoHook
    \/ ExecuteVestingStatus(id) /\ NoHook
    \/ NothingDue(id) /\ NoHook

ChainNext ==
  \/ HookedDeliver
  \/ HookedBeginBlocker
  \/ NewBlock /\ NoHook
  \/ Restart /\ NoHook

ChainSpec == ChainInit /\ [][ChainNext]_chainVars

\* Blocks go on after a restart.
FairChainSpec == ChainSpec /\ Fairness
=============================================================================
