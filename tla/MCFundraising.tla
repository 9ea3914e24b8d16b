---------------------------- MODULE MCFundraising ----------------------------
(***************************************************************************)
(* Instances of Fundraising for TLC.  Decimals have one digit (ONE = 10).  *)
(* Auctions sell coin "S" for coin "P"; fees are paid in "P".              *)
(***************************************************************************)
EXTENDS FundraisingProperties

CONSTANTS alice, bob, carol   \* an auctioneer and two bidders

MCUsers == {alice, bob, carol}
MCDenoms == {"S", "P"}
NoFee == [d \in MCDenoms |-> 0]
OneCoinFee == [d \in MCDenoms |-> IF d = "P" THEN 1 ELSE 0]

\* The auctioneer owns s of "S" and p of "P", each bidder q of "P".
Balances(s, p, q) ==
  [u \in MCUsers |-> [d \in MCDenoms |->
     CASE d = "S" -> IF u = alice THEN s ELSE 0
       [] d = "P" -> IF u = alice THEN p ELSE q]]

Entry(u, max) == [bidder |-> u, maxBidAmount |-> max]
BothBidders(max1, max2) == <<Entry(bob, max1), Entry(carol, max2)>>

-----------------------------------------------------------------------------
(***************************************************************************)
(* An auction of either kind with two vesting schedules, and messages that *)
(* ValidateBasic refuses.  A bid of one "P" buys nothing at price 1.5.     *)
(***************************************************************************)
FixedMsg ==
  [type |-> "FixedPrice", auctioneer |-> alice, startPrice |-> 15,
   minBidPrice |-> 0, sellingDenom |-> "S", sellingAmt |-> 3,
   payingDenom |-> "P", maxExtendedRound |-> 0, extendedRoundRate |-> 0,
   schedules |-> <<[releaseTime |-> 3, weight |-> 3],
                   [releaseTime |-> 4, weight |-> 7]>>,
   startTime |-> 1, endTime |-> 2]

BatchMsg ==
  [type |-> "Batch", auctioneer |-> alice, startPrice |-> 10,
   minBidPrice |-> 5, sellingDenom |-> "S", sellingAmt |-> 3,
   payingDenom |-> "P", maxExtendedRound |-> 2, extendedRoundRate |-> 5,
   schedules |-> <<>>, startTime |-> 0, endTime |-> 1]

FixedMsgs ==
  {FixedMsg,
   [FixedMsg EXCEPT !.payingDenom = "S"],
   [FixedMsg EXCEPT !.endTime = 1],
   [FixedMsg EXCEPT !.schedules[1].weight = 7],
   [FixedMsg EXCEPT !.schedules[1].releaseTime = 4,
                    !.schedules[2].releaseTime = 3],
   [FixedMsg EXCEPT !.schedules[1].releaseTime = 2],
   [BatchMsg EXCEPT !.sellingAmt = 2, !.maxExtendedRound = 1,
                    !.schedules = FixedMsg.schedules]}

FixedBalance == Balances(3, 1, 5)
FixedPrices == {10, 15}
FixedAmounts == {1, 2, 3}

\* The second list is refused at its second entry.
FixedLists == {BothBidders(2, 3), BothBidders(1, 4)}

-----------------------------------------------------------------------------
(***************************************************************************)
(* A batch auction with up to two extended rounds, or a fixed price        *)
(* auction; no vesting.  The list is refused at its third entry, when two  *)
(* bidders have been stored.                                               *)
(***************************************************************************)
BatchMsgs == {BatchMsg,
              [FixedMsg EXCEPT !.startPrice = 10, !.schedules = <<>>]}
BatchBalance == Balances(3, 0, 3)
BatchPrices == {5, 10}
BatchAmounts == {1, 3}
BatchLists == {Append(BothBidders(2, 3), Entry(bob, 4))}

-----------------------------------------------------------------------------
(***************************************************************************)
(* A batch auction of two units for bids of one unit or coin, so that late *)
(* bids displace earlier ones.  Its coins vest, and the first release time *)
(* is before the end of the second extended round.  Governance may set the *)
(* extended period to 0.                                                   *)
(***************************************************************************)
RoundsMsgs ==
  {[BatchMsg EXCEPT !.sellingAmt = 2,
                    !.schedules = <<[releaseTime |-> 2, weight |-> 3],
                                    [releaseTime |-> 4, weight |-> 7]>>]}
RoundsBalance == Balances(2, 0, 2)
RoundsPrices == {5, 10}
RoundsLists == {BothBidders(2, 1)}

-----------------------------------------------------------------------------
(***************************************************************************)
(* Two auctions at the same time, of either kind, and cancellations.       *)
(***************************************************************************)
TwoMsgs ==
  {[FixedMsg EXCEPT !.startPrice = 10, !.sellingAmt = 2],
   [BatchMsg EXCEPT !.sellingAmt = 1, !.maxExtendedRound = 1,
                    !.startTime = 1, !.endTime = 2]}
TwoBalance == Balances(3, 2, 2)
TwoPrices == {10}
TwoAmounts == {1}
TwoLists == {BothBidders(1, 1)}
=============================================================================
