------------------------------ MODULE Genesis ------------------------------
(***************************************************************************)
(* A chain that is stopped, exported and started again from the exported   *)
(* genesis state (keeper/genesis.go, types/genesis.go, app/export.go).     *)
(* The export is taken between two blocks.  The bank module exports and    *)
(* imports its balances by itself.                                         *)
(***************************************************************************)
EXTENDS FundraisingProperties, SequencesExt

(***************************************************************************)
(* The genesis state: lists in the order of the store's keys, of records   *)
(* that carry the id of their auction.                                     *)
(***************************************************************************)
TheBids(id) ==
  [k \in 1..Len(bids[id]) |-> [auctionId |-> id, id |-> k, bid |-> bids[id][k]]]

TheQueues(id) ==
  [i \in 1..Len(vestingQueues[id]) |->
     [auctionId |-> id, queue |-> vestingQueues[id][i]]]

\* MatchedBidsLen and the last ids are not exported.
ExportGenesis ==
  [params |-> extendedPeriod,
   auctions |-> [id \in Ids |-> [id |-> id, auction |-> auctions[id]]],
   allowedBidderRecords |->
     {r \in [auctionId : Ids, bidder : Users,
             maxBidAmount : UNION {{allowed[id][u] : u \in Users} : id \in Ids}] :
        r.maxBidAmount = allowed[r.auctionId][r.bidder] /\ r.maxBidAmount > 0},
   bids |-> FlattenSeq([id \in Ids |-> TheBids(id)]),
   vestingQueues |-> FlattenSeq([id \in Ids |-> TheQueues(id)])]

\* BaseAuction.Validate: the schedules are compared with the last end time.
ValidateAuction(auction) ==
  /\ auction.msg.startPrice > 0
  /\ auction.msg.sellingDenom # auction.msg.payingDenom
  /\ ValidateVestingSchedules(auction.msg.schedules,
                              auction.endTimes[Len(auction.endTimes)])

Validate(gs) ==
  /\ \A i \in 1..Len(gs.auctions) : ValidateAuction(gs.auctions[i].auction)
  /\ \A r \in gs.allowedBidderRecords : r.auctionId > 0 /\ r.maxBidAmount > 0
  /\ \A i \in 1..Len(gs.bids) :
       gs.bids[i].bid.price > 0 /\ gs.bids[i].bid.amount > 0
  /\ \A i \in 1..Len(gs.vestingQueues) : gs.vestingQueues[i].queue.amount >= 0

\* The records of the list that are stored under an auction: the loops over the
\* bids and the queues set one record after the other.
OfAuction(list, id) ==
  LET own[i \in 0..Len(list)] ==
        IF i = 0 THEN <<>>
        ELSE IF list[i].auctionId = id THEN Append(own[i - 1], list[i])
        ELSE own[i - 1]
  IN  own[Len(list)]

\* Mutant: only the matched bids are imported.
ImportedMatchedBids(gs, id) ==
  LET own == SelectSeq(OfAuction(gs.bids, id), LAMBDA r : r.bid.isMatched)
  IN  [k \in 1..Len(own) |-> own[k].bid]

\* The record stored under the id k.
WithId(records, k) == CHOOSE r \in ToSet(records) : r.id = k

\* Every bid is stored under its exported id; the last id is counted by itself, one
\* for every bid of the list.
ImportedBids(gs, id) ==
  LET own == OfAuction(gs.bids, id)
  IN  [k \in 1..Len(own) |-> WithId(own, k).bid]

ImportedQueues(gs, id) ==
  LET own == OfAuction(gs.vestingQueues, id)
  IN  [i \in 1..Len(own) |-> own[i].queue]

ImportedMaxBidAmount(gs, id, u) ==
  LET own == {r \in gs.allowedBidderRecords : r.auctionId = id /\ r.bidder = u}
  IN  IF own = {} THEN 0 ELSE (CHOOSE r \in own : TRUE).maxBidAmount

\* The store starts empty; a genesis state that is not valid, or a bid or queue of
\* an auction that is not there, is a panic, and the chain does not start.
InitGenesis(gs) ==
  /\ Validate(gs)
  /\ \A i \in 1..Len(gs.bids) : gs.bids[i].auctionId <= Len(gs.auctions)
  /\ \A i \in 1..Len(gs.vestingQueues) :
       gs.vestingQueues[i].auctionId <= Len(gs.auctions)
  /\ extendedPeriod' = gs.params
  /\ auctions' = [id \in 1..Len(gs.auctions) |-> WithId(gs.auctions, id).auction]
  /\ allowed' = [id \in AuctionIds |->
                   [u \in Users |-> ImportedMaxBidAmount(gs, id, u)]]
  /\ bids' = [id \in AuctionIds |-> ImportedBids(gs, id)]
  /\ vestingQueues' = [id \in AuctionIds |-> ImportedQueues(gs, id)]
  /\ matchedBidsLen' = [id \in AuctionIds |-> 0]

\* Stopped after a block, exported, and started again.
Restart ==
  /\ Delivering
  /\ InitGenesis(ExportGenesis)
  /\ UNCHANGED <<blockTime, cursor, accounts, reserves>>

-----------------------------------------------------------------------------
\* A restart loses no auction, bid, queue or allowed bidder, and the bids and
\* queues of every auction keep their ids and order, although the last ids are not
\* exported and the queues have no ids.
RestartKeepsRecords ==
  [][Restart => UNCHANGED <<auctions, allowed, bids, vestingQueues>>]_vars

\* keeper/genesis_test.go:109, `s.Require().NoError(genState.Validate())`: what a
\* chain exports is a valid genesis state.
ExportIsImportable == Delivering => Validate(ExportGenesis)
=============================================================================
