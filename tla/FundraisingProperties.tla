----------------------- MODULE FundraisingProperties -----------------------
(***************************************************************************)
(* What the keeper promises: properties of the specification Fundraising.  *)
(***************************************************************************)
EXTENDS Fundraising

Batch(id) == Msg(id).type = "Batch"
FixedPrice(id) == Msg(id).type = "FixedPrice"
Settled(id) == Status(id) \in {"Vesting", "Finished"}
Ended(id) == Status(id) \in {"Finished", "Cancelled"}

\* The paying coin that the bids of an auction account for.
TotalBidCoin(id) ==
  SumTo(Len(bids[id]), [k \in 1..Len(bids[id]) |->
    ConvertToPayingAmount(bids[id][k], Msg(id).payingDenom)])

TotalSoldCoin(id) ==
  SumTo(Len(bids[id]), [k \in 1..Len(bids[id]) |->
    ConvertToSellingAmount(bids[id][k], Msg(id).payingDenom)])

UnreleasedCoin(id) ==
  SumTo(Len(vestingQueues[id]), [i \in 1..Len(vestingQueues[id]) |->
    IF vestingQueues[id][i].released THEN 0 ELSE vestingQueues[id][i].amount])

-----------------------------------------------------------------------------
(***************************************************************************)
(* Safety.                                                                 *)
(***************************************************************************)

\* keeper/invariants.go: the selling reserve of an auction that has not ended
\* covers its selling coin, the paying reserve covers what its bids reserved
\* (by however many bids and modifications), and the vesting reserve covers the
\* queues that are not released.
ReservesCoverObligations ==
  \A id \in Ids :
    /\ Status(id) \in {"StandBy", "Started"} =>
         sellingReserve[id] >= Msg(id).sellingAmt
    /\ Status(id) = "Started" => payingReserve[id] >= TotalBidCoin(id)
    /\ Status(id) = "Vesting" => vestingReserve[id] >= UnreleasedCoin(id)

\* When nobody sends coins to a reserve account, the reserves hold exactly what
\* the auction owes at every moment: nothing is left behind in an account that
\* no code path can empty any more.
ReservesAreExact ==
  \A id \in Ids :
    /\ sellingReserve[id] =
         IF Status(id) \in {"StandBy", "Started"} THEN Msg(id).sellingAmt ELSE 0
    /\ payingReserve[id] = IF Status(id) = "Started" THEN TotalBidCoin(id) ELSE 0
    /\ vestingReserve[id] = UnreleasedCoin(id)

\* The coins of a denomination that the accounts of the model hold.
CirculatingCoin(d) ==
  LET held(id) ==
        (IF Msg(id).sellingDenom = d THEN sellingReserve[id] ELSE 0) +
        (IF Msg(id).payingDenom = d
           THEN payingReserve[id] + vestingReserve[id] ELSE 0)
  IN  Total([u \in Users |-> balance[u][d]]) + communityPool[d]
        + SumFunctionOnSet([id \in Ids |-> held(id)], Ids)

\* No coin appears or disappears, whatever the fees, the rounding of bids and
\* vesting portions, and the order in which auctions are created, settled,
\* extended and cancelled.
CoinsConserved ==
  \A d \in Denoms :
    CirculatingCoin(d) = Total([u \in Users |-> InitialBalance[u][d]])

\* The BeginBlocker never panics: whenever it settles an auction or releases
\* vested coins, the reserves cover every transfer and no amount is negative.
\* A panic here would halt the chain.
BeginBlockerNeverPanics ==
  \A id \in Ids : Visiting(id) =>
    /\ Status(id) = "Started" /\ FixedPrice(id) /\ ShouldAuctionClosed(id) =>
         CanSettle(id, FixedPriceAllocation(id), NoRefund)
    /\ ClosingBatch(id) =>
         LET mInfo == BatchAllocation(id)
         IN  RoundsAreOver(id, mInfo.matchedLen) =>
               CanSettle(id, mInfo.allocation, mInfo.refund)
    /\ Status(id) = "Vesting" => CanRelease(id)

\* RemainingSellingCoin of a fixed price auction is what its accepted bids have
\* left of the selling coin, so that it is never oversold.
FixedPriceNeverOversold ==
  \A id \in Ids : FixedPrice(id) /\ Status(id) # "Cancelled" =>
    auctions[id].remaining + TotalSoldCoin(id) = Msg(id).sellingAmt

\* A batch auction has at most MaxExtendedRound extended rounds, in
\* chronological order, and a fixed price auction has none.
RoundsBounded ==
  \A id \in Ids :
    LET ends == auctions[id].endTimes
    IN  /\ Len(ends) \in 1..(1 + IF Batch(id) THEN Msg(id).maxExtendedRound
                                 ELSE 0)
        /\ \A i \in 1..(Len(ends) - 1) : ends[i] <= ends[i + 1]

\* Vested coins are released in the order of the schedules, the auction is
\* finished exactly when the last of them is released, and none is released
\* before the round in which the auction was settled is over.
VestingInOrder ==
  \A id \in Ids :
    LET queues == vestingQueues[id]
        n == Len(queues)
    IN  /\ \A i \in 1..(n - 1) : queues[i + 1].released => queues[i].released
        /\ n > 0 => Settled(id)
        /\ n > 0 => (Status(id) = "Finished" <=> queues[n].released)
        /\ \A i \in 1..n : queues[i].released =>
             queues[i].releaseTime <= blockTime /\ EndTime(id) <= blockTime

-----------------------------------------------------------------------------
(***************************************************************************)
(* Action properties.                                                      *)
(***************************************************************************)

SettlesBatch(id) == Status(id) = "Started" /\ Settled(id)' /\ Batch(id)

Gain(u, d) == balance'[u][d] - balance[u][d]

\* When a batch auction is settled, a bidder receives no more selling coin than
\* MaxBidAmount allows (although neither several bids nor ModifyBid are checked
\* against it), and gets back at least all that was reserved for bids that are
\* not marked as matched.  The auctioneer also receives the unsold coins, and
\* is left out here.
BatchSettlementIsFair ==
  [][\A id \in Ids : SettlesBatch(id) =>
       \A u \in Users \ {Msg(id).auctioneer} :
         /\ Gain(u, Msg(id).sellingDenom) \in 0..allowed[id][u]
         /\ Gain(u, Msg(id).payingDenom) >=
              SumTo(Len(bids[id]), [k \in 1..Len(bids[id]) |->
                IF bids[id][k].bidder = u /\ ~bids'[id][k].isMatched
                  THEN ConvertToPayingAmount(bids[id][k], Msg(id).payingDenom)
                  ELSE 0])]_vars

\* The anti-sniping rule, across two rounds: a batch auction that could still be
\* extended is settled at the end of its first extended round only if the share
\* of lost bids, among those matched at the end of the round before (the ones
\* marked as matched, whatever was bid or modified since), is below
\* ExtendedRoundRate.
NoCloseAfterSniping ==
  [][\A id \in Ids :
       SettlesBatch(id) /\ Len(auctions[id].endTimes) = 2
         /\ Msg(id).maxExtendedRound > 1 =>
         LET last == Cardinality({k \in 1..Len(bids[id]) :
                                    bids[id][k].isMatched})
             lost == last - BatchAllocation(id).matchedLen
         IN  last > 0 /\ lost * ONE < Msg(id).extendedRoundRate * last]_vars

\* The bid new is as good for the auctioneer as the bid old of the same bidder.
Improves(old, new) ==
  /\ new.price >= old.price
  /\ new.amount >= old.amount
  /\ new.bidder = old.bidder
  /\ new.type = old.type
  /\ new.denom = old.denom

BookImproves(id) ==
  /\ Len(bids'[id]) >= Len(bids[id])
  /\ \A k \in 1..Len(bids[id]) : Improves(bids[id][k], bids'[id][k])
  /\ Settled(id) => bids'[id] = bids[id]

\* A bid stays in the book until the end and only ever becomes better for the
\* auctioneer: no message lowers its price or its amount, or hands it to
\* another bidder, and the book of a settled auction never changes again.
BidsOnlyImprove == [][\A id \in Ids : BookImproves(id)]_vars

\* A bid that carries the mark of a matched bid when its auction is settled was
\* matched by that settlement: "the bid that is determined to be matched (a.k.a.,
\* winner) when an auction ends; default value is false" (spec/02_state.md:178).
\* CalculateBatchAllocation sets marks at the end of every round and resets none.
MarksAreWinners ==
  [][\A id \in Ids : SettlesBatch(id) =>
       \A k \in 1..Len(bids[id]) :
         bids'[id][k].isMatched => k \in BatchAllocation(id).matchedBids]_vars

-----------------------------------------------------------------------------
(***************************************************************************)
(* The keeper as an escrow: reserves are what is held, statuses are        *)
(* stages.                                                                 *)
(***************************************************************************)
Stage ==
  [id \in AuctionIds |->
     IF id \notin Ids THEN "None"
     ELSE CASE Status(id) = "StandBy" -> "Announced"
            [] Status(id) = "Started" -> "Open"
            [] Status(id) = "Vesting" -> "Vesting"
            [] OTHER -> "Closed"]

Escrow == INSTANCE AuctionEscrow
            WITH stage <- Stage, selling <- sellingReserve,
                 paying <- payingReserve, vesting <- vestingReserve

\* When nobody sends coins to the reserve accounts, every behaviour of the
\* keeper is a behaviour of the escrow: no message and no BeginBlocker moves
\* coins of an auction outside its settlement, its cancellation and its vesting.
ImplementsEscrow == Escrow!Spec

-----------------------------------------------------------------------------
(***************************************************************************)
(* Liveness.  The chain keeps committing blocks, a BeginBlocker that has   *)
(* started is completed, and of infinitely many blocks some is later than  *)
(* the one before (the time of a chain's blocks increases; the time of the *)
(* model is coarser, so that blocks may share it).  Nothing is assumed     *)
(* about messages.                                                         *)
(***************************************************************************)
TimePasses == \E t \in blockTime..MaxTime : t > blockTime /\ BeginBlock(t)

\* Some step of the BeginBlocker is possible whenever it has not finished (the
\* deadlock check of every run shows it), so that weak fairness of this action
\* is weak fairness of BeginBlocker; TLC evaluates ENABLED of it much faster.
LeaveAuction == cursor # 0 /\ cursor' \in 0..Len(auctions)

Fairness ==
  /\ WF_cursor(LeaveAuction)
  /\ WF_vars(NewBlock)
  /\ SF_vars(TimePasses)

FairSpec == Spec /\ Fairness

\* Every auction is eventually finished or cancelled, whatever bidders and
\* governance do in the meantime.
EveryAuctionEnds ==
  \A id \in AuctionIds : (id \in Ids) ~> (id \in Ids /\ Ended(id))

=============================================================================
