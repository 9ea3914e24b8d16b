-------------------------- MODULE SettlementProofs --------------------------
(***************************************************************************)
(* What happens from the settlement of an auction on, for every value of   *)
(* the constants: vested coins are released in order, and the BeginBlocker *)
(* never panics.  Then where the coins are: no step creates or destroys    *)
(* one, and the keeper implements the escrow.                              *)
(***************************************************************************)
EXTENDS ReserveProofs

-----------------------------------------------------------------------------
(***************************************************************************)
(* The inductive invariant about the vesting of an auction.                *)
(***************************************************************************)
LastEnd(a) == a.endTimes[Len(a.endTimes)]

InOrder(queues) ==
  \A i \in 1..(Len(queues) - 1) :
    /\ queues[i + 1].releaseTime > queues[i].releaseTime
    /\ queues[i + 1].released => queues[i].released

\* The queues of auction a at time t: an auction vests as long as its last queue
\* is not released, and what was released was due.
VestingOK(a, queues, t) ==
  /\ InOrder(queues)
  /\ a.status \in {"Vesting", "Finished"} => LastEnd(a) <= t
  /\ a.status = "Vesting" =>
       Len(queues) > 0 /\ ~queues[Len(queues)].released
  /\ a.status = "Finished" /\ Len(queues) > 0 => queues[Len(queues)].released
  /\ \A i \in 1..Len(queues) : queues[i].released => queues[i].releaseTime <= t

VestingInv ==
  \A id \in Ids : VestingOK(auctions[id], vestingQueues[id], blockTime)

\* The time of a block is not before the time of the one before.
LEMMA TimeAdvances ==
  ASSUME TypeOK, [Next]_vars
  PROVE  blockTime \in Nat /\ blockTime' \in Nat /\ blockTime' >= blockTime
<1>1. blockTime \in Nat BY DEF TypeOK, Time
<1>2. CASE NewBlock BY <1>1, <1>2, FundraisingAssumption DEF NewBlock, BeginBlock
<1>3. CASE BeginBlocker
  BY <1>1, <1>3 DEF BeginBlocker, ExecuteStandByStatus, CloseFixedPriceAuction,
       CloseBatchAuction, ExtendRound, ExecuteVestingStatus, NothingDue, VisitNext
<1>4. CASE Deliver
  <2> DEFINE Still == blockTime' = blockTime
  <2>1. \A m : CreateFixedPriceAuction(m) \/ CreateBatchAuction(m) => Still
    BY DEF CreateFixedPriceAuction, CreateBatchAuction, CreateAuction, chain
  <2>2. \A id, u : CancelAuction(id, u) => Still BY DEF CancelAuction, chain
  <2>3. \A id, list : AddAllowedBidders(id, list) => Still
    BY DEF AddAllowedBidders, chain
  <2>4. \A id, u, max : UpdateAllowedBidder(id, u, max) => Still
    BY DEF UpdateAllowedBidder, chain
  <2>5. \A id, bid : (\/ PlaceFixedPriceBid(id, bid)
                      \/ PlaceBatchWorthBid(id, bid)
                      \/ PlaceBatchManyBid(id, bid)) => Still
    BY DEF PlaceFixedPriceBid, PlaceBatchWorthBid, PlaceBatchManyBid, chain
  <2>6. \A id, k, u, price, denom, amount :
          ModifyBid(id, k, u, price, denom, amount) => Still
    BY DEF ModifyBid, chain
  <2>7. \A id, u, amount : TransferToReserve(id, u, amount) => Still
    BY DEF TransferToReserve, chain
  <2>8. \A period : ParamChange(period) => Still BY DEF ParamChange
  <2> HIDE DEF Still
  <2>9. Still
    BY <1>4, <2>1, <2>2, <2>3, <2>4, <2>5, <2>6, <2>7, <2>8, Zenon DEF Deliver
  <2> QED BY <1>1, <2>9 DEF Still
<1>5. CASE UNCHANGED vars BY <1>1, <1>5 DEF vars, chain
<1> QED BY <1>2, <1>3, <1>4, <1>5 DEF Next

\* No queues are in order.
LEMMA NoQueuesOK ==
  ASSUME NEW a, NEW t, a.status \in {"StandBy", "Started", "Cancelled"}
  PROVE  VestingOK(a, <<>>, t)
<1>1. Len(<<>>) = 0 OBVIOUS
<1>2. InOrder(<<>>) BY <1>1 DEF InOrder
<1> QED BY <1>1, <1>2 DEF VestingOK

\* As time passes, what was due stays due.
LEMMA LaterOK ==
  ASSUME NEW a \in Auction, NEW queues \in Seq(VestingQueue), NEW t \in Nat,
         NEW t1 \in Nat, t1 >= t, VestingOK(a, queues, t)
  PROVE  VestingOK(a, queues, t1)
<1>1. \A i \in 1..Len(queues) : queues[i].releaseTime \in Nat
  <2>1. \A i \in 1..Len(queues) : queues[i] \in VestingQueue BY ElementOfSeq
  <2> QED BY <2>1 DEF VestingQueue, Time
<1>2. LastEnd(a) \in Nat
  <2>1. a.endTimes \in Seq(Nat) /\ a.endTimes # <<>> BY DEF Auction, Time
  <2>2. Len(a.endTimes) \in Nat /\ Len(a.endTimes) # 0
    BY <2>1, LenProperties, EmptySeq
  <2>3. Len(a.endTimes) \in 1..Len(a.endTimes) BY <2>2
  <2> QED BY <2>1, <2>3, ElementOfSeq DEF LastEnd
<1> QED BY <1>1, <1>2 DEF VestingOK

\* It is enough to look at the auction that a step changes.
LEMMA OneVesting ==
  ASSUME TypeOK, VestingInv, [Next]_vars, NEW id \in Ids, ChangesOnly(id),
         VestingOK(auctions'[id], vestingQueues'[id], blockTime')
  PROVE  VestingInv'
<1>1. blockTime \in Nat /\ blockTime' \in Nat /\ blockTime' >= blockTime
  BY TimeAdvances
<1>2. ASSUME NEW j \in Ids, j # id
      PROVE  VestingOK(auctions'[j], vestingQueues'[j], blockTime')
  <2>1. j \in AuctionIds /\ auctions[j] \in Auction BY AuctionFacts
  <2>2. vestingQueues[j] \in Seq(VestingQueue) BY <2>1 DEF TypeOK
  <2>3. auctions'[j] = auctions[j] /\ vestingQueues'[j] = vestingQueues[j]
    BY <1>2, <2>1 DEF ChangesOnly, Same
  <2>4. VestingOK(auctions[j], vestingQueues[j], blockTime) BY DEF VestingInv
  <2> QED BY <1>1, <2>1, <2>2, <2>3, <2>4, LaterOK
<1> QED BY <1>2 DEF VestingInv, ChangesOnly

\* A step that changes neither status nor queues of any auction keeps the order.
LEMMA SameVesting ==
  ASSUME NEW a, NEW b, NEW queues, NEW t, b.status = a.status,
         b.endTimes = a.endTimes, VestingOK(a, queues, t)
  PROVE  VestingOK(b, queues, t)
BY DEF VestingOK, LastEnd

\* The queues of ApplyVestingSchedules have the release times of the schedules,
\* and none is released.
LEMMA NewQueuesInOrder ==
  ASSUME NEW schedules \in Seq(Schedule), NEW endTime,
         ValidateVestingSchedules(schedules, endTime), NEW raised
  PROVE  LET queues == NewVestingQueues(schedules, raised)
         IN  /\ Len(queues) = Len(schedules)
             /\ InOrder(queues)
             /\ \A i \in 1..Len(queues) : queues[i].released = FALSE
<1> DEFINE n == Len(schedules)
           queues == NewVestingQueues(schedules, raised)
<1>1. n \in Nat BY LenProperties
<1>2. \A i \in 1..n : /\ queues[i].releaseTime = schedules[i].releaseTime
                      /\ queues[i].released = FALSE
  BY DEF NewVestingQueues
<1>3. Len(queues) = n
  <2>1. queues = [i \in 1..n |-> queues[i]] BY DEF NewVestingQueues
  <2> HIDE DEF queues
  <2>2. queues \in [1..n -> {queues[i] : i \in 1..n}] BY <2>1
  <2> QED BY <1>1, <2>2, FcnIsSeq
<1> HIDE DEF queues
<1>4. \A i \in 1..(n - 1) :
        schedules[i + 1].releaseTime > schedules[i].releaseTime
  BY <1>1 DEF ValidateVestingSchedules
<1>5. InOrder(queues)
  <2> SUFFICES ASSUME NEW i \in 1..(n - 1)
               PROVE  /\ queues[i + 1].releaseTime > queues[i].releaseTime
                      /\ queues[i + 1].released => queues[i].released
    BY <1>3 DEF InOrder
  <2>1. i \in 1..n /\ i + 1 \in 1..n BY <1>1
  <2> QED BY <1>2, <1>4, <2>1
<1> QED BY <1>2, <1>3, <1>5 DEF queues

\* A settled auction vests when there are schedules.
LEMMA CloseVesting ==
  ASSUME TypeOK, RecordsInv, VestingInv, [Next]_vars, NEW id \in Ids,
         CloseFixedPriceAuction(id) \/ CloseBatchAuction(id)
  PROVE  VestingInv'
<1> DEFINE a == auctions[id]
           m == Msg(id)
           s == IF m.schedules # <<>> THEN "Vesting" ELSE "Finished"
           b == [a EXCEPT !.status = s]
<1>1. id \in AuctionIds /\ a \in Auction /\ m \in CreateMsg BY AuctionFacts
<1>2. ValidateVestingSchedules(m.schedules, m.endTime)
  BY <1>1 DEF RecordsInv, RecordsOf, RecordOK, ValidMsg, Msg
<1>3. PICK raised :
        /\ ChangesOnly(id)
        /\ EndTime(id) <= blockTime
        /\ UNCHANGED blockTime
        /\ auctions'[id] = b
        /\ vestingQueues'[id] = NewVestingQueues(m.schedules, raised)
  <2> HIDE DEF a, m
  <2> QED BY CloseEffect DEF a, m
<1>4. b.status = s /\ b.endTimes = a.endTimes
  <2> HIDE DEF s
  <2> QED BY <1>1, RecordFields
<1>5. m.schedules \in Seq(Schedule) BY <1>1 DEF CreateMsg
<1>6. LastEnd(b) <= blockTime' BY <1>3, <1>4 DEF LastEnd, EndTime
<1>7. s = "Vesting" <=> m.schedules # <<>> OBVIOUS
<1>8. s \in {"Vesting", "Finished"} OBVIOUS
<1> DEFINE queues == vestingQueues'[id]
<1> HIDE DEF a, b, m, s
<1>9. /\ Len(queues) = Len(m.schedules)
      /\ InOrder(queues)
      /\ \A i \in 1..Len(queues) : queues[i].released = FALSE
  BY <1>2, <1>3, <1>5, NewQueuesInOrder
<1>10. Len(m.schedules) \in Nat /\ (Len(m.schedules) = 0 <=> m.schedules = <<>>)
  BY <1>5, LenProperties, EmptySeq
<1>11. VestingOK(b, queues, blockTime')
  <2> HIDE DEF queues
  <2> QED BY <1>4, <1>6, <1>7, <1>8, <1>9, <1>10 DEF VestingOK
<1> QED BY <1>3, <1>11, OneVesting

\* ReleaseVestingPayingCoin releases all queues that are due, and with the last
\* of them the auction is finished.
LEMMA ReleaseVesting ==
  ASSUME TypeOK, RecordsInv, VestingInv, [Next]_vars, NEW id \in Ids,
         ExecuteVestingStatus(id)
  PROVE  VestingInv'
<1> DEFINE a == auctions[id]
           old == vestingQueues[id]
           n == Len(old)
           new == ReleasedQueues(old, blockTime)
           s == IF ShouldRelease(old[n]) THEN "Finished" ELSE a.status
           b == [a EXCEPT !.status = s]
<1>1. id \in AuctionIds /\ a \in Auction BY AuctionFacts
<1>2. /\ ChangesOnly(id) /\ Status(id) = "Vesting"
      /\ auctions'[id] = b
      /\ vestingQueues'[id] = new
      /\ UNCHANGED blockTime
  BY ReleaseEffect
<1>3. a.status = "Vesting" BY <1>2 DEF Status
<1>4. VestingOK(a, old, blockTime) BY DEF VestingInv
<1>5. old \in Seq(VestingQueue) /\ blockTime \in Nat BY <1>1 DEF TypeOK, Time
<1>6. n \in Nat /\ \A i \in 1..n : old[i] \in VestingQueue
  BY <1>5, LenProperties, ElementOfSeq
<1>7. b.status = s /\ b.endTimes = a.endTimes
  <2> HIDE DEF s
  <2> QED BY <1>1, RecordFields
<1>8. ASSUME NEW i \in 1..n
      PROVE  /\ new[i].releaseTime = old[i].releaseTime
             /\ new[i].released <=>
                  old[i].released \/ old[i].releaseTime <= blockTime
  <2> DEFINE q == old[i]
             r == q.released \/ (q.releaseTime <= blockTime /\ ~q.released)
  <2>1. q \in VestingQueue BY <1>6
  <2>2. new[i] = [q EXCEPT !.released = r] BY DEF ReleasedQueues
  <2>3. r <=> q.released \/ q.releaseTime <= blockTime OBVIOUS
  <2> HIDE DEF q, r, new
  <2>4. new[i].releaseTime = q.releaseTime /\ new[i].released = r
    BY <2>1, <2>2 DEF VestingQueue
  <2> QED BY <2>3, <2>4 DEF q
<1>9. Len(new) = n BY <1>5, ReleaseSums
<1>10. \A i \in 1..n : old[i].releaseTime \in Nat
  BY <1>6 DEF VestingQueue, Time
<1>11. n > 0 /\ ~old[n].released /\ InOrder(old) /\ LastEnd(a) <= blockTime
       /\ \A i \in 1..n : old[i].released => old[i].releaseTime <= blockTime
  BY <1>3, <1>4 DEF VestingOK
<1>12. s = IF old[n].releaseTime <= blockTime THEN "Finished" ELSE "Vesting"
  BY <1>3, <1>11 DEF ShouldRelease
<1> HIDE DEF a, b, s, new, old, n
<1>13. InOrder(new)
  <2> SUFFICES ASSUME NEW i \in 1..(n - 1)
               PROVE  /\ new[i + 1].releaseTime > new[i].releaseTime
                      /\ new[i + 1].released => new[i].released
    BY <1>9 DEF InOrder
  <2>1. i \in 1..n /\ i + 1 \in 1..n BY <1>6
  <2>2. /\ old[i + 1].releaseTime > old[i].releaseTime
        /\ old[i + 1].released => old[i].released
    BY <1>11 DEF InOrder, n
  <2> QED BY <1>5, <1>8, <1>10, <2>1, <2>2
<1>14. \A i \in 1..n : new[i].released => new[i].releaseTime <= blockTime
  BY <1>8, <1>11
<1>15. n \in 1..n BY <1>6, <1>11
<1>16. new[n].released <=> old[n].releaseTime <= blockTime
  BY <1>8, <1>11, <1>15
<1>17. LastEnd(b) <= blockTime BY <1>7, <1>11 DEF LastEnd
<1>18. VestingOK(b, new, blockTime)
  BY <1>7, <1>9, <1>11, <1>12, <1>13, <1>14, <1>16, <1>17 DEF VestingOK
<1> QED BY <1>2, <1>18, OneVesting

\* The steps that change neither the status of an auction that is not settled,
\* nor the queues.
LEMMA OtherVesting ==
  ASSUME TypeOK, VestingInv, [Next]_vars, NEW id \in Ids, ChangesOnly(id),
         vestingQueues'[id] = vestingQueues[id],
         auctions'[id].status = auctions[id].status,
         auctions'[id].endTimes = auctions[id].endTimes
  PROVE  VestingInv'
<1>1. blockTime \in Nat /\ blockTime' \in Nat /\ blockTime' >= blockTime
  BY TimeAdvances
<1>2. auctions[id] \in Auction /\ vestingQueues[id] \in Seq(VestingQueue)
  BY AuctionFacts DEF TypeOK
<1>3. VestingOK(auctions[id], vestingQueues[id], blockTime) BY DEF VestingInv
<1>4. VestingOK(auctions[id], vestingQueues[id], blockTime')
  BY <1>1, <1>2, <1>3, LaterOK
<1>5. VestingOK(auctions'[id], vestingQueues[id], blockTime')
  BY <1>4, SameVesting
<1> QED BY <1>5, OneVesting

\* The steps of an auction that is not settled yet.
LEMMA UnsettledVesting ==
  ASSUME TypeOK, VestingInv, [Next]_vars, NEW id \in Ids, ChangesOnly(id),
         vestingQueues'[id] = <<>>,
         auctions'[id].status \in {"StandBy", "Started", "Cancelled"}
  PROVE  VestingInv'
<1>1. VestingOK(auctions'[id], vestingQueues'[id], blockTime') BY NoQueuesOK
<1> QED BY <1>1, OneVesting

\* Every step keeps the vesting in order.
LEMMA VestingStep ==
  ASSUME TypeOK, RecordsInv, VestingInv, [Next]_vars
  PROVE  VestingInv'
<1>1. CASE Quiet
  <2>1. blockTime \in Nat /\ blockTime' \in Nat /\ blockTime' >= blockTime
    BY TimeAdvances
  <2>2. ASSUME NEW id \in Ids
        PROVE  VestingOK(auctions[id], vestingQueues[id], blockTime')
    <3>1. auctions[id] \in Auction /\ vestingQueues[id] \in Seq(VestingQueue)
      BY AuctionFacts DEF TypeOK
    <3>2. VestingOK(auctions[id], vestingQueues[id], blockTime) BY DEF VestingInv
    <3> QED BY <2>1, <3>1, <3>2, LaterOK
  <2>3. Ids' = Ids BY <1>1 DEF Quiet, Ids
  <2> QED BY <1>1, <2>2, <2>3 DEF Quiet, VestingInv
<1>2. ASSUME NEW id \in Ids, Status(id) \in {"StandBy", "Started", "Cancelled"}
      PROVE  /\ id \in AuctionIds /\ vestingQueues[id] = <<>>
             /\ auctions[id] \in Auction
  BY <1>2, AuctionFacts DEF RecordsInv, RecordsOf, RecordOK, Status
<1>3. ASSUME NEW m \in CreateMsgs,
             CreateFixedPriceAuction(m) \/ CreateBatchAuction(m)
      PROVE  VestingInv'
  <2> DEFINE a == NewAuction(m)
  <2>1. CreateAuction(m)
    BY <1>3 DEF CreateFixedPriceAuction, CreateBatchAuction
  <2>2. PICK id \in AuctionIds :
          /\ id \notin Ids
          /\ Ids' = Ids \cup {id}
          /\ auctions'[id] = a
          /\ vestingQueues'[id] = vestingQueues[id]
          /\ \A j \in AuctionIds \ {id} : Same(j)
    BY <2>1, CreateEffect
  <2>3. vestingQueues[id] = <<>> BY <2>2 DEF RecordsInv, RecordsOf
  <2>4. a.status \in {"StandBy", "Started", "Cancelled"} BY DEF NewAuction
  <2> HIDE DEF a
  <2>5. VestingOK(auctions'[id], vestingQueues'[id], blockTime')
    BY <2>2, <2>3, <2>4, NoQueuesOK
  <2>6. blockTime \in Nat /\ blockTime' \in Nat /\ blockTime' >= blockTime
    BY TimeAdvances
  <2>7. ASSUME NEW j \in Ids
        PROVE  VestingOK(auctions'[j], vestingQueues'[j], blockTime')
    <3>1. j \in AuctionIds /\ auctions[j] \in Auction BY AuctionFacts
    <3>2. vestingQueues[j] \in Seq(VestingQueue) BY <3>1 DEF TypeOK
    <3>3. auctions'[j] = auctions[j] /\ vestingQueues'[j] = vestingQueues[j]
      BY <2>2, <3>1 DEF Same
    <3>4. VestingOK(auctions[j], vestingQueues[j], blockTime) BY DEF VestingInv
    <3> QED BY <2>6, <3>1, <3>2, <3>3, <3>4, LaterOK
  <2> QED BY <2>2, <2>5, <2>7 DEF VestingInv
<1>4. ASSUME NEW id \in Ids, NEW u \in Users, CancelAuction(id, u)
      PROVE  VestingInv'
  <2>1. /\ ChangesOnly(id) /\ Status(id) = "StandBy"
        /\ auctions'[id] = [auctions[id] EXCEPT !.status = "Cancelled", !.remaining = 0]
        /\ vestingQueues'[id] = vestingQueues[id]
    BY <1>4, CancelEffect
  <2>2. vestingQueues'[id] = <<>> /\ auctions[id] \in Auction BY <1>2, <2>1
  <2>3. auctions'[id].status = "Cancelled" BY <2>1, <2>2, RecordFields
  <2> QED BY <2>1, <2>2, <2>3, UnsettledVesting
<1>5. ASSUME NEW id \in Ids, ExecuteStandByStatus(id)
      PROVE  VestingInv'
  <2>1. /\ ChangesOnly(id) /\ Status(id) = "StandBy"
        /\ auctions'[id] = [auctions[id] EXCEPT !.status = "Started"]
        /\ vestingQueues'[id] = vestingQueues[id]
    BY <1>5, StandByEffect
  <2>2. vestingQueues'[id] = <<>> /\ auctions[id] \in Auction BY <1>2, <2>1
  <2>3. auctions'[id].status = "Started" BY <2>1, <2>2, RecordFields
  <2> QED BY <2>1, <2>2, <2>3, UnsettledVesting
<1>6. ASSUME NEW id \in Ids, ExtendRound(id)
      PROVE  VestingInv'
  <2> DEFINE e == Append(auctions[id].endTimes, EndTime(id) + extendedPeriod)
  <2>1. /\ ChangesOnly(id) /\ Status(id) = "Started"
        /\ auctions'[id] = [auctions[id] EXCEPT !.endTimes = e]
        /\ vestingQueues'[id] = vestingQueues[id]
    BY <1>6, ExtendEffect
  <2>2. vestingQueues'[id] = <<>> /\ auctions[id] \in Auction BY <1>2, <2>1
  <2> HIDE DEF e
  <2>3. auctions'[id].status = "Started" BY <2>1, <2>2, RecordFields DEF Status
  <2> QED BY <2>1, <2>2, <2>3, UnsettledVesting
<1>7. ASSUME NEW id \in Ids, NEW bid \in BidMsg,
             \/ PlaceFixedPriceBid(id, bid)
             \/ PlaceBatchWorthBid(id, bid)
             \/ PlaceBatchManyBid(id, bid)
      PROVE  VestingInv'
  <2>1. /\ ChangesOnly(id) /\ Status(id) = "Started"
        /\ vestingQueues'[id] = vestingQueues[id]
        /\ \/ auctions'[id] = auctions[id]
           \/ \E r : auctions'[id] = [auctions[id] EXCEPT !.remaining = r]
    BY <1>7, PlaceEffect
  <2>2. auctions[id] \in Auction BY AuctionFacts
  <2>3. auctions'[id].status = auctions[id].status
        /\ auctions'[id].endTimes = auctions[id].endTimes
    BY <2>1, <2>2 DEF Auction
  <2> QED BY <2>1, <2>3, OtherVesting
<1>8. ASSUME NEW id \in Ids, NEW k \in 1..Len(bids[id]), NEW u \in Users,
             NEW price \in Prices, NEW denom \in Denoms, NEW amount \in Amounts,
             ModifyBid(id, k, u, price, denom, amount)
      PROVE  VestingInv'
  <2>1. /\ ChangesOnly(id) /\ auctions'[id] = auctions[id]
        /\ vestingQueues'[id] = vestingQueues[id]
    BY <1>8, ModifyEffect
  <2> QED BY <2>1, OtherVesting
<1>9. ASSUME NEW id \in Ids, NEW u \in Users, NEW amount \in Transfers,
             TransferToReserve(id, u, amount)
      PROVE  VestingInv'
  <2>1. /\ ChangesOnly(id) /\ auctions'[id] = auctions[id]
        /\ vestingQueues'[id] = vestingQueues[id]
    BY <1>9, TransferEffect
  <2> QED BY <2>1, OtherVesting
<1> QED
  BY <1>1, <1>3, <1>4, <1>5, <1>6, <1>7, <1>8, <1>9, StepCases, CloseVesting,
     ReleaseVesting, Zenon

\* The BeginBlocker keeps the queues of every auction in order.
LEMMA VestingSound == Spec => []VestingInv
<1>1. Init => VestingInv
  <2>1. Init => Ids = {} BY EmptySeq DEF Init, Ids
  <2> QED BY <2>1 DEF VestingInv
<1>2. TypeOK /\ RecordsInv /\ VestingInv /\ [Next]_vars => VestingInv'
  BY VestingStep
<1> QED BY <1>1, <1>2, TypeCorrect, RecordsSound, PTL DEF Spec

\* What VestingInv says of the queues of an auction.
LEMMA VestingInOrderNow == TypeOK /\ RecordsInv /\ VestingInv => VestingInOrder
<1> SUFFICES ASSUME TypeOK, RecordsInv, VestingInv, NEW id \in Ids
             PROVE  LET queues == vestingQueues[id]
                        n == Len(queues)
                    IN  /\ \A i \in 1..(n - 1) :
                             queues[i + 1].released => queues[i].released
                        /\ n > 0 => Settled(id)
                        /\ n > 0 => (Status(id) = "Finished" <=>
                                       queues[n].released)
                        /\ \A i \in 1..n : queues[i].released =>
                             /\ queues[i].releaseTime <= blockTime
                             /\ EndTime(id) <= blockTime
  BY DEF VestingInOrder
<1> DEFINE a == auctions[id]
           queues == vestingQueues[id]
           n == Len(queues)
<1>1. VestingOK(a, queues, blockTime) BY DEF VestingInv
<1>2. a.status \in AuctionStatus BY AuctionFacts DEF Auction
<1>3. a.status \in {"StandBy", "Cancelled", "Started"} => queues = <<>>
  BY AuctionFacts DEF RecordsInv, RecordsOf, RecordOK
<1>4. Len(<<>>) = 0 OBVIOUS
<1>5. Status(id) = a.status /\ EndTime(id) = LastEnd(a)
  BY DEF Status, EndTime, LastEnd
<1>6. Settled(id) <=> a.status \in {"Vesting", "Finished"} BY DEF Settled, Status
<1>7. queues \in Seq(VestingQueue) BY AuctionFacts DEF TypeOK
<1>8. n \in Nat BY <1>7, LenProperties
<1> HIDE DEF a, queues, n
<1>9. n = Len(queues) BY DEF n
<1>10. n > 0 => a.status \in {"Vesting", "Finished"}
  BY <1>2, <1>3, <1>4, <1>9 DEF AuctionStatus
<1>11. \A i \in 1..(n - 1) : queues[i + 1].released => queues[i].released
  BY <1>1, <1>9 DEF VestingOK, InOrder
<1>12. n > 0 => (a.status = "Finished" <=> queues[n].released)
  BY <1>1, <1>9, <1>10 DEF VestingOK
<1>13. \A i \in 1..n : queues[i].released =>
         queues[i].releaseTime <= blockTime /\ LastEnd(a) <= blockTime
  BY <1>1, <1>8, <1>9, <1>10 DEF VestingOK
<1> QED BY <1>5, <1>6, <1>10, <1>11, <1>12, <1>13 DEF queues, n

\* keeper/vesting.go: vested coins are released in the order of the schedules,
\* an auction is finished exactly when its last queue is released, and nothing is
\* released before its time or before the auction is over.
THEOREM VestingIsInOrder == Spec => []VestingInOrder
BY VestingInOrderNow, TypeCorrect, RecordsSound, VestingSound, PTL

-----------------------------------------------------------------------------
(***************************************************************************)
(* The settlement of an auction: every transfer is covered, and every      *)
(* amount is a natural number.                                             *)
(***************************************************************************)

\* Portions that are within their share, one by one, are so together.
LEMMA SumOfShares ==
  ASSUME NEW N \in Nat, NEW f, NEW w, NEW c \in Nat, NEW r \in Nat,
         \A k \in 1..N : f[k] \in Nat /\ w[k] \in Nat /\ f[k] * c <= r * w[k]
  PROVE  SumTo(N, f) * c <= r * SumTo(N, w)
<1> DEFINE T == {n \in Nat : n <= N => SumTo(n, f) * c <= r * SumTo(n, w)}
<1>1. Summable(N, f) /\ Summable(N, w) BY DEF Summable
<1>2. 0 \in T
  <2>1. SumTo(0, f) = 0 /\ SumTo(0, w) = 0 BY <1>1, SumStep
  <2> QED BY <2>1
<1>3. ASSUME NEW n \in Nat, n \in T PROVE n + 1 \in T
  <2> SUFFICES ASSUME n + 1 <= N
               PROVE  SumTo(n + 1, f) * c <= r * SumTo(n + 1, w)
    OBVIOUS
  <2>1. /\ Summable(n, f) /\ Summable(n, w)
        /\ Summable(n + 1, f) /\ Summable(n + 1, w)
    BY <1>1, SummablePrefix
  <2>2. /\ SumTo(n + 1, f) = SumTo(n, f) + f[n + 1]
        /\ SumTo(n + 1, w) = SumTo(n, w) + w[n + 1]
    <3>1. n + 1 \in Nat /\ n + 1 > 0 /\ (n + 1) - 1 = n OBVIOUS
    <3>2. /\ SumTo(n + 1, f) = SumTo((n + 1) - 1, f) + f[n + 1]
          /\ SumTo(n + 1, w) = SumTo((n + 1) - 1, w) + w[n + 1]
      BY <2>1, <3>1, SumStep
    <3> QED BY <3>1, <3>2
  <2> DEFINE s == SumTo(n, f)
             t == SumTo(n, w)
             x == f[n + 1]
             y == w[n + 1]
  <2>3. s \in Int /\ t \in Int BY <2>1, SumStep
  <2>4. x \in Nat /\ y \in Nat /\ x * c <= r * y OBVIOUS
  <2>5. s * c <= r * t BY <1>3
  <2> HIDE DEF s, t, x, y
  <2>6. (s + x) * c = s * c + x * c /\ r * (t + y) = r * t + r * y
    BY <2>3, <2>4
  <2>7. s * c \in Int /\ x * c \in Int /\ r * t \in Int /\ r * y \in Int
    BY <2>3, <2>4
  <2>8. (s + x) * c <= r * (t + y)
    <3> DEFINE a == s * c
               b == x * c
               d == r * t
               e == r * y
    <3>1. a \in Int /\ b \in Int /\ d \in Int /\ e \in Int /\ a <= d /\ b <= e
      BY <2>4, <2>5, <2>7
    <3>2. a + b <= d + e
      <4> HIDE DEF a, b, d, e
      <4> QED BY <3>1
    <3> QED BY <2>6, <3>2
  <2> QED BY <2>2, <2>8 DEF s, t, x, y
<1>4. N \in T
  <2> HIDE DEF T
  <2> QED BY <1>2, <1>3, InductiveSet
<1> QED BY <1>4

\* A factor that both sides have can be dropped.
LEMMA DropFactor ==
  ASSUME NEW a \in Nat, NEW b \in Nat, NEW c \in Nat \ {0}, a * c <= b * c
  PROVE  a <= b
<1> SUFFICES ASSUME b + 1 <= a PROVE FALSE OBVIOUS
<1>1. (b + 1) * c <= a * c BY ProductMonotone
<1>2. (b + 1) * c = b * c + c /\ b * c \in Nat /\ a * c \in Nat OBVIOUS
<1> DEFINE x == a * c
           y == b * c
<1>3. x \in Nat /\ y \in Nat /\ x <= y /\ y + c <= x BY <1>1, <1>2
<1> HIDE DEF x, y
<1> QED BY <1>3

\* keeper/vesting.go, ApplyVestingSchedules: the weights add up to one, so that
\* the portions are within what was raised, and no queue has a negative amount.
LEMMA PortionsFit ==
  ASSUME NEW schedules \in Seq(Schedule), NEW endTime,
         ValidateVestingSchedules(schedules, endTime), NEW raised \in Nat
  PROVE  \A i \in 1..Len(schedules) :
           NewVestingQueues(schedules, raised)[i].amount \in Nat
<1> DEFINE n == Len(schedules)
           w == [i \in 1..n |-> schedules[i].weight]
           portion == [i \in 1..n |-> MulTruncateInt(raised, schedules[i].weight)]
           rest == raised - SumTo(n - 1, portion)
<1>1. n \in Nat /\ \A i \in 1..n : portion[i] \in Nat BY PortionTypes
<1> SUFFICES ASSUME NEW i \in 1..n
             PROVE  NewVestingQueues(schedules, raised)[i].amount \in Nat
  OBVIOUS
<1>2. NewVestingQueues(schedules, raised)[i].amount =
        IF i = n THEN rest ELSE portion[i]
  BY DEF NewVestingQueues
<1>3. n > 0 /\ n - 1 \in Nat BY <1>1
<1>4. /\ \A k \in 1..n : w[k] \in 1..ONE
      /\ SumTo(n, w) = ONE
  BY <1>3 DEF ValidateVestingSchedules
<1>5. \A k \in 1..n : w[k] \in Nat BY <1>4, OneAssumption
<1>6. ASSUME NEW k \in 1..n PROVE portion[k] * ONE <= raised * w[k]
  <2> DEFINE v == w[k]
             x == raised * v
  <2>1. v \in Nat BY <1>5
  <2>2. portion[k] = x \div ONE BY DEF MulTruncateInt
  <2> HIDE DEF v, portion
  <2>3. x \in Nat BY <2>1
  <2> HIDE DEF x
  <2>4. (x \div ONE) * ONE <= x BY <2>3, OneAssumption, DivBounds
  <2> QED BY <2>2, <2>4 DEF x, v
<1> HIDE DEF w, portion
<1>7. Summable(n, w) BY <1>5 DEF Summable
<1>8. SumTo(n, w) = SumTo(n - 1, w) + w[n] BY <1>1, <1>3, <1>7, SumStep
<1>9. \A k \in 1..(n - 1) : portion[k] \in Nat /\ w[k] \in Nat
  BY <1>1, <1>5
<1> DEFINE s == SumTo(n - 1, portion)
           t == SumTo(n - 1, w)
<1>10. s \in Nat /\ t \in Nat BY <1>3, <1>9, SumNat
<1>11. w[n] \in Nat BY <1>1, <1>3, <1>5
<1>12. s * ONE <= raised * t
  <2>1. \A k \in 1..(n - 1) :
          portion[k] \in Nat /\ w[k] \in Nat /\ portion[k] * ONE <= raised * w[k]
    BY <1>1, <1>6, <1>9
  <2>2. ONE \in Nat BY OneAssumption
  <2> QED BY <1>3, <2>1, <2>2, SumOfShares
<1> HIDE DEF s, t, n
<1>13. t <= ONE BY <1>4, <1>8, <1>10, <1>11 DEF t
<1>14. raised * t <= raised * ONE /\ raised * t \in Nat /\ raised * ONE \in Nat
  <2>1. t * raised <= ONE * raised BY <1>10, <1>13, OneAssumption, ProductMonotone
  <2>2. t * raised = raised * t /\ ONE * raised = raised * ONE
        /\ raised * t \in Nat /\ raised * ONE \in Nat
    BY <1>10, OneAssumption
  <2> QED BY <2>1, <2>2
<1>15. s * ONE \in Nat BY <1>10, OneAssumption
<1>16. s * ONE <= raised * ONE
  <2> DEFINE a == s * ONE
             b == raised * t
             c == raised * ONE
  <2>1. a \in Nat /\ b \in Nat /\ c \in Nat /\ a <= b /\ b <= c
    BY <1>12, <1>14, <1>15
  <2>2. a <= c
    <3> HIDE DEF a, b, c
    <3> QED BY <2>1
  <2> QED BY <2>2
<1>17. s <= raised BY <1>10, <1>16, OneAssumption, DropFactor
<1>18. rest \in Nat BY <1>10, <1>17 DEF s
<1> HIDE DEF rest
<1> QED BY <1>1, <1>2, <1>18

\* What the bidders of a book bought and reserved, added up bidder by bidder.
LEMMA TotalsByBidder ==
  ASSUME NEW book \in Book, NEW denom
  PROVE  /\ Total([u \in Users |-> TotalSellingAmount(book, u, denom)]) =
              SoldCoin(book, denom)
         /\ Total([u \in Users |-> TotalPayingAmount(book, u, denom)]) =
              BidCoin(book, denom)
<1> DEFINE N == Len(book)
           owner == [k \in 1..N |-> book[k].bidder]
           f == [k \in 1..N |-> ConvertToSellingAmount(book[k], denom)]
           g == [k \in 1..N |-> ConvertToPayingAmount(book[k], denom)]
           hf == [u \in Users |-> TotalSellingAmount(book, u, denom)]
           hg == [u \in Users |-> TotalPayingAmount(book, u, denom)]
<1>1. /\ N \in Nat
      /\ \A k \in 1..N : book[k] \in Bid /\ f[k] \in Nat /\ g[k] \in Nat
  BY BookTypes
<1>2. \A k \in 1..N : owner[k] \in Users BY <1>1 DEF Bid
<1>3. ASSUME NEW u \in Users
      PROVE  hf[u] = SumTo(N, ShareOf(N, f, owner, u))
  <2>1. ShareOf(N, f, owner, u) =
          [k \in 1..N |-> IF book[k].bidder = u
             THEN ConvertToSellingAmount(book[k], denom) ELSE 0]
    BY DEF ShareOf
  <2> QED BY <2>1 DEF TotalSellingAmount
<1>4. ASSUME NEW u \in Users
      PROVE  hg[u] = SumTo(N, ShareOf(N, g, owner, u))
  <2>1. ShareOf(N, g, owner, u) =
          [k \in 1..N |-> IF book[k].bidder = u
             THEN ConvertToPayingAmount(book[k], denom) ELSE 0]
    BY DEF ShareOf
  <2> QED BY <2>1 DEF TotalPayingAmount
<1> HIDE DEF N, owner, f, g, hf, hg
<1>5. Summable(N, f) /\ Summable(N, g) BY <1>1 DEF Summable
<1>6. SumFunctionOnSet(hf, Users) = SumTo(N, f)
  BY <1>1, <1>2, <1>3, <1>5, FundraisingAssumption, SumByOwner
<1>7. SumFunctionOnSet(hg, Users) = SumTo(N, g)
  BY <1>1, <1>2, <1>4, <1>5, FundraisingAssumption, SumByOwner
<1> QED BY <1>6, <1>7 DEF Total, SoldCoin, BidCoin, N, f, g, hf, hg

\* What an auction that takes bids has to pay out with.
LEMMA StartedCovers ==
  ASSUME TypeOK, RecordsInv, Covered, NEW id \in Ids, Status(id) = "Started"
  PROVE  /\ id \in AuctionIds /\ Msg(id) \in CreateMsg
         /\ ValidMsg(Msg(id)) /\ BookFits(Msg(id), bids[id])
         /\ sellingReserve[id] \in Nat
         /\ payingReserve[id] \in Nat
         /\ Msg(id).sellingAmt \in Nat
         /\ Msg(id).sellingAmt <= sellingReserve[id]
         /\ BidCoin(bids[id], Msg(id).payingDenom) <= payingReserve[id]
<1>1. id \in AuctionIds /\ auctions[id] \in Auction /\ Msg(id) \in CreateMsg
  BY AuctionFacts
<1>2. Msg(id).sellingAmt \in Nat BY <1>1 DEF CreateMsg
<1>3. ValidMsg(Msg(id)) /\ BookFits(Msg(id), bids[id])
  BY <1>1 DEF RecordsInv, RecordsOf, RecordOK, Msg
<1>4. /\ BidCoin(bids[id], Msg(id).payingDenom) \in Nat
      /\ sellingReserve[id] \in Nat /\ payingReserve[id] \in Nat
  BY OwedTypes
<1>5. SellingSurplus(id) \in Nat /\ PayingSurplus(id) \in Nat
  BY <1>1 DEF Covered
<1>6. /\ SellingSurplus(id) = sellingReserve[id] - Msg(id).sellingAmt
      /\ PayingSurplus(id) =
           payingReserve[id] - BidCoin(bids[id], Msg(id).payingDenom)
  BY DEF SellingSurplus, PayingSurplus, SellingOwed, PayingOwed, Status, Msg
<1>7. /\ Msg(id).sellingAmt <= sellingReserve[id]
      /\ BidCoin(bids[id], Msg(id).payingDenom) <= payingReserve[id]
  BY <1>2, <1>4, <1>5, <1>6
<1> QED BY <1>1, <1>2, <1>3, <1>4, <1>7

\* The book of a batch auction is one that the matching can handle.
LEMMA BatchInput ==
  ASSUME TypeOK, NEW id \in Ids, Batch(id),
         ValidMsg(Msg(id)), BookFits(Msg(id), bids[id])
  PROVE  /\ DOMAIN allowed[id] = Users
         /\ MatchInput(bids[id], Msg(id).payingDenom, Msg(id).sellingAmt,
                       allowed[id])
<1> DEFINE m == Msg(id)
           book == bids[id]
           d == m.payingDenom
<1>1. id \in AuctionIds /\ m \in CreateMsg BY AuctionFacts
<1>2. m.sellingAmt \in Nat BY <1>1 DEF CreateMsg
<1>3. allowed[id] \in [Users -> Nat] BY <1>1 DEF TypeOK
<1>4. book \in Book /\ \A k \in 1..Len(book) : BidFits(m, book[k])
  BY DEF BookFits
<1>5. m.sellingDenom # d /\ m.type = "Batch" BY DEF ValidMsg, Batch
<1> HIDE DEF m, book, d
<1>6. Len(book) \in Nat /\ \A k \in 1..Len(book) : book[k] \in Bid
  BY <1>4, BookTypes
<1>7. ASSUME NEW k \in 1..Len(book) PROVE ValidBid(book[k], Users, d)
  <2> DEFINE b == book[k]
  <2>1. b \in Bid /\ b.price > 0 BY <1>4, <1>6 DEF Book
  <2>2. b.bidder \in Users /\ b.price \in Nat \ {0} /\ b.amount \in Nat
    BY <2>1 DEF Bid, Decimals
  <2>3. BidFits(m, b) BY <1>4
  <2>4. b.type = "BatchWorth" <=> b.denom = d BY <1>5, <2>3 DEF BidFits, d
  <2> HIDE DEF b
  <2>5. ValidBid(b, Users, d) BY <2>2, <2>4 DEF ValidBid
  <2> QED BY <2>5 DEF b
<1>8. DOMAIN allowed[id] = Users BY <1>3
<1> QED
  BY <1>2, <1>3, <1>6, <1>7, <1>8, FundraisingAssumption DEF MatchInput, m, book, d

\* A settlement that pays out no more than is reserved does not fail.
LEMMA SettlementFits ==
  ASSUME TypeOK, NEW id \in Ids, Msg(id) \in CreateMsg, ValidMsg(Msg(id)),
         NEW allocation \in [Users -> Nat], NEW refund \in [Users -> Nat],
         Total(allocation) <= sellingReserve[id],
         Total(refund) <= payingReserve[id],
         sellingReserve[id] \in Nat, payingReserve[id] \in Nat
  PROVE  CanSettle(id, allocation, refund)
<1>1. Total(allocation) \in Nat /\ Total(refund) \in Nat
  BY FundraisingAssumption, SetSumNat DEF Total
<1>2. Raised(id, refund) \in Nat BY <1>1 DEF Raised
<1>3. \A i \in 1..Len(Msg(id).schedules) :
        NewVestingQueues(Msg(id).schedules, Raised(id, refund))[i].amount \in Nat
  <2>1. Msg(id).schedules \in Seq(Schedule) BY DEF CreateMsg
  <2> QED BY <1>2, <2>1, PortionsFit DEF ValidMsg
<1> QED BY <1>1, <1>3 DEF CanSettle

\* keeper/auction.go, CloseFixedPriceAuction: what the accepted bids bought is in
\* the selling reserve.
LEMMA FixedPriceFits ==
  ASSUME TypeOK, RecordsInv, Covered, NEW id \in Ids, Status(id) = "Started",
         FixedPrice(id)
  PROVE  CanSettle(id, FixedPriceAllocation(id), NoRefund)
<1> DEFINE m == Msg(id)
           book == bids[id]
           d == m.payingDenom
           allocation == [u \in Users |-> TotalSellingAmount(book, u, d)]
<1>1. /\ id \in AuctionIds /\ m \in CreateMsg /\ ValidMsg(m)
      /\ BookFits(m, book)
      /\ sellingReserve[id] \in Nat /\ payingReserve[id] \in Nat
      /\ m.sellingAmt \in Nat /\ m.sellingAmt <= sellingReserve[id]
  BY StartedCovers
<1>2. FixedPriceAllocation(id) = allocation
  BY DEF FixedPriceAllocation, CalculateFixedPriceAllocation
<1>3. book \in Book BY <1>1 DEF BookFits
<1>4. auctions[id].remaining \in Nat BY AuctionFacts DEF Auction
<1>5. auctions[id].remaining + SoldCoin(book, d) = m.sellingAmt
  BY <1>1 DEF RecordsInv, RecordsOf, RecordOK, Status, Msg, FixedPrice
<1> HIDE DEF m, book, d
<1>6. SoldCoin(book, d) \in Nat BY <1>3, BookSums
<1>7. Total(allocation) = SoldCoin(book, d) BY <1>3, TotalsByBidder
<1>8. ASSUME NEW u \in Users PROVE TotalSellingAmount(book, u, d) \in Nat
  <2> DEFINE f == [k \in 1..Len(book) |->
                     IF book[k].bidder = u
                       THEN ConvertToSellingAmount(book[k], d) ELSE 0]
  <2>1. Len(book) \in Nat /\ \A k \in 1..Len(book) : f[k] \in Nat
    BY <1>3, BookTypes
  <2> HIDE DEF f
  <2>2. SumTo(Len(book), f) \in Nat BY <2>1, SumNat
  <2> QED BY <2>2 DEF TotalSellingAmount, f
<1>9. allocation \in [Users -> Nat] BY <1>8
<1> HIDE DEF allocation
<1>10. NoRefund \in [Users -> Nat] /\ \A u \in Users : NoRefund[u] = 0
  BY DEF NoRefund
<1>11. Total(NoRefund) = 0
  BY <1>10, FundraisingAssumption, SetSumZero DEF Total
<1>12. /\ Total(allocation) <= sellingReserve[id]
       /\ Total(NoRefund) <= payingReserve[id]
  BY <1>1, <1>4, <1>5, <1>6, <1>7, <1>11
<1> QED BY <1>1, <1>2, <1>9, <1>10, <1>12, SettlementFits DEF m

\* keeper/auction.go, CloseBatchAuction: what the matching allocates is on offer,
\* and what it refunds was reserved.
LEMMA BatchFits ==
  ASSUME TypeOK, RecordsInv, Covered, NEW id \in Ids, Status(id) = "Started",
         Batch(id)
  PROVE  CanSettle(id, BatchAllocation(id).allocation, BatchAllocation(id).refund)
<1> DEFINE m == Msg(id)
           book == bids[id]
           d == m.payingDenom
           info == BatchAllocation(id)
           reserved == [u \in Users |-> TotalPayingAmount(book, u, d)]
<1>1. /\ id \in AuctionIds /\ m \in CreateMsg /\ ValidMsg(m)
      /\ BookFits(m, book)
      /\ sellingReserve[id] \in Nat /\ payingReserve[id] \in Nat
      /\ m.sellingAmt \in Nat /\ m.sellingAmt <= sellingReserve[id]
      /\ BidCoin(book, d) <= payingReserve[id]
  BY StartedCovers
<1>2. /\ DOMAIN allowed[id] = Users
      /\ MatchInput(book, d, m.sellingAmt, allowed[id])
  BY <1>1, BatchInput
<1>3. FairMatch(info, book, d, m.sellingAmt, allowed[id])
  BY <1>2, BatchAllocationFair DEF BatchAllocation
<1>4. book \in Book BY <1>1 DEF BookFits
<1> HIDE DEF m, book, d, info
<1>5. /\ info.allocation \in [Users -> Nat] /\ info.refund \in [Users -> Nat]
      /\ SumFunctionOnSet(info.allocation, Users) \in 0..m.sellingAmt
      /\ \A u \in Users : info.refund[u] <= TotalPayingAmount(book, u, d)
  BY <1>2, <1>3 DEF FairMatch
<1>6. \A u \in Users : TotalPayingAmount(book, u, d) \in Nat
  BY <1>2, CostsSplit
<1>7. /\ \A u \in Users : reserved[u] \in Nat /\ info.refund[u] \in Nat
                          /\ info.refund[u] <= reserved[u]
      /\ Total(reserved) = BidCoin(book, d)
  BY <1>4, <1>5, <1>6, TotalsByBidder
<1> HIDE DEF reserved
<1>8. SummableOn(Users, reserved) /\ SummableOn(Users, info.refund)
  BY <1>7 DEF SummableOn
<1>9. Total(info.refund) <= Total(reserved)
  BY <1>7, <1>8, FundraisingAssumption, SetSumMonotone DEF Total
<1>10. Total(reserved) \in Int /\ Total(info.refund) \in Int
  BY <1>8, FundraisingAssumption, SetSumInt DEF Total
<1>11. Total(info.refund) <= payingReserve[id] BY <1>1, <1>7, <1>9, <1>10
<1>12. Total(info.allocation) <= sellingReserve[id] BY <1>1, <1>5 DEF Total
<1> QED BY <1>1, <1>5, <1>11, <1>12, SettlementFits DEF m, info

\* keeper/vesting.go, ReleaseVestingPayingCoin: what is due is in the vesting
\* reserve.
LEMMA ReleaseFits ==
  ASSUME TypeOK, Covered, NEW id \in Ids
  PROVE  CanRelease(id)
<1> DEFINE queues == vestingQueues[id]
           new == ReleasedQueues(queues, blockTime)
<1>1. id \in AuctionIds BY AuctionFacts
<1>2. queues \in Seq(VestingQueue) /\ vestingReserve[id] \in Nat
  BY <1>1 DEF TypeOK
<1>3. ReleasedAmount(id) = DueBy(queues, blockTime)
  BY DEF ReleasedAmount, DueBy, ShouldRelease
<1>4. vestingReserve[id] - Unreleased(queues) \in Nat
  BY <1>1 DEF Covered, VestingSurplus
<1> HIDE DEF queues
<1>5. /\ DueBy(queues, blockTime) \in Nat /\ Unreleased(new) \in Nat
      /\ Unreleased(queues) = Unreleased(new) + DueBy(queues, blockTime)
  BY <1>2, ReleaseSums
<1> HIDE DEF new
<1>6. DueBy(queues, blockTime) \in 0..vestingReserve[id] BY <1>2, <1>4, <1>5
<1> QED BY <1>3, <1>6 DEF CanRelease

\* The invariants allow every settlement and every release.
LEMMA NeverPanicsNow ==
  TypeOK /\ RecordsInv /\ Covered => BeginBlockerNeverPanics
<1> SUFFICES ASSUME TypeOK, RecordsInv, Covered, NEW id \in Ids
             PROVE  /\ Status(id) = "Started" /\ FixedPrice(id) =>
                         CanSettle(id, FixedPriceAllocation(id), NoRefund)
                    /\ ClosingBatch(id) =>
                         CanSettle(id, BatchAllocation(id).allocation,
                                   BatchAllocation(id).refund)
                    /\ CanRelease(id)
  BY Zenon DEF BeginBlockerNeverPanics
<1>1. ClosingBatch(id) => Status(id) = "Started" /\ Batch(id)
  BY DEF ClosingBatch, Batch
<1> QED BY <1>1, FixedPriceFits, BatchFits, ReleaseFits

\* keeper/auction.go, BeginBlocker: no settlement and no release of vested coins
\* ever fails, whatever was bid, modified, allowed or sent to the reserve accounts
\* before: the chain does not halt.
THEOREM BeginBlockerIsSafe == Spec => []BeginBlockerNeverPanics
BY NeverPanicsNow, TypeCorrect, RecordsSound, CoveredSound, PTL

-----------------------------------------------------------------------------
(***************************************************************************)
(* The settlement of a batch auction is fair.                              *)
(***************************************************************************)

\* An auction that takes bids does so until it is closed.
StaysOpen(id) == auctions'[id].status = "Started"

\* The steps of another auction leave it alone.
LEMMA OthersStayOpen ==
  ASSUME TypeOK, NEW id \in Ids, Status(id) = "Started", NEW j, ChangesOnly(j),
         j # id
  PROVE  StaysOpen(id)
<1>1. id \in AuctionIds BY AuctionFacts
<1> QED BY <1>1 DEF ChangesOnly, Same, StaysOpen, Status

\* Nothing but the BeginBlocker settles an auction, and only one that takes bids.
LEMMA OnlyCloseSettles ==
  ASSUME TypeOK, [Next]_vars, NEW id \in Ids, Status(id) = "Started"
  PROVE  \/ StaysOpen(id)
         \/ CloseFixedPriceAuction(id)
         \/ CloseBatchAuction(id)
<1>1. id \in AuctionIds /\ auctions[id] \in Auction BY AuctionFacts
<1>2. CASE Quiet BY <1>2 DEF Quiet, StaysOpen, Status
<1>3. ASSUME NEW m \in CreateMsgs,
             CreateFixedPriceAuction(m) \/ CreateBatchAuction(m)
      PROVE  StaysOpen(id)
  <2>1. CreateAuction(m) BY <1>3 DEF CreateFixedPriceAuction, CreateBatchAuction
  <2>2. PICK new \in AuctionIds :
          new \notin Ids /\ \A j \in AuctionIds \ {new} : Same(j)
    BY <2>1, CreateEffect
  <2> QED BY <1>1, <2>2 DEF Same, StaysOpen, Status
<1>4. ASSUME NEW j \in Ids, NEW u \in Users, CancelAuction(j, u)
      PROVE  StaysOpen(id)
  <2>1. ChangesOnly(j) /\ Status(j) = "StandBy" BY <1>4, CancelEffect
  <2>2. j # id BY <2>1
  <2> QED BY <2>1, <2>2, OthersStayOpen
<1>5. ASSUME NEW j \in Ids, NEW bid \in BidMsg,
             \/ PlaceFixedPriceBid(j, bid)
             \/ PlaceBatchWorthBid(j, bid)
             \/ PlaceBatchManyBid(j, bid)
      PROVE  StaysOpen(id)
  <2>1. /\ ChangesOnly(j)
        /\ \/ auctions'[j] = auctions[j]
           \/ \E r : auctions'[j] = [auctions[j] EXCEPT !.remaining = r]
    BY <1>5, PlaceEffect
  <2>2. j = id => auctions'[id].status = auctions[id].status
    BY <1>1, <2>1 DEF Auction
  <2> QED BY <2>1, <2>2, OthersStayOpen DEF StaysOpen, Status
<1>6. ASSUME NEW j \in Ids, NEW k \in 1..Len(bids[j]), NEW u \in Users,
             NEW price \in Prices, NEW denom \in Denoms, NEW amount \in Amounts,
             ModifyBid(j, k, u, price, denom, amount)
      PROVE  StaysOpen(id)
  <2>1. ChangesOnly(j) /\ auctions'[j] = auctions[j] BY <1>6, ModifyEffect
  <2> QED BY <2>1, OthersStayOpen DEF StaysOpen, Status
<1>7. ASSUME NEW j \in Ids, NEW u \in Users, NEW amount \in Transfers,
             TransferToReserve(j, u, amount)
      PROVE  StaysOpen(id)
  <2>1. ChangesOnly(j) /\ auctions'[j] = auctions[j] BY <1>7, TransferEffect
  <2> QED BY <2>1, OthersStayOpen DEF StaysOpen, Status
<1>8. ASSUME NEW j \in Ids, ExecuteStandByStatus(j) PROVE StaysOpen(id)
  <2>1. ChangesOnly(j) /\ Status(j) = "StandBy" BY <1>8, StandByEffect
  <2>2. j # id BY <2>1
  <2> QED BY <2>1, <2>2, OthersStayOpen
<1>9. ASSUME NEW j \in Ids, CloseFixedPriceAuction(j) \/ CloseBatchAuction(j)
      PROVE  \/ StaysOpen(id)
             \/ CloseFixedPriceAuction(id)
             \/ CloseBatchAuction(id)
  <2>1. ChangesOnly(j) BY <1>9, CloseEffect
  <2> QED BY <1>9, <2>1, OthersStayOpen
<1>10. ASSUME NEW j \in Ids, ExtendRound(j) PROVE StaysOpen(id)
  <2> DEFINE e == Append(auctions[j].endTimes, EndTime(j) + extendedPeriod)
  <2>1. ChangesOnly(j) /\ auctions'[j] = [auctions[j] EXCEPT !.endTimes = e]
    BY <1>10, ExtendEffect
  <2> HIDE DEF e
  <2>2. j = id => auctions'[id].status = auctions[id].status
    BY <1>1, <2>1 DEF Auction
  <2> QED BY <2>1, <2>2, OthersStayOpen DEF StaysOpen, Status
<1>11. ASSUME NEW j \in Ids, ExecuteVestingStatus(j) PROVE StaysOpen(id)
  <2>1. ChangesOnly(j) /\ Status(j) = "Vesting" BY <1>11, ReleaseEffect
  <2>2. j # id BY <2>1
  <2> QED BY <2>1, <2>2, OthersStayOpen
<1> QED
  BY <1>2, <1>3, <1>4, <1>5, <1>6, <1>7, <1>8, <1>9, <1>10, <1>11, StepCases,
     Zenon

\* What bidder u reserved for bids that new, the book after the matching, does not
\* mark as matched.
UnmarkedCost(book, new, u, denom) ==
  SumTo(Len(book), [k \in 1..Len(book) |->
    IF book[k].bidder = u /\ ~new[k].isMatched
      THEN ConvertToPayingAmount(book[k], denom) ELSE 0])

\* The matching unmarks no bid: what is reserved for unmarked bids is reserved for
\* bids that were not matched.
LEMMA UnmarkedIsUnmatched ==
  ASSUME NEW book \in Book, NEW M, NEW u, NEW denom
  PROVE  /\ UnmarkedCost(book, MarkedBook(book, M), u, denom) <=
              UnmatchedCost(book, M, u, denom)
         /\ UnmarkedCost(book, MarkedBook(book, M), u, denom) \in Nat
<1> DEFINE new == MarkedBook(book, M)
           f == [k \in 1..Len(book) |->
                   IF book[k].bidder = u /\ ~new[k].isMatched
                     THEN ConvertToPayingAmount(book[k], denom) ELSE 0]
           g == [k \in 1..Len(book) |->
                   IF book[k].bidder = u /\ k \notin M
                     THEN ConvertToPayingAmount(book[k], denom) ELSE 0]
<1>1. /\ Len(book) \in Nat
      /\ \A k \in 1..Len(book) : /\ book[k] \in Bid
                                 /\ ConvertToPayingAmount(book[k], denom) \in Nat
  BY BookTypes
<1>2. ASSUME NEW k \in 1..Len(book) PROVE k \in M => new[k].isMatched
  <2> DEFINE b == book[k]
             mark == b.isMatched \/ k \in M
  <2>1. new[k] = [b EXCEPT !.isMatched = mark] BY DEF MarkedBook
  <2>2. b \in Bid BY <1>1
  <2>3. k \in M => mark OBVIOUS
  <2> HIDE DEF b, mark, new
  <2>4. new[k].isMatched = mark BY <2>1, <2>2 DEF Bid
  <2> QED BY <2>3, <2>4
<1> HIDE DEF new
<1>3. \A k \in 1..Len(book) : f[k] \in Nat /\ g[k] \in Nat /\ f[k] <= g[k]
  BY <1>1, <1>2
<1> HIDE DEF f, g
<1>4. Summable(Len(book), f) /\ Summable(Len(book), g) BY <1>3 DEF Summable
<1>5. SumTo(Len(book), f) <= SumTo(Len(book), g)
  BY <1>1, <1>3, <1>4, SumMonotone
<1>6. SumTo(Len(book), f) \in Nat BY <1>1, <1>3, SumNat
<1> QED BY <1>5, <1>6 DEF UnmarkedCost, UnmatchedCost, f, g, new

\* What a settlement credits to anybody but the auctioneer.
LEMMA SettlementGain ==
  ASSUME TypeOK, NEW id \in Ids, NEW allocation \in [Users -> Nat],
         NEW refund \in [Users -> Nat], ValidMsg(Msg(id)),
         Settle(id, allocation, refund), NEW u \in Users \ {Msg(id).auctioneer}
  PROVE  /\ Gain(u, Msg(id).sellingDenom) = allocation[u]
         /\ Gain(u, Msg(id).payingDenom) = refund[u]
<1> DEFINE m == Msg(id)
           sd == m.sellingDenom
           pd == m.payingDenom
           unsold == Unsold(id, allocation)
           raised == Raised(id, refund)
           x == allocation[u] + AuctioneerShare(id, u, unsold)
           y == refund[u] + IF m.schedules # <<>> THEN 0
                            ELSE AuctioneerShare(id, u, raised)
<1>1. m \in CreateMsg BY AuctionFacts
<1>2. sd \in Denoms /\ pd \in Denoms BY <1>1 DEF CreateMsg
<1>3. sd # pd BY DEF ValidMsg
<1>4. u \in Users /\ u # m.auctioneer OBVIOUS
<1>5. balance'[u] = Plus(balance[u], Plus(Coin(sd, x), Coin(pd, y)))
  BY <1>4 DEF Settle
<1>6. /\ AuctioneerShare(id, u, unsold) = 0
      /\ AuctioneerShare(id, u, raised) = 0
  BY <1>4 DEF AuctioneerShare
<1>7. x = allocation[u] /\ y = refund[u] BY <1>4, <1>6
<1>8. allocation[u] \in Nat /\ refund[u] \in Nat /\ balance[u] \in Coins
  BY <1>4 DEF TypeOK
<1> HIDE DEF m, sd, pd, x, y
<1>9. /\ balance'[u][sd] = balance[u][sd] + (x + 0)
      /\ balance'[u][pd] = balance[u][pd] + (0 + y)
  BY <1>2, <1>3, <1>5 DEF Plus, Coin
<1>10. balance[u][sd] \in Nat /\ balance[u][pd] \in Nat
  BY <1>2, <1>8 DEF Coins
<1>11. Gain(u, sd) = allocation[u] /\ Gain(u, pd) = refund[u]
  BY <1>7, <1>8, <1>9, <1>10 DEF Gain
<1> QED BY <1>11 DEF sd, pd, m

\* A batch auction is settled by CloseBatchAuction, with a fair match.
LEMMA FairSettlement ==
  ASSUME TypeOK, RecordsInv, [Next]_vars, NEW id \in Ids, SettlesBatch(id),
         NEW u \in Users \ {Msg(id).auctioneer}
  PROVE  /\ Gain(u, Msg(id).sellingDenom) \in 0..allowed[id][u]
         /\ Gain(u, Msg(id).payingDenom) >=
              UnmarkedCost(bids[id], bids'[id], u, Msg(id).payingDenom)
<1> DEFINE m == Msg(id)
           book == bids[id]
           d == m.payingDenom
           info == BatchAllocation(id)
<1>1. Status(id) = "Started" /\ Settled(id)' /\ Batch(id) BY DEF SettlesBatch
<1>2. CloseBatchAuction(id)
  <2>1. ~StaysOpen(id) BY <1>1 DEF StaysOpen, Settled, Status
  <2>2. ~CloseFixedPriceAuction(id)
    BY <1>1 DEF CloseFixedPriceAuction, Batch, Msg
  <2> QED BY <1>1, <2>1, <2>2, OnlyCloseSettles
<1>3. Settle(id, info.allocation, info.refund) /\ RecordMatch(id, info)
  BY <1>2 DEF CloseBatchAuction
<1>4. id \in AuctionIds /\ ValidMsg(m) /\ BookFits(m, book)
  BY AuctionFacts DEF RecordsInv, RecordsOf, RecordOK, Msg
<1>5. /\ DOMAIN allowed[id] = Users
      /\ MatchInput(book, d, m.sellingAmt, allowed[id])
  BY <1>1, <1>4, BatchInput
<1>6. FairMatch(info, book, d, m.sellingAmt, allowed[id])
  BY <1>5, BatchAllocationFair DEF BatchAllocation
<1>7. bids'[id] = MarkedBook(book, info.matchedBids)
  BY <1>3, RecordMatchEffect
<1>8. book \in Book BY <1>4 DEF BookFits
<1>9. allowed[id] \in [Users -> Nat] BY <1>4 DEF TypeOK
<1> HIDE DEF m, book, d, info
<1>10. /\ info.allocation \in [Users -> Nat] /\ info.refund \in [Users -> Nat]
       /\ info.allocation[u] <= allowed[id][u]
       /\ info.refund[u] >= UnmatchedCost(book, info.matchedBids, u, d)
  BY <1>5, <1>6 DEF FairMatch
<1>11. /\ Gain(u, m.sellingDenom) = info.allocation[u]
       /\ Gain(u, d) = info.refund[u]
  BY <1>3, <1>4, <1>10, SettlementGain DEF m, d
<1>12. /\ UnmarkedCost(book, bids'[id], u, d) <=
            UnmatchedCost(book, info.matchedBids, u, d)
       /\ UnmarkedCost(book, bids'[id], u, d) \in Nat
  BY <1>7, <1>8, UnmarkedIsUnmatched
<1>13. UnmatchedCost(book, info.matchedBids, u, d) \in Nat BY <1>5, CostsSplit
<1>14. info.refund[u] >= UnmarkedCost(book, bids'[id], u, d)
  BY <1>10, <1>12, <1>13
<1>15. info.allocation[u] \in 0..allowed[id][u] BY <1>9, <1>10
<1> QED BY <1>11, <1>14, <1>15 DEF m, book, d

\* BatchSettlementIsFair, of one step.
SettlesFairly ==
  \A id \in Ids : SettlesBatch(id) =>
    \A u \in Users \ {Msg(id).auctioneer} :
      /\ Gain(u, Msg(id).sellingDenom) \in 0..allowed[id][u]
      /\ Gain(u, Msg(id).payingDenom) >=
           SumTo(Len(bids[id]), [k \in 1..Len(bids[id]) |->
             IF bids[id][k].bidder = u /\ ~bids'[id][k].isMatched
               THEN ConvertToPayingAmount(bids[id][k], Msg(id).payingDenom)
               ELSE 0])

LEMMA FairStep == TypeOK /\ RecordsInv /\ [Next]_vars => SettlesFairly
<1> SUFFICES ASSUME TypeOK, RecordsInv, [Next]_vars, NEW id \in Ids,
                    SettlesBatch(id), NEW u \in Users \ {Msg(id).auctioneer}
             PROVE  /\ Gain(u, Msg(id).sellingDenom) \in 0..allowed[id][u]
                    /\ Gain(u, Msg(id).payingDenom) >=
                         UnmarkedCost(bids[id], bids'[id], u, Msg(id).payingDenom)
  BY DEF UnmarkedCost, SettlesFairly
<1> QED BY FairSettlement

\* keeper/auction.go, CloseBatchAuction with AllocateSellingCoin and
\* RefundPayingCoin: in every settlement of a batch auction, however its bids were
\* placed, modified and matched in earlier rounds and whatever the order in which
\* SortBids leaves them, no bidder receives more selling coin than MaxBidAmount
\* allows, and all that was reserved for bids that are not matched is paid back.
THEOREM SettlementIsFair == Spec => BatchSettlementIsFair
<1>1. TypeOK /\ RecordsInv /\ [Next]_vars => [SettlesFairly]_vars BY FairStep
<1> QED BY <1>1, TypeCorrect, RecordsSound, PTL
        DEF Spec, BatchSettlementIsFair, SettlesFairly

-----------------------------------------------------------------------------
(***************************************************************************)
(* The anti-sniping rule.  MatchedBidsLen is compared with the matching at *)
(* the end of the next round; the number of bids that are marked as        *)
(* matched is the same only up to the end of the first extended round,     *)
(* because the matching unmarks no bid.                                    *)
(***************************************************************************)
Marked(book) == {k \in 1..Len(book) : book[k].isMatched}

\* Before the first extended round no bid is marked, and during it there are as
\* many as MatchedBidsLen, whatever is bid and modified meanwhile, unless
\* MatchedBidsLen is 0, which it is after a restart.
RoundOK(a, book, matchedLen) ==
  a.msg.type = "Batch" /\ a.status \in {"StandBy", "Started"} =>
    /\ Len(a.endTimes) = 1 => Marked(book) = {}
    /\ Len(a.endTimes) = 2 => matchedLen \in {0, Cardinality(Marked(book))}

MarksInv ==
  \A id \in Ids : RoundOK(auctions[id], bids[id], matchedBidsLen[id])

\* It is enough to look at the auction that a step changes.
LEMMA OneRound ==
  ASSUME TypeOK, MarksInv, NEW id \in Ids, ChangesOnly(id),
         \A j \in AuctionIds \ {id} : matchedBidsLen'[j] = matchedBidsLen[j],
         RoundOK(auctions'[id], bids'[id], matchedBidsLen'[id])
  PROVE  MarksInv'
<1>1. ASSUME NEW j \in Ids, j # id
      PROVE  RoundOK(auctions'[j], bids'[j], matchedBidsLen'[j])
  <2>1. j \in AuctionIds \ {id} BY <1>1, AuctionFacts
  <2>2. /\ auctions'[j] = auctions[j] /\ bids'[j] = bids[j]
        /\ matchedBidsLen'[j] = matchedBidsLen[j]
    BY <2>1 DEF ChangesOnly, Same
  <2> QED BY <2>2 DEF MarksInv
<1> QED BY <1>1 DEF MarksInv, ChangesOnly

\* A new bid of a batch auction is not marked.
LEMMA MarkedAppend ==
  ASSUME NEW book \in Seq(Bid), NEW bid \in Bid, bid.isMatched = FALSE
  PROVE  Marked(Append(book, bid)) = Marked(book)
<1> DEFINE new == Append(book, bid)
<1>1. /\ Len(book) \in Nat /\ Len(new) = Len(book) + 1
      /\ \A k \in 1..Len(book) : new[k] = book[k]
      /\ new[Len(book) + 1] = bid
  BY AppendProperties, LenProperties
<1> HIDE DEF new
<1>2. \A k \in 1..Len(new) : k \in 1..Len(book) \/ k = Len(book) + 1
  BY <1>1
<1>3. 1..Len(book) \subseteq 1..Len(new) BY <1>1
<1>4. Marked(new) = Marked(book) BY <1>1, <1>2, <1>3 DEF Marked
<1> QED BY <1>4 DEF new

\* ModifyBid keeps the mark of the bid.
LEMMA MarkedModify ==
  ASSUME NEW book \in Seq(Bid), NEW k \in 1..Len(book), NEW price, NEW amount
  PROVE  Marked(WithBid(book, k, Modified(book[k], price, amount))) = Marked(book)
<1> DEFINE bid == Modified(book[k], price, amount)
           new == WithBid(book, k, bid)
<1>1. book[k] \in Bid BY ElementOfSeq
<1>2. bid.isMatched = book[k].isMatched BY <1>1 DEF Modified, Bid
<1> HIDE DEF bid
<1>3. /\ DOMAIN book = 1..Len(book) /\ Len(book) \in Nat BY LenProperties
<1>4. /\ DOMAIN new = 1..Len(book)
      /\ \A i \in 1..Len(book) : new[i] = IF i = k THEN bid ELSE book[i]
  BY <1>3 DEF WithBid
<1>5. Len(new) = Len(book)
  <2>1. new = [i \in 1..Len(book) |-> new[i]] BY <1>3 DEF WithBid
  <2> HIDE DEF new
  <2>2. new \in Seq({new[i] : i \in 1..Len(book)})
    BY <1>3, <2>1, FcnIsSeq
  <2> QED BY <1>3, <1>4, <2>2, LenProperties
<1> HIDE DEF new
<1>6. Marked(new) = Marked(book) BY <1>2, <1>4, <1>5 DEF Marked
<1> QED BY <1>6 DEF new, bid

\* The matching marks the bids that it matches, and unmarks none.
LEMMA MarkedMatched ==
  ASSUME NEW book \in Book, NEW M
  PROVE  Marked(MarkedBook(book, M)) = Marked(book) \cup {k \in 1..Len(book) : k \in M}
<1> DEFINE new == MarkedBook(book, M)
<1>1. \A k \in 1..Len(book) : book[k] \in Bid BY BookTypes
<1>2. Len(new) = Len(book) BY BookMark
<1>3. ASSUME NEW k \in 1..Len(book)
      PROVE  new[k].isMatched <=> book[k].isMatched \/ k \in M
  <2> DEFINE b == book[k]
             mark == b.isMatched \/ k \in M
  <2>1. new[k] = [b EXCEPT !.isMatched = mark] BY DEF MarkedBook
  <2>2. b \in Bid BY <1>1
  <2>3. mark <=> b.isMatched \/ k \in M OBVIOUS
  <2> HIDE DEF b, mark, new
  <2>4. new[k].isMatched = mark BY <2>1, <2>2 DEF Bid
  <2> QED BY <2>3, <2>4 DEF b
<1> HIDE DEF new
<1>4. Marked(new) = Marked(book) \cup {k \in 1..Len(book) : k \in M}
  BY <1>2, <1>3 DEF Marked
<1> QED BY <1>4 DEF new

\* Creating an auction: it has no bids.
LEMMA CreateMarks ==
  ASSUME TypeOK, RecordsInv, MarksInv, NEW m \in CreateMsgs, CreateAuction(m)
  PROVE  MarksInv'
<1>1. PICK id \in AuctionIds :
        /\ id \notin Ids /\ Ids' = Ids \cup {id}
        /\ auctions'[id] = NewAuction(m)
        /\ bids'[id] = bids[id]
        /\ \A j \in AuctionIds \ {id} : Same(j)
  BY CreateEffect
<1>2. matchedBidsLen' = matchedBidsLen BY DEF CreateAuction
<1>3. bids'[id] = <<>> BY <1>1 DEF RecordsInv, RecordsOf
<1>4. Marked(<<>>) = {} BY EmptySeq DEF Marked
<1>5. Len(auctions'[id].endTimes) = 1
  <2>1. auctions'[id].endTimes = <<m.endTime>> BY <1>1 DEF NewAuction
  <2> QED BY <2>1
<1>6. RoundOK(auctions'[id], bids'[id], matchedBidsLen'[id])
  BY <1>3, <1>4, <1>5 DEF RoundOK
<1>7. ASSUME NEW j \in Ids
      PROVE  RoundOK(auctions'[j], bids'[j], matchedBidsLen'[j])
  <2>1. j \in AuctionIds \ {id} BY <1>1, AuctionFacts
  <2>2. auctions'[j] = auctions[j] /\ bids'[j] = bids[j] BY <1>1, <2>1 DEF Same
  <2> QED BY <1>2, <2>2 DEF MarksInv
<1> QED BY <1>1, <1>6, <1>7 DEF MarksInv

\* PlaceBid does not change the marks of a batch auction.
LEMMA PlaceMarks ==
  ASSUME TypeOK, MarksInv, NEW id \in Ids, NEW bid \in BidMsg,
         \/ PlaceFixedPriceBid(id, bid)
         \/ PlaceBatchWorthBid(id, bid)
         \/ PlaceBatchManyBid(id, bid)
  PROVE  MarksInv'
<1> DEFINE rest == auctions[id].remaining
                     - ConvertToSellingAmount(bid, Msg(id).payingDenom)
<1>1. /\ ChangesOnly(id) /\ bid \in Bid
      /\ \/ /\ Msg(id).type = "FixedPrice"
            /\ auctions'[id] = [auctions[id] EXCEPT !.remaining = rest]
         \/ /\ bids'[id] = Append(bids[id], bid)
            /\ auctions'[id] = auctions[id]
  BY PlaceEffect
<1>2. matchedBidsLen' = matchedBidsLen
  BY DEF PlaceFixedPriceBid, PlaceBatchWorthBid, PlaceBatchManyBid
<1>3. id \in AuctionIds /\ auctions[id] \in Auction BY AuctionFacts
<1>4. bids[id] \in Seq(Bid) BY <1>3 DEF TypeOK
<1>5. bid.isMatched = FALSE BY DEF BidMsg
<1> HIDE DEF rest
<1>6. RoundOK(auctions[id], bids[id], matchedBidsLen[id]) BY DEF MarksInv
<1>7. CASE /\ Msg(id).type = "FixedPrice"
           /\ auctions'[id] = [auctions[id] EXCEPT !.remaining = rest]
  <2>1. auctions'[id].msg.type = "FixedPrice" BY <1>3, <1>7 DEF Auction, Msg
  <2>2. RoundOK(auctions'[id], bids'[id], matchedBidsLen'[id]) BY <2>1 DEF RoundOK
  <2> QED BY <1>1, <1>2, <2>2, OneRound
<1>8. CASE bids'[id] = Append(bids[id], bid) /\ auctions'[id] = auctions[id]
  <2>1. Marked(bids'[id]) = Marked(bids[id])
    BY <1>1, <1>4, <1>5, <1>8, MarkedAppend
  <2>2. RoundOK(auctions'[id], bids'[id], matchedBidsLen'[id])
    BY <1>2, <1>6, <1>8, <2>1 DEF RoundOK
  <2> QED BY <1>1, <1>2, <2>2, OneRound
<1> QED BY <1>1, <1>7, <1>8

\* ModifyBid does not change the marks.
LEMMA ModifyMarks ==
  ASSUME TypeOK, MarksInv, NEW id \in Ids, NEW k \in 1..Len(bids[id]),
         NEW u \in Users, NEW price \in Prices, NEW denom \in Denoms,
         NEW amount \in Amounts, ModifyBid(id, k, u, price, denom, amount)
  PROVE  MarksInv'
<1>1. /\ ChangesOnly(id) /\ auctions'[id] = auctions[id]
      /\ bids'[id] = WithBid(bids[id], k, Modified(bids[id][k], price, amount))
  BY ModifyEffect
<1>2. matchedBidsLen' = matchedBidsLen BY DEF ModifyBid
<1>3. bids[id] \in Seq(Bid) BY AuctionFacts DEF TypeOK
<1>4. Marked(bids'[id]) = Marked(bids[id])
  <2>1. Marked(WithBid(bids[id], k, Modified(bids[id][k], price, amount))) =
          Marked(bids[id])
    BY <1>3, MarkedModify
  <2> QED BY <1>1, <2>1
<1>5. RoundOK(auctions[id], bids[id], matchedBidsLen[id]) BY DEF MarksInv
<1>6. RoundOK(auctions'[id], bids'[id], matchedBidsLen'[id])
  BY <1>1, <1>2, <1>4, <1>5 DEF RoundOK
<1> QED BY <1>1, <1>2, <1>6, OneRound

\* The number of matched bids that CloseBatchAuction stores is that of the bids
\* it marks.
LEMMA MatchedLenIs ==
  ASSUME NEW id
  PROVE  /\ BatchAllocation(id).matchedLen =
              Cardinality(BatchAllocation(id).matchedBids)
         /\ BatchAllocation(id).matchedBids \subseteq 1..Len(bids[id])
BY DEF BatchAllocation, CalculateBatchAllocation, MatchingInfo

\* ExtendRound marks the matched bids and remembers their number.
LEMMA ExtendMarks ==
  ASSUME TypeOK, RecordsInv, MarksInv, NEW id \in Ids, ExtendRound(id)
  PROVE  MarksInv'
<1> DEFINE info == BatchAllocation(id)
           M == info.matchedBids
           a == auctions[id]
           e == Append(a.endTimes, EndTime(id) + extendedPeriod)
<1>1. /\ ChangesOnly(id) /\ Status(id) = "Started" /\ Msg(id).type = "Batch"
      /\ auctions'[id] = [a EXCEPT !.endTimes = e]
      /\ bids'[id] = MarkedBook(bids[id], M)
  BY ExtendEffect
<1>2. id \in AuctionIds /\ a \in Auction /\ EndTime(id) \in Nat BY AuctionFacts
<1>3. matchedBidsLen' = [matchedBidsLen EXCEPT ![id] = info.matchedLen]
  BY DEF ExtendRound, RecordMatch
<1>4. /\ matchedBidsLen'[id] = info.matchedLen
      /\ \A j \in AuctionIds \ {id} : matchedBidsLen'[j] = matchedBidsLen[j]
  BY <1>2, <1>3 DEF TypeOK
<1>5. Len(e) = Len(a.endTimes) + 1 /\ Len(a.endTimes) \in Nat /\ Len(a.endTimes) > 0
  <2>1. a.endTimes \in Seq(Time) \ {<<>>} BY <1>2 DEF Auction
  <2>2. EndTime(id) + extendedPeriod \in Time BY <1>2 DEF TypeOK, Time
  <2> QED BY <2>1, <2>2, AppendProperties, LenProperties, EmptySeq
<1>6. bids[id] \in Book
  BY <1>2 DEF RecordsInv, RecordsOf, RecordOK, BookFits
<1>7. info.matchedLen = Cardinality(M) /\ M \subseteq 1..Len(bids[id])
  BY MatchedLenIs
<1>8. RoundOK(a, bids[id], matchedBidsLen[id]) BY DEF MarksInv
<1>9. a.msg.type = "Batch" /\ a.status = "Started" BY <1>1 DEF Msg, Status
<1> HIDE DEF a, e, M, info
<1>10. auctions'[id].endTimes = e BY <1>1, <1>2 DEF Auction
<1>11. Marked(bids'[id]) = Marked(bids[id]) \cup M
  <2>1. {k \in 1..Len(bids[id]) : k \in M} = M BY <1>7
  <2> QED BY <1>1, <1>6, <2>1, MarkedMatched
<1>12. ASSUME Len(e) = 2 PROVE Marked(bids'[id]) = M
  <2> DEFINE n == Len(a.endTimes)
  <2>1. n \in Nat /\ n + 1 = 2 BY <1>5, <1>12
  <2> HIDE DEF n
  <2>2. n = 1 BY <2>1
  <2>3. Marked(bids[id]) = {} BY <1>8, <1>9, <2>2 DEF RoundOK, n
  <2> QED BY <1>11, <2>3
<1>13. Len(e) # 1 BY <1>5
<1>14. RoundOK(auctions'[id], bids'[id], matchedBidsLen'[id])
  BY <1>4, <1>7, <1>10, <1>12, <1>13, Zenon DEF RoundOK
<1> QED BY <1>1, <1>4, <1>14, OneRound

\* Auctions that are cancelled or settled have no more rounds.
LEMMA EndedMarks ==
  ASSUME NEW a, a.status \notin {"StandBy", "Started"}, NEW book, NEW matchedLen
  PROVE  RoundOK(a, book, matchedLen)
BY DEF RoundOK

\* The steps that end an auction, start it or release vested coins.
LEMMA StatusMarks ==
  ASSUME TypeOK, MarksInv, NEW id \in Ids
  PROVE  /\ \A u \in Users : CancelAuction(id, u) => MarksInv'
         /\ ExecuteStandByStatus(id) => MarksInv'
         /\ CloseFixedPriceAuction(id) \/ CloseBatchAuction(id) => MarksInv'
         /\ ExecuteVestingStatus(id) => MarksInv'
<1> DEFINE a == auctions[id]
<1>1. id \in AuctionIds /\ a \in Auction BY AuctionFacts
<1>2. ASSUME NEW u \in Users, CancelAuction(id, u) PROVE MarksInv'
  <2>1. /\ ChangesOnly(id)
        /\ auctions'[id] = [a EXCEPT !.status = "Cancelled", !.remaining = 0]
    BY <1>2, CancelEffect
  <2>2. auctions'[id].status = "Cancelled" BY <1>1, <2>1 DEF Auction
  <2>3. matchedBidsLen' = matchedBidsLen BY <1>2 DEF CancelAuction
  <2>4. RoundOK(auctions'[id], bids'[id], matchedBidsLen'[id])
    BY <2>2, EndedMarks
  <2> QED BY <2>1, <2>3, <2>4, OneRound
<1>3. ASSUME ExecuteStandByStatus(id) PROVE MarksInv'
  <2>1. /\ ChangesOnly(id) /\ Status(id) = "StandBy" /\ bids'[id] = bids[id]
        /\ auctions'[id] = [a EXCEPT !.status = "Started"]
    BY <1>3, StandByEffect
  <2>2. /\ auctions'[id].endTimes = a.endTimes /\ auctions'[id].msg = a.msg
    BY <1>1, <2>1 DEF Auction
  <2>3. matchedBidsLen' = matchedBidsLen BY <1>3 DEF ExecuteStandByStatus
  <2>4. RoundOK(a, bids[id], matchedBidsLen[id]) BY DEF MarksInv
  <2>5. RoundOK(auctions'[id], bids'[id], matchedBidsLen'[id])
    BY <2>1, <2>2, <2>3, <2>4 DEF RoundOK, Status
  <2> QED BY <2>1, <2>3, <2>5, OneRound
<1>4. ASSUME CloseFixedPriceAuction(id) \/ CloseBatchAuction(id) PROVE MarksInv'
  <2> DEFINE s == IF Msg(id).schedules # <<>> THEN "Vesting" ELSE "Finished"
  <2>1. ChangesOnly(id) /\ auctions'[id] = [a EXCEPT !.status = s]
    BY <1>4, CloseEffect
  <2>2. auctions'[id].status = s
    <3> HIDE DEF s
    <3> QED BY <1>1, <2>1 DEF Auction
  <2>3. \A j \in AuctionIds \ {id} : matchedBidsLen'[j] = matchedBidsLen[j]
    <3>1. \/ matchedBidsLen' = matchedBidsLen
          \/ \E x : matchedBidsLen' = [matchedBidsLen EXCEPT ![id] = x]
      BY <1>4 DEF CloseFixedPriceAuction, CloseBatchAuction, RecordMatch
    <3> QED BY <3>1 DEF TypeOK
  <2>4. RoundOK(auctions'[id], bids'[id], matchedBidsLen'[id])
    BY <2>2, EndedMarks
  <2> QED BY <2>1, <2>3, <2>4, OneRound
<1>5. ASSUME ExecuteVestingStatus(id) PROVE MarksInv'
  <2> DEFINE s == IF ShouldRelease(vestingQueues[id][Len(vestingQueues[id])])
                    THEN "Finished" ELSE a.status
  <2>1. /\ ChangesOnly(id) /\ Status(id) = "Vesting"
        /\ auctions'[id] = [a EXCEPT !.status = s]
    BY <1>5, ReleaseEffect
  <2>2. s \in {"Vesting", "Finished"} BY <2>1 DEF Status
  <2>3. auctions'[id].status = s
    <3> HIDE DEF s
    <3> QED BY <1>1, <2>1 DEF Auction
  <2>4. matchedBidsLen' = matchedBidsLen BY <1>5 DEF ExecuteVestingStatus
  <2>5. RoundOK(auctions'[id], bids'[id], matchedBidsLen'[id])
    BY <2>2, <2>3, EndedMarks
  <2> QED BY <2>1, <2>4, <2>5, OneRound
<1> QED BY <1>2, <1>3, <1>4, <1>5

\* Every step keeps MatchedBidsLen and the marks in step.
LEMMA MarksStep ==
  ASSUME TypeOK, RecordsInv, MarksInv, [Next]_vars
  PROVE  MarksInv'
<1>1. ASSUME Quiet PROVE MarksInv'
  BY <1>1 DEF Quiet, MarksInv, Ids
<1>2. ASSUME NEW m \in CreateMsgs,
             CreateFixedPriceAuction(m) \/ CreateBatchAuction(m)
      PROVE  MarksInv'
  BY <1>2, CreateMarks DEF CreateFixedPriceAuction, CreateBatchAuction
<1>3. ASSUME NEW id \in Ids, NEW u \in Users, NEW amount \in Transfers,
             TransferToReserve(id, u, amount)
      PROVE  MarksInv'
  <2>1. UNCHANGED <<auctions, bids, matchedBidsLen>>
    BY <1>3 DEF TransferToReserve, store
  <2> QED BY <2>1 DEF MarksInv, Ids
<1> QED
  BY <1>1, <1>2, <1>3, StepCases, PlaceMarks, ModifyMarks, ExtendMarks,
     StatusMarks, Zenon

\* keeper/auction.go, CloseBatchAuction: in the first extended round,
\* MatchedBidsLen is always the number of marked bids.
LEMMA MarksSound == Spec => []MarksInv
<1>1. Init => MarksInv
  <2>1. Init => Ids = {} BY EmptySeq DEF Init, Ids
  <2> QED BY <2>1 DEF MarksInv
<1>2. TypeOK /\ RecordsInv /\ MarksInv /\ [Next]_vars => MarksInv' BY MarksStep
<1> QED BY <1>1, <1>2, TypeCorrect, RecordsSound, PTL DEF Spec

\* sdk.Dec's Quo rounds half to even, by less than one unit.
LEMMA QuoBound ==
  ASSUME NEW a \in Nat, NEW b \in Nat \ {0}
  PROVE  QuoInts(a, b) \in Nat /\ QuoInts(a, b) * b < a * ONE + b
<1> DEFINE y == a * ONE
           z == y * ONE
           x == z \div b
           q0 == x \div ONE
           r == x % ONE
           q == QuoInts(a, b)
<1>1. ONE \in Nat \ {0} /\ ONE \in Nat /\ ONE > 0 BY OneAssumption
<1>2. y \in Nat /\ z \in Nat
  <2>1. y \in Nat BY <1>1
  <2> HIDE DEF y
  <2> QED BY <1>1, <2>1
<1>3. x \in Nat /\ x * b <= z
  <2> HIDE DEF z
  <2> QED BY <1>2, DivBounds
<1>4. q = ChopAndRound(x) BY DEF QuoInts
<1> HIDE DEF x, q
<1>5. q0 \in Nat /\ r \in 0..(ONE - 1) /\ x = q0 * ONE + r
  BY <1>1, <1>3
<1>6. q = q0 \/ (q = q0 + 1 /\ 2 * r >= ONE)
  <2>1. q = IF 2 * r < ONE \/ (2 * r = ONE /\ q0 % 2 = 0) THEN q0 ELSE q0 + 1
    BY <1>4 DEF ChopAndRound
  <2> HIDE DEF q0, r
  <2>2. r \in Nat BY <1>1, <1>5
  <2> QED BY <1>1, <2>1, <2>2
<1> HIDE DEF q0, r, y, z
<1>7. q \in Nat BY <1>5, <1>6
<1>8. q = 0 \/ (q - 1 \in Nat /\ (q - 1) * ONE < x)
  <2>1. q0 * ONE \in Nat BY <1>1, <1>5
  <2>2. CASE q = q0 + 1 /\ 2 * r >= ONE
    <3>1. q - 1 = q0 /\ r > 0 /\ r \in Nat BY <1>1, <1>5, <2>2
    <3> DEFINE p == q0 * ONE
    <3>2. p \in Nat /\ x = p + r BY <1>5, <2>1
    <3> HIDE DEF p
    <3>3. p < x BY <3>1, <3>2
    <3> QED BY <1>5, <3>1, <3>3 DEF p
  <2>3. CASE q = q0 /\ q # 0
    <3>1. q - 1 \in Nat BY <1>7, <2>3
    <3>2. (q - 1) * ONE + ONE = q0 * ONE /\ (q - 1) * ONE \in Nat
      BY <1>1, <1>5, <2>3, <3>1
    <3> DEFINE p == (q - 1) * ONE
               o == q0 * ONE
    <3>3. p \in Nat /\ o = p + ONE /\ x = o + r /\ r \in Nat
      BY <1>1, <1>5, <3>2
    <3> HIDE DEF p, o
    <3>4. p < x BY <1>1, <3>3
    <3> QED BY <3>1, <3>4 DEF p
  <2> QED BY <1>6, <2>2, <2>3
<1>9. CASE q = 0
  <2>1. q * b = 0 BY <1>9
  <2>2. 0 < y + b BY <1>2
  <2> QED BY <1>7, <2>1, <2>2 DEF y, q
<1>10. CASE q # 0
  <2> DEFINE p == q - 1
  <2>1. p \in Nat /\ p * ONE < x BY <1>8, <1>10
  <2>2. q * b = p * b + b /\ p * b \in Nat BY <1>7, <2>1
  <2> HIDE DEF p
  <2>3. p * b < y
    <3> SUFFICES ASSUME y <= p * b PROVE FALSE BY <1>2, <2>2
    <3>1. y * ONE <= (p * b) * ONE BY <1>1, <1>2, <2>2, ProductMonotone
    <3>2. (p * b) * ONE = (p * ONE) * b BY <1>1, <2>1
    <3> DEFINE w == p * ONE
    <3>3. w \in Nat /\ w + 1 <= x
      <4>1. w \in Nat BY <1>1, <2>1
      <4> QED BY <1>3, <2>1, <4>1
    <3> HIDE DEF w
    <3>4. (w + 1) * b <= x * b BY <1>3, <3>3, ProductMonotone
    <3>5. (w + 1) * b = w * b + b /\ w * b \in Nat BY <3>3
    <3>6. z <= w * b BY <3>1, <3>2 DEF z, w
    <3> DEFINE v == w * b
               t == x * b
    <3>7. v \in Nat /\ t \in Nat /\ z <= v /\ t <= z /\ v + b <= t
      BY <1>3, <3>4, <3>5, <3>6
    <3> HIDE DEF v, t
    <3> QED BY <1>2, <3>7
  <2> DEFINE t == p * b
  <2>4. t \in Nat /\ q * b = t + b /\ t < y BY <2>2, <2>3
  <2> HIDE DEF t
  <2>5. q * b < y + b BY <1>2, <2>4
  <2> QED BY <1>7, <2>5 DEF y, q
<1> QED BY <1>9, <1>10

\* The comparison that CloseBatchAuction makes with decimals is the exact one.
LEMMA RateIsExact ==
  ASSUME NEW now \in Nat, NEW last \in Nat \ {0}, NEW rate \in Nat,
         ~(ONE - QuoInts(now, last) >= rate)
  PROVE  (last - now) * ONE < rate * last
<1> DEFINE q == QuoInts(now, last)
           s == rate + q
<1>1. ONE \in Nat /\ ONE > 0 BY OneAssumption
<1>2. q \in Nat /\ q * last < now * ONE + last BY QuoBound
<1> HIDE DEF q
<1>3. s \in Nat /\ ONE + 1 <= s BY <1>1, <1>2 DEF q
<1>4. s * last = rate * last + q * last BY <1>2
<1> HIDE DEF s
<1>5. (ONE + 1) * last <= s * last BY <1>1, <1>3, ProductMonotone
<1>6. (ONE + 1) * last = last * ONE + last BY <1>1
<1>7. (last - now) * ONE = last * ONE - now * ONE BY <1>1
<1> DEFINE A == last * ONE
           B == now * ONE
           C == rate * last
           D == q * last
<1>8. A \in Nat /\ B \in Nat /\ C \in Nat /\ D \in Nat BY <1>1, <1>2
<1>9. A + last <= C + D /\ D < B + last /\ (last - now) * ONE = A - B
  BY <1>2, <1>4, <1>5, <1>6, <1>7
<1> HIDE DEF A, B, C, D
<1>10. A - B < C BY <1>8, <1>9
<1> QED BY <1>9, <1>10 DEF C

\* A batch auction whose first extended round is not its last is closed at the end
\* of it only if few of the bids that are marked as matched are lost.
LEMMA FewLost ==
  ASSUME TypeOK, MarksInv, [Next]_vars, NEW id \in Ids, SettlesBatch(id),
         Len(auctions[id].endTimes) = 2, Msg(id).maxExtendedRound > 1
  PROVE  LET last == Cardinality(Marked(bids[id]))
             lost == last - BatchAllocation(id).matchedLen
         IN  last > 0 /\ lost * ONE < Msg(id).extendedRoundRate * last
<1> DEFINE last == Cardinality(Marked(bids[id]))
           now == BatchAllocation(id).matchedLen
           rate == Msg(id).extendedRoundRate
<1>1. Status(id) = "Started" /\ Settled(id)' /\ Batch(id) BY DEF SettlesBatch
<1>2. CloseBatchAuction(id)
  <2>1. ~StaysOpen(id) BY <1>1 DEF StaysOpen, Settled, Status
  <2>2. ~CloseFixedPriceAuction(id)
    BY <1>1 DEF CloseFixedPriceAuction, Batch, Msg
  <2> QED BY <1>1, <2>1, <2>2, OnlyCloseSettles
<1>3. id \in AuctionIds /\ Msg(id) \in CreateMsg BY AuctionFacts
<1>4. rate \in Nat /\ Msg(id).maxExtendedRound \in Nat
  BY <1>3 DEF CreateMsg, Decimals
<1>5. matchedBidsLen[id] \in {0, last}
  BY <1>1 DEF MarksInv, RoundOK, Batch, Status, Msg
<1>6. RoundsAreOver(id, now) BY <1>2 DEF CloseBatchAuction
<1>7. matchedBidsLen[id] > 0 /\ ~LostMatches(id, now, matchedBidsLen[id])
  <2>1. Msg(id).maxExtendedRound + 1 # 2 BY <1>4
  <2> QED BY <1>6, <2>1 DEF RoundsAreOver
<1>8. last = matchedBidsLen[id] /\ last \in Nat /\ last > 0
  BY <1>3, <1>5, <1>7 DEF TypeOK
<1>9. now \in Nat
  <2> DEFINE M == BatchAllocation(id).matchedBids
  <2>1. now = Cardinality(M) /\ M \subseteq 1..Len(bids[id]) BY MatchedLenIs
  <2>2. Len(bids[id]) \in Nat BY <1>3, LenProperties DEF TypeOK
  <2> HIDE DEF M
  <2>3. IsFiniteSet(1..Len(bids[id])) BY <2>2, FS_Interval
  <2>4. IsFiniteSet(M) BY <2>1, <2>3, FS_Subset
  <2> QED BY <2>1, <2>4, FS_CardinalityType
<1>10. ~(ONE - QuoInts(now, last) >= rate) BY <1>7, <1>8 DEF LostMatches
<1> HIDE DEF last, now, rate
<1>11. (last - now) * ONE < rate * last BY <1>4, <1>8, <1>9, <1>10, RateIsExact
<1> QED BY <1>8, <1>11 DEF last, now, rate

\* NoCloseAfterSniping, of one step.
ClosesFairly ==
  \A id \in Ids :
    SettlesBatch(id) /\ Len(auctions[id].endTimes) = 2
      /\ Msg(id).maxExtendedRound > 1 =>
      LET last == Cardinality({k \in 1..Len(bids[id]) :
                                 bids[id][k].isMatched})
          lost == last - BatchAllocation(id).matchedLen
      IN  last > 0 /\ lost * ONE < Msg(id).extendedRoundRate * last

LEMMA SnipingStep == TypeOK /\ MarksInv /\ [Next]_vars => ClosesFairly
BY FewLost DEF Marked, ClosesFairly

\* keeper/auction.go, CloseBatchAuction: MatchedBidsLen is what the matching at
\* the end of the previous round left, bids placed and modified since do not
\* disturb it, and the rounding of sdk.Dec closes no auction that lost as many
\* bids as ExtendedRoundRate says.
THEOREM SnipingExtends == Spec => NoCloseAfterSniping
<1>1. TypeOK /\ MarksInv /\ [Next]_vars => [ClosesFairly]_vars BY SnipingStep
<1> QED BY <1>1, TypeCorrect, MarksSound, PTL
        DEF Spec, NoCloseAfterSniping, ClosesFairly

-----------------------------------------------------------------------------
(***************************************************************************)
(* The coins of the accounts and of the reserves.                          *)
(***************************************************************************)
Balances(d) == [u \in Users |-> balance[u][d]]

Holding(id, d) ==
  (IF Msg(id).sellingDenom = d THEN sellingReserve[id] ELSE 0) +
  (IF Msg(id).payingDenom = d THEN payingReserve[id] + vestingReserve[id] ELSE 0)

Holdings(d) == [id \in Ids |-> Holding(id, d)]

\* No step creates or destroys coins.
KeepsCoins == \A d \in Denoms : CirculatingCoin(d)' = CirculatingCoin(d)

\* The coins of a denomination, account by account and auction by auction.
LEMMA CirculatingIs ==
  ASSUME NEW d
  PROVE  CirculatingCoin(d) = Total(Balances(d)) + communityPool[d]
                                + SumFunctionOnSet(Holdings(d), Ids)
BY DEF CirculatingCoin, Balances, Holdings, Holding

\* The auctions are finitely many.
LEMMA IdsFinite ==
  ASSUME TypeOK
  PROVE  IsFiniteSet(Ids)
<1>1. Len(auctions) \in Nat BY LenProperties DEF TypeOK
<1>2. 1 \in Int /\ Len(auctions) \in Int BY <1>1
<1> QED BY <1>2, FS_Interval DEF Ids

\* The terms of the sums are natural numbers.
LEMMA HoldingTypes ==
  ASSUME TypeOK, NEW d \in Denoms
  PROVE  /\ \A u \in Users : Balances(d)[u] \in Nat
         /\ \A id \in Ids : Holdings(d)[id] \in Nat
         /\ communityPool[d] \in Nat
         /\ SummableOn(Users, Balances(d)) /\ Total(Balances(d)) \in Nat
         /\ SummableOn(Ids, Holdings(d))
         /\ SumFunctionOnSet(Holdings(d), Ids) \in Nat
<1>1. \A u \in Users : Balances(d)[u] \in Nat BY DEF TypeOK, Coins, Balances
<1>2. communityPool[d] \in Nat BY DEF TypeOK, Coins
<1>3. ASSUME NEW id \in Ids PROVE Holdings(d)[id] \in Nat
  <2>1. id \in AuctionIds BY AuctionFacts
  <2>2. /\ sellingReserve[id] \in Nat /\ payingReserve[id] \in Nat
        /\ vestingReserve[id] \in Nat
    BY <2>1 DEF TypeOK
  <2>3. Holding(id, d) \in Nat BY <2>2 DEF Holding
  <2> QED BY <2>3 DEF Holdings
<1>4. SummableOn(Users, Balances(d)) /\ Total(Balances(d)) \in Nat
  BY <1>1, FundraisingAssumption, SetSumNat DEF Total
<1>5. /\ SummableOn(Ids, Holdings(d))
      /\ SumFunctionOnSet(Holdings(d), Ids) \in Nat
  BY <1>3, IdsFinite, SetSumNat
<1> QED BY <1>1, <1>2, <1>3, <1>4, <1>5

\* The bank takes from one account what it is asked to.
LEMMA DebitTotal ==
  ASSUME TypeOK, NEW u \in Users, NEW c \in Coins, balance' = Debit(u, c),
         NEW d \in Denoms
  PROVE  Total(Balances(d)') = Total(Balances(d)) - c[d]
<1> DEFINE f == Balances(d)
           g == Balances(d)'
<1>1. SummableOn(Users, f) /\ f[u] \in Nat /\ Total(f) \in Nat BY HoldingTypes
<1>2. c[d] \in Nat BY DEF Coins
<1>3. balance \in [Users -> Coins] BY DEF TypeOK
<1>4. balance' = [balance EXCEPT ![u] = [e \in Denoms |-> balance[u][e] - c[e]]]
  BY DEF Debit
<1>5. g[u] = f[u] - c[d] /\ \A x \in Users \ {u} : g[x] = f[x]
  BY <1>3, <1>4 DEF Balances
<1> HIDE DEF f, g
<1>6. SumFunctionOnSet(g, Users) = SumFunctionOnSet(f, Users) + (g[u] - f[u])
  BY <1>1, <1>2, <1>5, FundraisingAssumption, SetSumChange
<1>7. Total(g) = Total(f) - c[d] BY <1>1, <1>2, <1>5, <1>6 DEF Total
<1> QED BY <1>7 DEF f, g

\* The bank adds to one account what it is asked to.
LEMMA CreditTotal ==
  ASSUME TypeOK, NEW u \in Users, NEW c \in Coins, balance' = Credit(u, c),
         NEW d \in Denoms
  PROVE  Total(Balances(d)') = Total(Balances(d)) + c[d]
<1> DEFINE f == Balances(d)
           g == Balances(d)'
<1>1. SummableOn(Users, f) /\ f[u] \in Nat /\ Total(f) \in Nat BY HoldingTypes
<1>2. c[d] \in Nat BY DEF Coins
<1>3. balance \in [Users -> Coins] BY DEF TypeOK
<1>4. balance' = [balance EXCEPT ![u] = [e \in Denoms |-> balance[u][e] + c[e]]]
  BY DEF Credit, Plus
<1>5. g[u] = f[u] + c[d] /\ \A x \in Users \ {u} : g[x] = f[x]
  BY <1>3, <1>4 DEF Balances
<1> HIDE DEF f, g
<1>6. SumFunctionOnSet(g, Users) = SumFunctionOnSet(f, Users) + (g[u] - f[u])
  BY <1>1, <1>2, <1>5, FundraisingAssumption, SetSumChange
<1>7. Total(g) = Total(f) + c[d] BY <1>1, <1>2, <1>5, <1>6 DEF Total
<1> QED BY <1>7 DEF f, g

\* What the accounts and the community pool lose of each coin: s of denomination
\* sd and p of denomination pd.
Pays(sd, s, pd, p) ==
  \A d \in Denoms :
    Total(Balances(d)') + communityPool'[d]
        + ((IF sd = d THEN s ELSE 0) + (IF pd = d THEN p ELSE 0)) =
      Total(Balances(d)) + communityPool[d]

\* When the reserves of one auction gain what the accounts lose, no coin is
\* created or destroyed.
LEMMA Balanced ==
  ASSUME TypeOK, TypeOK', NEW id \in Ids, ChangesOnly(id),
         auctions'[id].msg = auctions[id].msg,
         Pays(Msg(id).sellingDenom, sellingReserve'[id] - sellingReserve[id],
              Msg(id).payingDenom,
              (payingReserve'[id] - payingReserve[id]) +
                (vestingReserve'[id] - vestingReserve[id]))
  PROVE  KeepsCoins
<1> SUFFICES ASSUME NEW d \in Denoms
             PROVE  CirculatingCoin(d)' = CirculatingCoin(d)
  BY DEF KeepsCoins
<1> DEFINE f == Holdings(d)
           g == Holdings(d)'
           sd == Msg(id).sellingDenom
           pd == Msg(id).payingDenom
           s == sellingReserve'[id] - sellingReserve[id]
           p == (payingReserve'[id] - payingReserve[id]) +
                  (vestingReserve'[id] - vestingReserve[id])
           t == Total(Balances(d)) + communityPool[d]
           t1 == Total(Balances(d)') + communityPool'[d]
<1>1. Ids' = Ids /\ \A j \in AuctionIds \ {id} : Same(j) BY DEF ChangesOnly
<1>2. /\ SummableOn(Ids, f) /\ SumFunctionOnSet(f, Ids) \in Nat /\ t \in Nat
      /\ f[id] \in Nat
  BY HoldingTypes
<1>3. ASSUME NEW j \in Ids \ {id} PROVE g[j] = f[j]
  <2>1. j \in AuctionIds \ {id} BY AuctionFacts
  <2>2. Same(j) BY <1>1, <2>1
  <2>3. Holding(j, d)' = Holding(j, d) BY <2>2 DEF Same, Holding, Msg
  <2> QED BY <1>1, <2>3 DEF Holdings
<1>4. /\ sellingReserve[id] \in Nat /\ payingReserve[id] \in Nat
      /\ vestingReserve[id] \in Nat /\ sellingReserve'[id] \in Nat
      /\ payingReserve'[id] \in Nat /\ vestingReserve'[id] \in Nat
  BY AuctionFacts DEF TypeOK
<1>5. f[id] = (IF sd = d THEN sellingReserve[id] ELSE 0) +
              (IF pd = d THEN payingReserve[id] + vestingReserve[id] ELSE 0)
  BY DEF Holdings, Holding
<1>6. g[id] = (IF sd = d THEN sellingReserve'[id] ELSE 0) +
              (IF pd = d THEN payingReserve'[id] + vestingReserve'[id] ELSE 0)
  BY <1>1 DEF Holdings, Holding, Msg
<1>7. t1 + ((IF sd = d THEN s ELSE 0) + (IF pd = d THEN p ELSE 0)) = t
  BY DEF Pays
<1>8. t1 \in Nat
  <2>1. \A u \in Users : Balances(d)'[u] \in Nat
    BY DEF TypeOK, Coins, Balances
  <2>2. Total(Balances(d)') \in Nat
    BY <2>1, FundraisingAssumption, SetSumNat DEF Total
  <2>3. communityPool'[d] \in Nat BY DEF TypeOK, Coins
  <2> QED BY <2>2, <2>3
<1>9. CirculatingCoin(d) = t + SumFunctionOnSet(f, Ids) BY CirculatingIs
<1>10. CirculatingCoin(d)' = t1 + SumFunctionOnSet(g, Ids)
  BY <1>1 DEF CirculatingCoin, Balances, Holdings, Holding
<1> HIDE DEF f, g, t, t1, sd, pd
<1>11. g[id] = f[id] + ((IF sd = d THEN s ELSE 0) + (IF pd = d THEN p ELSE 0))
  BY <1>4, <1>5, <1>6
<1>12. /\ (IF sd = d THEN s ELSE 0) + (IF pd = d THEN p ELSE 0) \in Int
       /\ g[id] \in Int
  BY <1>2, <1>4, <1>11
<1>13. SumFunctionOnSet(g, Ids) = SumFunctionOnSet(f, Ids) + (g[id] - f[id])
  BY <1>2, <1>3, <1>12, IdsFinite, SetSumChange
<1> DEFINE x == (IF sd = d THEN s ELSE 0) + (IF pd = d THEN p ELSE 0)
<1>14. x \in Int /\ g[id] = f[id] + x /\ t1 + x = t BY <1>7, <1>11, <1>12
<1> HIDE DEF x
<1> QED BY <1>2, <1>8, <1>9, <1>10, <1>12, <1>13, <1>14

-----------------------------------------------------------------------------
(***************************************************************************)
(* The steps that move coins.                                              *)
(***************************************************************************)

\* The reserve accounts of auctions that are not created yet are empty.
UnusedReserves ==
  \A id \in AuctionIds \ Ids :
    sellingReserve[id] = 0 /\ payingReserve[id] = 0 /\ vestingReserve[id] = 0

\* A new auction holds its selling coin, and the fee is in the community pool.
LEMMA CreateCoins ==
  ASSUME TypeOK, TypeOK', UnusedReserves, NEW m \in CreateMsgs, CreateAuction(m)
  PROVE  KeepsCoins
<1> SUFFICES ASSUME NEW d \in Denoms
             PROVE  CirculatingCoin(d)' = CirculatingCoin(d)
  BY DEF KeepsCoins
<1> DEFINE charge == Plus(AuctionCreationFee, Coin(m.sellingDenom, m.sellingAmt))
           f == Holdings(d)
           g == Holdings(d)'
           s == IF m.sellingDenom = d THEN m.sellingAmt ELSE 0
           fee == AuctionCreationFee[d]
<1>1. m \in CreateMsg BY FundraisingAssumption
<1>2. m.sellingAmt \in Nat /\ m.auctioneer \in Users BY <1>1 DEF CreateMsg
<1>3. AuctionCreationFee \in Coins /\ communityPool \in Coins
  BY FundraisingAssumption DEF TypeOK
<1>4. charge \in Coins /\ charge[d] = fee + s
  <2>1. charge \in Coins BY <1>2, <1>3, CoinTypes
  <2>2. charge[d] = fee + s BY DEF Plus, Coin
  <2> QED BY <2>1, <2>2
<1>5. /\ balance' = Debit(m.auctioneer, charge)
      /\ communityPool' = Plus(communityPool, AuctionCreationFee)
  BY DEF CreateAuction
<1>6. communityPool'[d] = communityPool[d] + fee BY <1>5 DEF Plus
<1> HIDE DEF charge
<1>7. Total(Balances(d)') = Total(Balances(d)) - (fee + s)
  BY <1>2, <1>4, <1>5, DebitTotal
<1>8. PICK id \in AuctionIds :
        /\ id \notin Ids
        /\ Ids' = Ids \cup {id}
        /\ auctions'[id] = NewAuction(m)
        /\ sellingReserve'[id] = sellingReserve[id] + m.sellingAmt
        /\ payingReserve'[id] = payingReserve[id]
        /\ vestingReserve'[id] = vestingReserve[id]
        /\ \A j \in AuctionIds \ {id} : Same(j)
  BY CreateEffect
<1>9. sellingReserve[id] = 0 /\ payingReserve[id] = 0 /\ vestingReserve[id] = 0
  BY <1>8 DEF UnusedReserves
<1>10. Holding(id, d)' = s
  <2>1. NewAuction(m).msg = m BY DEF NewAuction
  <2> QED BY <1>2, <1>8, <1>9, <2>1 DEF Holding, Msg
<1>11. g[id] = s /\ g[id] \in Nat BY <1>2, <1>8, <1>10 DEF Holdings
<1>12. ASSUME NEW j \in Ids PROVE g[j] = f[j]
  <2>1. j \in AuctionIds \ {id} BY <1>8, AuctionFacts
  <2>2. Same(j) BY <1>8, <2>1
  <2>3. Holding(j, d)' = Holding(j, d) BY <2>2 DEF Same, Holding, Msg
  <2>4. j \in Ids' BY <1>8
  <2> QED BY <2>3, <2>4 DEF Holdings
<1>13. /\ SummableOn(Ids, f) /\ SumFunctionOnSet(f, Ids) \in Nat
       /\ Total(Balances(d)) \in Nat /\ communityPool[d] \in Nat
  BY HoldingTypes
<1>14. CirculatingCoin(d) =
         Total(Balances(d)) + communityPool[d] + SumFunctionOnSet(f, Ids)
  BY CirculatingIs
<1>15. CirculatingCoin(d)' =
         Total(Balances(d)') + communityPool'[d]
           + SumFunctionOnSet(g, Ids \cup {id})
  BY <1>8 DEF CirculatingCoin, Balances, Holdings, Holding
<1>16. fee \in Nat /\ s \in Nat BY <1>2, <1>3 DEF Coins
<1> HIDE DEF f, g, s, fee
<1>17. SummableOn(Ids, g) /\ SumFunctionOnSet(f, Ids) = SumFunctionOnSet(g, Ids)
  BY <1>12, <1>13, IdsFinite, SetSumSame
<1>18. SumFunctionOnSet(g, Ids \cup {id}) = SumFunctionOnSet(g, Ids) + g[id]
  BY <1>8, <1>11, <1>17, IdsFinite, SetSumAdd
<1> QED
  BY <1>6, <1>7, <1>11, <1>13, <1>14, <1>15, <1>16, <1>17, <1>18

\* The selling coin goes back to the auctioneer.
LEMMA CancelCoins ==
  ASSUME TypeOK, TypeOK', NEW id \in Ids, NEW u \in Users, CancelAuction(id, u)
  PROVE  KeepsCoins
<1> DEFINE sd == Msg(id).sellingDenom
           pd == Msg(id).payingDenom
           n == sellingReserve[id]
           c == Coin(sd, n)
<1>1. /\ ChangesOnly(id)
      /\ auctions'[id] =
           [auctions[id] EXCEPT !.status = "Cancelled", !.remaining = 0]
      /\ sellingReserve'[id] = 0
      /\ payingReserve'[id] = payingReserve[id]
      /\ vestingReserve'[id] = vestingReserve[id]
  BY CancelEffect
<1>2. id \in AuctionIds /\ auctions[id] \in Auction BY AuctionFacts
<1>3. auctions'[id].msg = auctions[id].msg BY <1>1, <1>2 DEF Auction
<1>4. /\ n \in Nat /\ payingReserve[id] \in Nat /\ vestingReserve[id] \in Nat
      /\ communityPool \in Coins
  BY <1>2 DEF TypeOK
<1>5. communityPool' = communityPool /\ balance' = Credit(u, c)
  BY DEF CancelAuction
<1>6. c \in Coins BY <1>4, CoinTypes
<1>7. ASSUME NEW d \in Denoms
      PROVE  Total(Balances(d)') = Total(Balances(d)) + (IF sd = d THEN n ELSE 0)
  <2>1. c[d] = IF sd = d THEN n ELSE 0 BY DEF Coin
  <2> HIDE DEF c
  <2> QED BY <1>5, <1>6, <2>1, CreditTotal
<1>8. Pays(sd, sellingReserve'[id] - n, pd,
           (payingReserve'[id] - payingReserve[id]) +
             (vestingReserve'[id] - vestingReserve[id]))
  <2> SUFFICES ASSUME NEW d \in Denoms
               PROVE  Total(Balances(d)') + communityPool'[d]
                        + ((IF sd = d THEN sellingReserve'[id] - n ELSE 0) +
                           (IF pd = d
                              THEN (payingReserve'[id] - payingReserve[id]) +
                                     (vestingReserve'[id] - vestingReserve[id])
                              ELSE 0)) =
                      Total(Balances(d)) + communityPool[d]
    BY DEF Pays
  <2>1. Total(Balances(d)) \in Nat /\ communityPool[d] \in Nat BY HoldingTypes
  <2>2. Total(Balances(d)') = Total(Balances(d)) + (IF sd = d THEN n ELSE 0)
    BY <1>7
  <2> HIDE DEF n, sd, pd
  <2> QED BY <1>1, <1>4, <1>5, <2>1, <2>2
<1> QED BY <1>1, <1>3, <1>8, Balanced

\* What is reserved for a bid comes from the account of its bidder, and the fee
\* goes to the community pool.
LEMMA ReserveCoins ==
  ASSUME TypeOK, TypeOK', NEW id \in Ids, NEW bid \in Bid, NEW amt \in Nat,
         ReserveAndStore(id, bid, amt), ChangesOnly(id),
         auctions'[id].msg = auctions[id].msg,
         UNCHANGED <<sellingReserve, vestingReserve>>
  PROVE  KeepsCoins
<1> DEFINE sd == Msg(id).sellingDenom
           pd == Msg(id).payingDenom
           c == Plus(PlaceBidFee, Coin(pd, amt))
<1>1. id \in AuctionIds BY AuctionFacts
<1>2. PlaceBidFee \in Coins /\ communityPool \in Coins
  BY FundraisingAssumption DEF TypeOK
<1>3. /\ balance' = Debit(bid.bidder, c)
      /\ communityPool' = Plus(communityPool, PlaceBidFee)
      /\ payingReserve' = [payingReserve EXCEPT ![id] = payingReserve[id] + amt]
  BY DEF ReserveAndStore
<1>4. /\ payingReserve'[id] = payingReserve[id] + amt
      /\ payingReserve[id] \in Nat /\ vestingReserve[id] \in Nat
      /\ sellingReserve[id] \in Nat
      /\ vestingReserve'[id] = vestingReserve[id]
      /\ sellingReserve'[id] = sellingReserve[id]
  BY <1>1, <1>3 DEF TypeOK
<1>5. c \in Coins BY <1>2, CoinTypes
<1>6. bid.bidder \in Users BY DEF Bid
<1>7. ASSUME NEW d \in Denoms
      PROVE  /\ Total(Balances(d)') = Total(Balances(d)) -
                  (PlaceBidFee[d] + (IF pd = d THEN amt ELSE 0))
             /\ communityPool'[d] = communityPool[d] + PlaceBidFee[d]
             /\ PlaceBidFee[d] \in Nat
  <2>1. c[d] = PlaceBidFee[d] + (IF pd = d THEN amt ELSE 0) BY DEF Plus, Coin
  <2>2. communityPool'[d] = communityPool[d] + PlaceBidFee[d] BY <1>3 DEF Plus
  <2>3. PlaceBidFee[d] \in Nat BY <1>2 DEF Coins
  <2> HIDE DEF c
  <2> QED BY <1>3, <1>5, <1>6, <2>1, <2>2, <2>3, DebitTotal
<1>8. Pays(sd, sellingReserve'[id] - sellingReserve[id], pd,
           (payingReserve'[id] - payingReserve[id]) +
             (vestingReserve'[id] - vestingReserve[id]))
  <2> SUFFICES ASSUME NEW d \in Denoms
               PROVE  Total(Balances(d)') + communityPool'[d]
                        + ((IF sd = d THEN sellingReserve'[id] - sellingReserve[id]
                            ELSE 0) +
                           (IF pd = d
                              THEN (payingReserve'[id] - payingReserve[id]) +
                                     (vestingReserve'[id] - vestingReserve[id])
                              ELSE 0)) =
                      Total(Balances(d)) + communityPool[d]
    BY DEF Pays
  <2>1. Total(Balances(d)) \in Nat /\ communityPool[d] \in Nat BY HoldingTypes
  <2> HIDE DEF sd, pd
  <2> QED BY <1>4, <1>7, <2>1
<1> QED BY <1>8, Balanced

\* PlaceBid.
LEMMA PlaceCoins ==
  ASSUME TypeOK, TypeOK', NEW id \in Ids, NEW bid \in BidMsg,
         \/ PlaceFixedPriceBid(id, bid)
         \/ PlaceBatchWorthBid(id, bid)
         \/ PlaceBatchManyBid(id, bid)
  PROVE  KeepsCoins
<1>1. /\ ChangesOnly(id) /\ bid \in Bid /\ bid.price > 0
      /\ \/ auctions'[id] = auctions[id]
         \/ \E r : auctions'[id] = [auctions[id] EXCEPT !.remaining = r]
  BY PlaceEffect
<1>2. auctions[id] \in Auction BY AuctionFacts
<1>3. auctions'[id].msg = auctions[id].msg BY <1>1, <1>2 DEF Auction
<1>4. bid.amount \in Nat /\ ConvertToPayingAmount(bid, Msg(id).payingDenom) \in Nat
  BY <1>1, ConvertTypes DEF Bid
<1>5. \E x \in Bid, amt \in Nat : ReserveAndStore(id, x, amt)
  BY <1>1, <1>4, BidMsgType
     DEF PlaceFixedPriceBid, PlaceBatchWorthBid, PlaceBatchManyBid
<1>6. UNCHANGED <<sellingReserve, vestingReserve>>
  BY DEF PlaceFixedPriceBid, PlaceBatchWorthBid, PlaceBatchManyBid
<1> QED BY <1>1, <1>3, <1>5, <1>6, ReserveCoins

\* ModifyBid: the difference comes from the account of the bidder.
LEMMA ModifyCoins ==
  ASSUME TypeOK, TypeOK', NEW id \in Ids, NEW k \in 1..Len(bids[id]),
         NEW u \in Users, NEW price \in Prices, NEW denom \in Denoms,
         NEW amount \in Amounts, ModifyBid(id, k, u, price, denom, amount)
  PROVE  KeepsCoins
<1> DEFINE sd == Msg(id).sellingDenom
           pd == Msg(id).payingDenom
           bid == bids[id][k]
           diff == ReserveDifference(bid, price, amount)
           c == Coin(pd, diff)
<1>1. /\ ChangesOnly(id) /\ price \in Nat /\ amount \in Nat
      /\ price >= bid.price /\ amount >= bid.amount
      /\ auctions'[id] = auctions[id]
      /\ payingReserve'[id] = payingReserve[id] + diff
      /\ sellingReserve'[id] = sellingReserve[id]
      /\ vestingReserve'[id] = vestingReserve[id]
  BY ModifyEffect
<1>2. id \in AuctionIds BY AuctionFacts
<1>3. /\ sellingReserve[id] \in Nat /\ payingReserve[id] \in Nat
      /\ vestingReserve[id] \in Nat /\ bids[id] \in Seq(Bid)
      /\ communityPool \in Coins
  BY <1>2 DEF TypeOK
<1>4. bid \in Bid BY <1>3, ElementOfSeq
<1>5. bid.price \in Nat /\ bid.amount \in Nat BY <1>4 DEF Bid, Decimals
<1>6. communityPool' = communityPool /\ balance' = Debit(u, c) BY DEF ModifyBid
<1> HIDE DEF bid
<1>7. diff \in Nat BY <1>1, <1>4, <1>5, DifferenceType
<1> HIDE DEF diff
<1>8. c \in Coins BY <1>3, <1>7, CoinTypes
<1>9. ASSUME NEW d \in Denoms
      PROVE  Total(Balances(d)') =
               Total(Balances(d)) - (IF pd = d THEN diff ELSE 0)
  <2>1. c[d] = IF pd = d THEN diff ELSE 0 BY DEF Coin
  <2> HIDE DEF c
  <2> QED BY <1>6, <1>8, <2>1, DebitTotal
<1>10. Pays(sd, sellingReserve'[id] - sellingReserve[id], pd,
            (payingReserve'[id] - payingReserve[id]) +
              (vestingReserve'[id] - vestingReserve[id]))
  <2> SUFFICES ASSUME NEW d \in Denoms
               PROVE  Total(Balances(d)') + communityPool'[d]
                        + ((IF sd = d THEN sellingReserve'[id] - sellingReserve[id]
                            ELSE 0) +
                           (IF pd = d
                              THEN (payingReserve'[id] - payingReserve[id]) +
                                     (vestingReserve'[id] - vestingReserve[id])
                              ELSE 0)) =
                      Total(Balances(d)) + communityPool[d]
    BY DEF Pays
  <2>1. Total(Balances(d)) \in Nat /\ communityPool[d] \in Nat BY HoldingTypes
  <2>2. /\ payingReserve'[id] = payingReserve[id] + diff
        /\ sellingReserve'[id] = sellingReserve[id]
        /\ vestingReserve'[id] = vestingReserve[id]
    BY <1>1
  <2>3. Total(Balances(d)') = Total(Balances(d)) - (IF pd = d THEN diff ELSE 0)
    BY <1>9
  <2> DEFINE t == Total(Balances(d))
             v == Total(Balances(d)')
             x == sellingReserve'[id] - sellingReserve[id]
             y == (payingReserve'[id] - payingReserve[id]) +
                    (vestingReserve'[id] - vestingReserve[id])
             p == communityPool[d]
  <2>4. x = 0 /\ y = diff /\ diff \in Int BY <1>3, <1>6, <1>7, <2>2
  <2>5. communityPool'[d] = p /\ p \in Nat /\ t \in Nat BY <1>6, <1>7, <2>1
  <2>6. v = t - (IF pd = d THEN diff ELSE 0) BY <2>3
  <2> HIDE DEF sd, pd, t, v, x, y, p, diff
  <2>7. v + p + ((IF sd = d THEN x ELSE 0) + (IF pd = d THEN y ELSE 0)) = t + p
    BY <2>4, <2>5, <2>6
  <2> QED BY <2>5, <2>7 DEF t, v, x, y, p
<1> QED BY <1>1, <1>10, Balanced

\* A bank transfer.
LEMMA TransferCoins ==
  ASSUME TypeOK, TypeOK', NEW id \in Ids, NEW u \in Users,
         NEW amount \in Transfers, TransferToReserve(id, u, amount)
  PROVE  KeepsCoins
<1> DEFINE sd == Msg(id).sellingDenom
           pd == Msg(id).payingDenom
<1>1. ChangesOnly(id) /\ auctions'[id] = auctions[id] BY TransferEffect
<1>2. id \in AuctionIds /\ amount \in Nat BY AuctionFacts, FundraisingAssumption
<1>3. /\ sellingReserve[id] \in Nat /\ payingReserve[id] \in Nat
      /\ vestingReserve[id] \in Nat /\ communityPool \in Coins
  BY <1>2 DEF TypeOK
<1>4. communityPool' = communityPool BY DEF TransferToReserve
<1>5. PICK s \in {0, amount}, p \in {0, amount}, v \in {0, amount} :
        /\ sellingReserve'[id] = sellingReserve[id] + s
        /\ payingReserve'[id] = payingReserve[id] + p
        /\ vestingReserve'[id] = vestingReserve[id] + v
        /\ \/ s = amount /\ p = 0 /\ v = 0 /\ balance' = Debit(u, Coin(sd, amount))
           \/ s = 0 /\ p + v = amount /\ balance' = Debit(u, Coin(pd, amount))
  <2>1. CASE /\ balance' = Debit(u, Coin(sd, amount))
             /\ sellingReserve' = [sellingReserve EXCEPT ![id] =
                                     sellingReserve[id] + amount]
             /\ UNCHANGED <<payingReserve, vestingReserve>>
    <3>1. sellingReserve'[id] = sellingReserve[id] + amount
      BY <1>2, <2>1 DEF TypeOK
    <3>2. /\ payingReserve'[id] = payingReserve[id] + 0
          /\ vestingReserve'[id] = vestingReserve[id] + 0
      BY <1>3, <2>1
    <3> HIDE DEF sd, pd
    <3> QED BY <2>1, <3>1, <3>2
  <2>2. CASE /\ balance' = Debit(u, Coin(pd, amount))
             /\ payingReserve' = [payingReserve EXCEPT ![id] =
                                    payingReserve[id] + amount]
             /\ UNCHANGED <<sellingReserve, vestingReserve>>
    <3>1. payingReserve'[id] = payingReserve[id] + amount
      BY <1>2, <2>2 DEF TypeOK
    <3>2. /\ sellingReserve'[id] = sellingReserve[id] + 0
          /\ vestingReserve'[id] = vestingReserve[id] + 0
          /\ amount + 0 = amount
      BY <1>2, <1>3, <2>2
    <3> HIDE DEF sd, pd
    <3> QED BY <2>2, <3>1, <3>2
  <2>3. CASE /\ balance' = Debit(u, Coin(pd, amount))
             /\ vestingReserve' = [vestingReserve EXCEPT ![id] =
                                     vestingReserve[id] + amount]
             /\ UNCHANGED <<sellingReserve, payingReserve>>
    <3>1. vestingReserve'[id] = vestingReserve[id] + amount
      BY <1>2, <2>3 DEF TypeOK
    <3>2. /\ sellingReserve'[id] = sellingReserve[id] + 0
          /\ payingReserve'[id] = payingReserve[id] + 0
          /\ 0 + amount = amount
      BY <1>2, <1>3, <2>3
    <3> HIDE DEF sd, pd
    <3> QED BY <2>3, <3>1, <3>2
  <2> QED BY <2>1, <2>2, <2>3 DEF TransferToReserve
<1>6. s \in Nat /\ p \in Nat /\ v \in Nat BY <1>2, <1>5
<1>7. Coin(sd, amount) \in Coins /\ Coin(pd, amount) \in Coins
  BY <1>2, <1>3, CoinTypes
<1>8. ASSUME NEW d \in Denoms
      PROVE  Total(Balances(d)') = Total(Balances(d)) -
               ((IF sd = d THEN s ELSE 0) + (IF pd = d THEN p + v ELSE 0))
  <2>1. /\ Coin(sd, amount)[d] = (IF sd = d THEN amount ELSE 0)
        /\ Coin(pd, amount)[d] = (IF pd = d THEN amount ELSE 0)
    BY DEF Coin
  <2>2. /\ balance' = Debit(u, Coin(sd, amount)) =>
             Total(Balances(d)') = Total(Balances(d)) - Coin(sd, amount)[d]
        /\ balance' = Debit(u, Coin(pd, amount)) =>
             Total(Balances(d)') = Total(Balances(d)) - Coin(pd, amount)[d]
    BY <1>7, DebitTotal
  <2>3. Total(Balances(d)) \in Nat BY HoldingTypes
  <2> HIDE DEF sd, pd
  <2> QED BY <1>2, <1>5, <1>6, <2>1, <2>2, <2>3
<1>9. Pays(sd, sellingReserve'[id] - sellingReserve[id], pd,
           (payingReserve'[id] - payingReserve[id]) +
             (vestingReserve'[id] - vestingReserve[id]))
  <2> SUFFICES ASSUME NEW d \in Denoms
               PROVE  Total(Balances(d)') + communityPool'[d]
                        + ((IF sd = d THEN sellingReserve'[id] - sellingReserve[id]
                            ELSE 0) +
                           (IF pd = d
                              THEN (payingReserve'[id] - payingReserve[id]) +
                                     (vestingReserve'[id] - vestingReserve[id])
                              ELSE 0)) =
                      Total(Balances(d)) + communityPool[d]
    BY DEF Pays
  <2>1. Total(Balances(d)) \in Nat /\ communityPool[d] \in Nat BY HoldingTypes
  <2>2. /\ sellingReserve'[id] - sellingReserve[id] = s
        /\ (payingReserve'[id] - payingReserve[id]) +
             (vestingReserve'[id] - vestingReserve[id]) = p + v
    <3>1. /\ sellingReserve'[id] = sellingReserve[id] + s
          /\ payingReserve'[id] = payingReserve[id] + p
          /\ vestingReserve'[id] = vestingReserve[id] + v
      BY <1>5
    <3> QED BY <1>3, <1>6, <3>1
  <2> HIDE DEF sd, pd
  <2> QED BY <1>4, <1>6, <1>8, <2>1, <2>2
<1> QED BY <1>1, <1>9, Balanced

\* ReleaseVestingPayingCoin: vested coins go to the auctioneer.
LEMMA ReleaseCoins ==
  ASSUME TypeOK, TypeOK', NEW id \in Ids, ExecuteVestingStatus(id)
  PROVE  KeepsCoins
<1> DEFINE sd == Msg(id).sellingDenom
           pd == Msg(id).payingDenom
           n == ReleasedAmount(id)
           c == Coin(pd, n)
           s == IF ShouldRelease(vestingQueues[id][Len(vestingQueues[id])])
                  THEN "Finished" ELSE auctions[id].status
<1>1. /\ ChangesOnly(id)
      /\ auctions'[id] = [auctions[id] EXCEPT !.status = s]
      /\ UNCHANGED <<sellingReserve, payingReserve>>
      /\ n \in 0..vestingReserve[id]
      /\ vestingReserve'[id] = vestingReserve[id] - n
  BY ReleaseEffect
<1>2. id \in AuctionIds /\ auctions[id] \in Auction /\ Msg(id) \in CreateMsg
  BY AuctionFacts
<1>3. auctions'[id].msg = auctions[id].msg
  <2> HIDE DEF s
  <2> QED BY <1>1, <1>2 DEF Auction
<1>4. /\ sellingReserve[id] \in Nat /\ payingReserve[id] \in Nat
      /\ vestingReserve[id] \in Nat /\ communityPool \in Coins
  BY <1>2 DEF TypeOK
<1>5. communityPool' = communityPool /\ balance' = Credit(Msg(id).auctioneer, c)
  BY DEF ExecuteVestingStatus
<1> HIDE DEF n
<1>6. n \in Nat /\ Msg(id).auctioneer \in Users BY <1>1, <1>2, <1>4 DEF CreateMsg
<1>7. c \in Coins BY <1>4, <1>6, CoinTypes
<1>8. ASSUME NEW d \in Denoms
      PROVE  Total(Balances(d)') = Total(Balances(d)) + (IF pd = d THEN n ELSE 0)
  <2>1. c[d] = IF pd = d THEN n ELSE 0 BY DEF Coin
  <2> HIDE DEF c
  <2> QED BY <1>5, <1>6, <1>7, <2>1, CreditTotal
<1>9. Pays(sd, sellingReserve'[id] - sellingReserve[id], pd,
           (payingReserve'[id] - payingReserve[id]) +
             (vestingReserve'[id] - vestingReserve[id]))
  <2> SUFFICES ASSUME NEW d \in Denoms
               PROVE  Total(Balances(d)') + communityPool'[d]
                        + ((IF sd = d THEN sellingReserve'[id] - sellingReserve[id]
                            ELSE 0) +
                           (IF pd = d
                              THEN (payingReserve'[id] - payingReserve[id]) +
                                     (vestingReserve'[id] - vestingReserve[id])
                              ELSE 0)) =
                      Total(Balances(d)) + communityPool[d]
    BY DEF Pays
  <2>1. Total(Balances(d)) \in Nat /\ communityPool[d] \in Nat BY HoldingTypes
  <2> DEFINE t == Total(Balances(d))
             u == Total(Balances(d)')
             x == sellingReserve'[id] - sellingReserve[id]
             y == (payingReserve'[id] - payingReserve[id]) +
                    (vestingReserve'[id] - vestingReserve[id])
             p == communityPool[d]
  <2>2. x = 0 /\ y = 0 - n
    <3> DEFINE v == vestingReserve[id]
    <3>1. vestingReserve'[id] = v - n /\ v \in Nat BY <1>1, <1>4
    <3>2. /\ sellingReserve'[id] = sellingReserve[id]
          /\ payingReserve'[id] = payingReserve[id]
      BY <1>1
    <3> HIDE DEF v
    <3> QED BY <1>4, <1>6, <3>1, <3>2 DEF v
  <2>3. communityPool'[d] = p /\ p \in Nat /\ t \in Nat BY <1>5, <2>1
  <2>4. u = t + (IF pd = d THEN n ELSE 0) BY <1>8
  <2> HIDE DEF sd, pd, t, u, x, y, p
  <2>5. u + p + ((IF sd = d THEN x ELSE 0) + (IF pd = d THEN y ELSE 0)) = t + p
    BY <1>6, <2>2, <2>3, <2>4
  <2> QED BY <2>3, <2>5 DEF t, u, x, y, p
<1> QED BY <1>1, <1>3, <1>9, Balanced

\* What only the auctioneer receives.
LEMMA ShareTotal ==
  ASSUME NEW id, Msg(id).auctioneer \in Users, NEW x \in Int
  PROVE  LET share == [u \in Users |-> AuctioneerShare(id, u, x)]
         IN  SummableOn(Users, share) /\ Total(share) = x
<1> DEFINE share == [u \in Users |-> AuctioneerShare(id, u, x)]
           none == [u \in Users |-> 0]
           a == Msg(id).auctioneer
<1>1. SummableOn(Users, none) /\ SumFunctionOnSet(none, Users) = 0
  BY FundraisingAssumption, SetSumZero
<1>2. share[a] = x /\ none[a] = 0 /\ \A u \in Users \ {a} : share[u] = none[u]
  BY DEF AuctioneerShare
<1>3. a \in Users /\ share[a] \in Int BY <1>2
<1> HIDE DEF share, none, a
<1>4. /\ SummableOn(Users, share)
      /\ SumFunctionOnSet(share, Users) = SumFunctionOnSet(none, Users)
                                            + (share[a] - none[a])
  <2>1. /\ IsFiniteSet(Users) /\ SummableOn(Users, none) /\ a \in Users
        /\ share[a] \in Int /\ \A u \in Users \ {a} : share[u] = none[u]
    BY <1>1, <1>2, <1>3, FundraisingAssumption
  <2> QED BY <2>1, SetSumChange
<1>5. Total(share) = x BY <1>1, <1>2, <1>4 DEF Total
<1> QED BY <1>4, <1>5 DEF share

\* A settlement pays out all that the selling reserve holds, and all that the
\* paying reserve holds and that is not vested.
LEMMA SettlementTotal ==
  ASSUME TypeOK, NEW id \in Ids, NEW allocation, NEW refund,
         Settle(id, allocation, refund), NEW d \in Denoms
  PROVE  Total(Balances(d)') = Total(Balances(d)) +
           ((IF Msg(id).sellingDenom = d THEN sellingReserve[id] ELSE 0) +
            (IF Msg(id).payingDenom = d
               THEN payingReserve[id] - (IF Msg(id).schedules # <<>>
                                           THEN Raised(id, refund) ELSE 0)
               ELSE 0))
<1> DEFINE m == Msg(id)
           sd == m.sellingDenom
           pd == m.payingDenom
           unsold == Unsold(id, allocation)
           raised == Raised(id, refund)
           vests == m.schedules # <<>>
           now == IF vests THEN 0 ELSE raised
           share(x) == [u \in Users |-> AuctioneerShare(id, u, x)]
           sold == [u \in Users |-> allocation[u] + share(unsold)[u]]
           paid == [u \in Users |-> refund[u] + share(now)[u]]
           f == Balances(d)
           g == Balances(d)'
           hs == [u \in Users |-> IF sd = d THEN sold[u] ELSE 0]
           hp == [u \in Users |-> IF pd = d THEN paid[u] ELSE 0]
           h == [u \in Users |-> hs[u] + hp[u]]
<1>1. id \in AuctionIds /\ m \in CreateMsg BY AuctionFacts
<1>2. /\ allocation \in [Users -> Nat] /\ refund \in [Users -> Nat]
      /\ Total(allocation) \in 0..sellingReserve[id]
      /\ Total(refund) \in 0..payingReserve[id]
  BY DEF Settle, CanSettle
<1>3. sellingReserve[id] \in Nat /\ payingReserve[id] \in Nat
  BY <1>1 DEF TypeOK
<1>4. /\ unsold \in Nat /\ raised \in Nat /\ now \in Nat
      /\ Total(allocation) \in Nat /\ Total(refund) \in Nat
      /\ Total(allocation) + unsold = sellingReserve[id]
      /\ Total(refund) + raised = payingReserve[id]
  BY <1>2, <1>3 DEF Unsold, Raised
<1>5. m.auctioneer \in Users BY <1>1 DEF CreateMsg
<1>6. /\ SummableOn(Users, share(unsold)) /\ Total(share(unsold)) = unsold
      /\ SummableOn(Users, share(now)) /\ Total(share(now)) = now
  <2> HIDE DEF unsold, now
  <2>1. unsold \in Int /\ now \in Int BY <1>4
  <2> QED BY <1>5, <2>1, ShareTotal
<1>7. ASSUME NEW u \in Users
      PROVE  balance'[u][d] = balance[u][d] +
               ((IF sd = d THEN sold[u] ELSE 0) + (IF pd = d THEN paid[u] ELSE 0))
  <2> DEFINE x == allocation[u] + AuctioneerShare(id, u, unsold)
             y == refund[u] + IF vests THEN 0 ELSE AuctioneerShare(id, u, raised)
  <2>1. balance'[u] = Plus(balance[u], Plus(Coin(sd, x), Coin(pd, y)))
    BY DEF Settle
  <2>2. x = sold[u] /\ y = paid[u]
    <3>1. (IF vests THEN 0 ELSE AuctioneerShare(id, u, raised)) =
            AuctioneerShare(id, u, now)
      BY DEF AuctioneerShare
    <3> QED BY <3>1
  <2> HIDE DEF x, y, sd, pd
  <2>3. balance'[u][d] = balance[u][d] +
          ((IF sd = d THEN x ELSE 0) + (IF pd = d THEN y ELSE 0))
    BY <2>1 DEF Plus, Coin
  <2> QED BY <2>2, <2>3
<1>8. \A u \in Users : sold[u] = allocation[u] + share(unsold)[u] OBVIOUS
<1>9. \A u \in Users : paid[u] = refund[u] + share(now)[u] OBVIOUS
<1>10. SummableOn(Users, allocation) /\ SummableOn(Users, refund)
  BY <1>2 DEF SummableOn
<1>11. /\ SummableOn(Users, sold)
       /\ SumFunctionOnSet(sold, Users) = sellingReserve[id]
  <2> HIDE DEF sold, share, unsold, now
  <2>1. /\ SummableOn(Users, sold)
        /\ SumFunctionOnSet(sold, Users) =
             SumFunctionOnSet(allocation, Users)
               + SumFunctionOnSet(share(unsold), Users)
    BY <1>6, <1>8, <1>10, FundraisingAssumption, SetSumPlus
  <2> QED BY <1>4, <1>6, <2>1 DEF Total
<1>12. /\ SummableOn(Users, paid)
       /\ SumFunctionOnSet(paid, Users) =
            payingReserve[id] - (IF vests THEN raised ELSE 0)
  <2>1. Total(refund) + now = payingReserve[id] - (IF vests THEN raised ELSE 0)
    <3> HIDE DEF raised, vests
    <3> QED BY <1>3, <1>4
  <2> HIDE DEF paid, share, unsold, now, vests, raised
  <2>2. /\ SummableOn(Users, paid)
        /\ SumFunctionOnSet(paid, Users) =
             SumFunctionOnSet(refund, Users) + SumFunctionOnSet(share(now), Users)
    BY <1>6, <1>9, <1>10, FundraisingAssumption, SetSumPlus
  <2> QED BY <1>6, <2>1, <2>2 DEF Total
<1>13. /\ SummableOn(Users, hs)
       /\ SumFunctionOnSet(hs, Users) = IF sd = d THEN sellingReserve[id] ELSE 0
  <2>1. CASE sd = d
    <3>1. \A u \in Users : sold[u] = hs[u] BY <2>1
    <3> HIDE DEF hs, sold
    <3> QED BY <1>11, <2>1, <3>1, FundraisingAssumption, SetSumSame
  <2>2. CASE sd # d
    <3>1. \A u \in Users : hs[u] = 0 BY <2>2
    <3> HIDE DEF hs
    <3> QED BY <2>2, <3>1, FundraisingAssumption, SetSumZero
  <2> QED BY <2>1, <2>2
<1>14. /\ SummableOn(Users, hp)
       /\ SumFunctionOnSet(hp, Users) =
            IF pd = d THEN payingReserve[id] - (IF vests THEN raised ELSE 0) ELSE 0
  <2>1. CASE pd = d
    <3>1. \A u \in Users : paid[u] = hp[u] BY <2>1
    <3> HIDE DEF hp, paid, vests, raised
    <3> QED BY <1>12, <2>1, <3>1, FundraisingAssumption, SetSumSame
  <2>2. CASE pd # d
    <3>1. \A u \in Users : hp[u] = 0 BY <2>2
    <3> HIDE DEF hp
    <3> QED BY <2>2, <3>1, FundraisingAssumption, SetSumZero
  <2> QED BY <2>1, <2>2
<1>15. \A u \in Users : h[u] = hs[u] + hp[u] OBVIOUS
<1>16. \A u \in Users : g[u] = f[u] + h[u] BY <1>7 DEF Balances
<1>17. SummableOn(Users, f) BY HoldingTypes
<1> HIDE DEF f, g, h, hs, hp, sold, paid, vests, raised, sd, pd
<1>18. /\ SummableOn(Users, h)
       /\ SumFunctionOnSet(h, Users) =
            SumFunctionOnSet(hs, Users) + SumFunctionOnSet(hp, Users)
  BY <1>13, <1>14, <1>15, FundraisingAssumption, SetSumPlus
<1>19. SumFunctionOnSet(g, Users) =
         SumFunctionOnSet(f, Users) + SumFunctionOnSet(h, Users)
  BY <1>16, <1>17, <1>18, FundraisingAssumption, SetSumPlus
<1>20. Total(g) = Total(f) +
         ((IF sd = d THEN sellingReserve[id] ELSE 0) +
          (IF pd = d THEN payingReserve[id] - (IF vests THEN raised ELSE 0) ELSE 0))
  BY <1>13, <1>14, <1>18, <1>19 DEF Total
<1> QED BY <1>20 DEF f, g, sd, pd, vests, raised

\* CloseFixedPriceAuction and CloseBatchAuction.
LEMMA CloseCoins ==
  ASSUME TypeOK, TypeOK', NEW id \in Ids,
         CloseFixedPriceAuction(id) \/ CloseBatchAuction(id)
  PROVE  KeepsCoins
<1> DEFINE sd == Msg(id).sellingDenom
           pd == Msg(id).payingDenom
           vests == Msg(id).schedules # <<>>
           s == IF vests THEN "Vesting" ELSE "Finished"
<1>1. ChangesOnly(id) BY CloseEffect
<1>2. PICK allocation, refund : Settle(id, allocation, refund)
  BY DEF CloseFixedPriceAuction, CloseBatchAuction
<1> DEFINE raised == Raised(id, refund)
<1>3. /\ auctions'[id] = [auctions[id] EXCEPT !.status = s]
      /\ sellingReserve'[id] = 0
      /\ payingReserve'[id] = 0
      /\ vestingReserve'[id] = IF vests THEN vestingReserve[id] + raised
                                        ELSE vestingReserve[id]
      /\ raised \in Nat
  BY <1>2, SettleEffect
<1>4. id \in AuctionIds /\ auctions[id] \in Auction BY AuctionFacts
<1>5. auctions'[id].msg = auctions[id].msg
  <2> HIDE DEF s
  <2> QED BY <1>3, <1>4 DEF Auction
<1>6. /\ sellingReserve[id] \in Nat /\ payingReserve[id] \in Nat
      /\ vestingReserve[id] \in Nat
  BY <1>4 DEF TypeOK
<1>7. communityPool' = communityPool BY <1>2 DEF Settle
<1>8. Pays(sd, sellingReserve'[id] - sellingReserve[id], pd,
           (payingReserve'[id] - payingReserve[id]) +
             (vestingReserve'[id] - vestingReserve[id]))
  <2> SUFFICES ASSUME NEW d \in Denoms
               PROVE  Total(Balances(d)') + communityPool'[d]
                        + ((IF sd = d THEN sellingReserve'[id] - sellingReserve[id]
                            ELSE 0) +
                           (IF pd = d
                              THEN (payingReserve'[id] - payingReserve[id]) +
                                     (vestingReserve'[id] - vestingReserve[id])
                              ELSE 0)) =
                      Total(Balances(d)) + communityPool[d]
    BY DEF Pays
  <2>1. Total(Balances(d)) \in Nat /\ communityPool[d] \in Nat BY HoldingTypes
  <2>2. Total(Balances(d)') = Total(Balances(d)) +
          ((IF sd = d THEN sellingReserve[id] ELSE 0) +
           (IF pd = d THEN payingReserve[id] - (IF vests THEN raised ELSE 0)
            ELSE 0))
    BY <1>2, SettlementTotal
  <2>3. /\ sellingReserve'[id] - sellingReserve[id] = 0 - sellingReserve[id]
        /\ (payingReserve'[id] - payingReserve[id]) +
             (vestingReserve'[id] - vestingReserve[id]) =
             (IF vests THEN raised ELSE 0) - payingReserve[id]
    <3> HIDE DEF vests, raised
    <3> QED BY <1>3, <1>6
  <2> HIDE DEF sd, pd, vests, raised
  <2> QED BY <1>3, <1>6, <1>7, <2>1, <2>2, <2>3
<1> QED BY <1>1, <1>5, <1>8, Balanced

\* A step that moves no coin and changes one auction keeps the coins.
LEMMA StillCoins ==
  ASSUME TypeOK, TypeOK', NEW id \in Ids, ChangesOnly(id),
         auctions'[id].msg = auctions[id].msg, UNCHANGED <<accounts, reserves>>
  PROVE  KeepsCoins
<1>1. /\ UNCHANGED <<balance, communityPool>>
      /\ UNCHANGED <<sellingReserve, payingReserve, vestingReserve>>
  BY DEF accounts, reserves
<1>2. /\ sellingReserve[id] \in Nat /\ payingReserve[id] \in Nat
      /\ vestingReserve[id] \in Nat
  BY AuctionFacts DEF TypeOK
<1>3. /\ sellingReserve'[id] - sellingReserve[id] = 0
      /\ (payingReserve'[id] - payingReserve[id]) +
           (vestingReserve'[id] - vestingReserve[id]) = 0
  BY <1>1, <1>2
<1>4. ASSUME NEW d \in Denoms
      PROVE  /\ Total(Balances(d)') = Total(Balances(d))
             /\ communityPool'[d] = communityPool[d]
             /\ Total(Balances(d)) \in Nat /\ communityPool[d] \in Nat
  BY <1>1, HoldingTypes DEF Balances
<1>5. Pays(Msg(id).sellingDenom, 0, Msg(id).payingDenom, 0)
  BY <1>4 DEF Pays
<1> QED BY <1>3, <1>5, Balanced

\* ExecuteStandByStatus and ExtendRound move no coin.
LEMMA StandByCoins ==
  ASSUME TypeOK, TypeOK', NEW id \in Ids, ExecuteStandByStatus(id)
  PROVE  KeepsCoins
<1>1. /\ ChangesOnly(id)
      /\ auctions'[id] = [auctions[id] EXCEPT !.status = "Started"]
  BY StandByEffect
<1>2. UNCHANGED <<accounts, reserves>> BY DEF ExecuteStandByStatus
<1>3. auctions'[id].msg = auctions[id].msg BY <1>1, AuctionFacts DEF Auction
<1> QED BY <1>1, <1>2, <1>3, StillCoins

\* keeper/auction.go, ExtendRound: only an end time is appended.
LEMMA ExtendCoins ==
  ASSUME TypeOK, TypeOK', NEW id \in Ids, ExtendRound(id)
  PROVE  KeepsCoins
<1> DEFINE e == Append(auctions[id].endTimes, EndTime(id) + extendedPeriod)
<1>1. /\ ChangesOnly(id)
      /\ auctions'[id] = [auctions[id] EXCEPT !.endTimes = e]
  BY ExtendEffect
<1>2. UNCHANGED <<accounts, reserves>> BY DEF ExtendRound
<1> HIDE DEF e
<1>3. auctions'[id].msg = auctions[id].msg BY <1>1, AuctionFacts DEF Auction
<1> QED BY <1>1, <1>2, <1>3, StillCoins

\* Every step moves coins from one place to another.
LEMMA CoinsStep ==
  ASSUME TypeOK, UnusedReserves, [Next]_vars
  PROVE  KeepsCoins
<1>1. TypeOK' BY NextType
<1>2. ASSUME Quiet PROVE KeepsCoins
  BY <1>2 DEF Quiet, KeepsCoins, CirculatingCoin, accounts, reserves, Ids, Msg
<1>3. ASSUME NEW m \in CreateMsgs,
             CreateFixedPriceAuction(m) \/ CreateBatchAuction(m)
      PROVE  KeepsCoins
  BY <1>1, <1>3, CreateCoins DEF CreateFixedPriceAuction, CreateBatchAuction
<1> QED
  BY <1>1, <1>2, <1>3, StepCases, CancelCoins, PlaceCoins, ModifyCoins,
     TransferCoins, StandByCoins, CloseCoins, ExtendCoins, ReleaseCoins, Zenon

\* A step gives coins to the reserve accounts of existing auctions only.
LEMMA UnusedStep ==
  ASSUME TypeOK, UnusedReserves, [Next]_vars
  PROVE  UnusedReserves'
<1>1. ASSUME Quiet PROVE UnusedReserves'
  BY <1>1 DEF Quiet, UnusedReserves, reserves, Ids
<1>2. ASSUME NEW id \in Ids, ChangesOnly(id) PROVE UnusedReserves'
  BY <1>2 DEF ChangesOnly, Same, UnusedReserves
<1>3. ASSUME NEW m \in CreateMsgs,
             CreateFixedPriceAuction(m) \/ CreateBatchAuction(m)
      PROVE  UnusedReserves'
  <2>1. CreateAuction(m)
    BY <1>3 DEF CreateFixedPriceAuction, CreateBatchAuction
  <2>2. PICK id \in AuctionIds :
          Ids' = Ids \cup {id} /\ \A j \in AuctionIds \ {id} : Same(j)
    BY <2>1, CreateEffect
  <2> QED BY <2>2 DEF Same, UnusedReserves
<1>4. ASSUME NEW id \in Ids,
             CloseFixedPriceAuction(id) \/ CloseBatchAuction(id)
      PROVE  ChangesOnly(id)
  BY <1>4, CloseEffect
<1> QED
  BY <1>1, <1>2, <1>3, <1>4, StepCases, CancelEffect, PlaceEffect, ModifyEffect,
     TransferEffect, StandByEffect, ExtendEffect, ReleaseEffect, Zenon

\* The coins of the genesis state are with the users.
LEMMA CoinsInit == Init => UnusedReserves /\ CoinsConserved
<1> SUFFICES ASSUME Init PROVE UnusedReserves /\ CoinsConserved OBVIOUS
<1>1. Ids = {} BY EmptySeq DEF Init, Ids
<1>2. UnusedReserves BY DEF Init, UnusedReserves
<1>3. ASSUME NEW d \in Denoms
      PROVE  CirculatingCoin(d) = Total([u \in Users |-> InitialBalance[u][d]])
  <2> DEFINE i == [u \in Users |-> InitialBalance[u][d]]
  <2>1. Balances(d) = i BY DEF Init, Balances
  <2>2. communityPool[d] = 0 BY DEF Init
  <2>3. SumFunctionOnSet(Holdings(d), Ids) = 0 BY <1>1, SetSumEmpty
  <2>4. Total(i) \in Nat
    <3>1. \A u \in Users : i[u] \in Nat BY FundraisingAssumption DEF Coins
    <3> HIDE DEF i
    <3> QED BY <3>1, FundraisingAssumption, SetSumNat DEF Total
  <2> HIDE DEF i
  <2>5. CirculatingCoin(d) = Total(i)
    BY <2>1, <2>2, <2>3, <2>4, CirculatingIs
  <2> QED BY <2>5 DEF i
<1> QED BY <1>2, <1>3 DEF CoinsConserved

\* The ledger stays what it was.
LEMMA ConservedStep ==
  ASSUME TypeOK, UnusedReserves, CoinsConserved, [Next]_vars
  PROVE  CoinsConserved'
BY CoinsStep DEF KeepsCoins, CoinsConserved

\* The bank's ledger: whatever is created, bid, modified, cancelled, settled,
\* extended, released or sent to the reserve accounts, with whatever fees and
\* rounding, the accounts, the community pool and the reserve accounts hold
\* together what the accounts held at genesis.
THEOREM CoinsAreConserved == Spec => []CoinsConserved
<1>1. TypeOK /\ UnusedReserves /\ CoinsConserved /\ [Next]_vars =>
        UnusedReserves' /\ CoinsConserved'
  BY UnusedStep, ConservedStep
<1> QED BY <1>1, CoinsInit, TypeCorrect, PTL DEF Spec

-----------------------------------------------------------------------------
(***************************************************************************)
(* The keeper implements the escrow.                                       *)
(***************************************************************************)
StageOf(status) ==
  CASE status = "StandBy" -> "Announced"
    [] status = "Started" -> "Open"
    [] status = "Vesting" -> "Vesting"
    [] OTHER -> "Closed"

\* A step of the escrow, or none.
EscrowStep == Escrow!Next \/ UNCHANGED Escrow!vars

\* An auction that a step leaves alone stays at its stage, and a new one has the
\* stage of its status.
LEMMA StageChange ==
  ASSUME TypeOK, NEW id \in AuctionIds, Ids' = Ids \cup {id},
         \A j \in AuctionIds \ {id} : Same(j)
  PROVE  /\ Stage' = [Stage EXCEPT ![id] = StageOf(auctions'[id].status)]
         /\ id \in Ids => Stage[id] = StageOf(Status(id))
         /\ id \notin Ids => Stage[id] = "None"
<1>1. id \in Ids => Stage[id] = StageOf(Status(id)) BY DEF Stage, StageOf
<1>2. id \notin Ids => Stage[id] = "None" BY DEF Stage
<1>3. Stage'[id] = StageOf(auctions'[id].status) BY DEF Stage, StageOf, Status
<1>4. ASSUME NEW j \in AuctionIds \ {id} PROVE Stage'[j] = Stage[j]
  <2>1. Same(j) /\ (j \in Ids' <=> j \in Ids) OBVIOUS
  <2> QED BY <2>1 DEF Same, Stage, Status
<1>5. Stage = [j \in AuctionIds |-> Stage[j]] BY DEF Stage
<1>6. Stage' = [j \in AuctionIds |-> Stage'[j]] BY DEF Stage
<1> HIDE DEF Stage
<1>7. Stage' = [Stage EXCEPT ![id] = StageOf(auctions'[id].status)]
  BY <1>3, <1>4, <1>5, <1>6
<1> QED BY <1>1, <1>2, <1>7

\* The reserves of the other auctions stay what they are.
LEMMA ReserveChange ==
  ASSUME TypeOK, TypeOK', NEW id \in AuctionIds,
         \A j \in AuctionIds \ {id} : Same(j)
  PROVE  /\ sellingReserve' = [sellingReserve EXCEPT ![id] = sellingReserve'[id]]
         /\ payingReserve' = [payingReserve EXCEPT ![id] = payingReserve'[id]]
         /\ vestingReserve' = [vestingReserve EXCEPT ![id] = vestingReserve'[id]]
         /\ sellingReserve'[id] = sellingReserve[id] => UNCHANGED sellingReserve
         /\ payingReserve'[id] = payingReserve[id] => UNCHANGED payingReserve
         /\ vestingReserve'[id] = vestingReserve[id] => UNCHANGED vestingReserve
<1>1. /\ sellingReserve \in [AuctionIds -> Nat]
      /\ sellingReserve' \in [AuctionIds -> Nat]
      /\ payingReserve \in [AuctionIds -> Nat]
      /\ payingReserve' \in [AuctionIds -> Nat]
      /\ vestingReserve \in [AuctionIds -> Nat]
      /\ vestingReserve' \in [AuctionIds -> Nat]
  BY DEF TypeOK, AuctionIds
<1>2. \A j \in AuctionIds \ {id} :
        /\ sellingReserve'[j] = sellingReserve[j]
        /\ payingReserve'[j] = payingReserve[j]
        /\ vestingReserve'[j] = vestingReserve[j]
  BY DEF Same
<1>3. /\ sellingReserve' = [sellingReserve EXCEPT ![id] = sellingReserve'[id]]
      /\ sellingReserve'[id] = sellingReserve[id] => UNCHANGED sellingReserve
  BY <1>1, <1>2
<1>4. /\ payingReserve' = [payingReserve EXCEPT ![id] = payingReserve'[id]]
      /\ payingReserve'[id] = payingReserve[id] => UNCHANGED payingReserve
  BY <1>1, <1>2
<1>5. /\ vestingReserve' = [vestingReserve EXCEPT ![id] = vestingReserve'[id]]
      /\ vestingReserve'[id] = vestingReserve[id] => UNCHANGED vestingReserve
  BY <1>1, <1>2
<1> QED BY <1>3, <1>4, <1>5

\* Creating an auction announces it.
LEMMA CreateEscrow ==
  ASSUME TypeOK, TypeOK', NEW m \in CreateMsgs, CreateAuction(m)
  PROVE  EscrowStep
<1>1. PICK id \in AuctionIds :
        /\ id \notin Ids
        /\ Ids' = Ids \cup {id}
        /\ auctions'[id] = NewAuction(m)
        /\ sellingReserve'[id] = sellingReserve[id] + m.sellingAmt
        /\ payingReserve'[id] = payingReserve[id]
        /\ vestingReserve'[id] = vestingReserve[id]
        /\ \A j \in AuctionIds \ {id} : Same(j)
  BY CreateEffect
<1>2. m.sellingAmt > 0 /\ m.sellingAmt \in Nat
  BY FundraisingAssumption DEF CreateAuction, ValidateBasicCreate, CreateMsg
<1>3. sellingReserve'[id] > 0
  <2>1. sellingReserve[id] \in Nat BY DEF TypeOK
  <2> QED BY <1>1, <1>2, <2>1
<1>4. auctions'[id].status \in {"StandBy", "Started"} BY <1>1 DEF NewAuction
<1>5. Escrow!Moves(id, {"None"}, "Announced") \/ Escrow!Moves(id, {"None"}, "Open")
  BY <1>1, <1>4, StageChange DEF Escrow!Moves, StageOf
<1>6. /\ Escrow!OnlyAt(id, sellingReserve, sellingReserve')
      /\ UNCHANGED <<payingReserve, vestingReserve>>
  BY <1>1, ReserveChange DEF Escrow!OnlyAt
<1>7. Escrow!Announce(id) BY <1>3, <1>5, <1>6 DEF Escrow!Announce
<1> QED BY <1>7 DEF EscrowStep, Escrow!Next

\* An auction is cancelled before it is open.
LEMMA CancelEscrow ==
  ASSUME TypeOK, TypeOK', NEW id \in Ids, NEW u \in Users, CancelAuction(id, u)
  PROVE  EscrowStep
<1>1. /\ ChangesOnly(id) /\ Status(id) = "StandBy"
      /\ auctions'[id] =
           [auctions[id] EXCEPT !.status = "Cancelled", !.remaining = 0]
      /\ sellingReserve'[id] = 0
      /\ payingReserve'[id] = payingReserve[id]
      /\ vestingReserve'[id] = vestingReserve[id]
  BY CancelEffect
<1>2. id \in AuctionIds /\ auctions[id] \in Auction BY AuctionFacts
<1>3. auctions'[id].status = "Cancelled" BY <1>1, <1>2 DEF Auction
<1>4. Ids' = Ids \cup {id} /\ \A j \in AuctionIds \ {id} : Same(j)
  BY <1>1 DEF ChangesOnly
<1>5. Escrow!Moves(id, {"Announced"}, "Closed")
  BY <1>1, <1>2, <1>3, <1>4, StageChange DEF Escrow!Moves, StageOf
<1>6. /\ sellingReserve' = [sellingReserve EXCEPT ![id] = 0]
      /\ UNCHANGED <<payingReserve, vestingReserve>>
  BY <1>1, <1>2, <1>4, ReserveChange
<1>7. Escrow!Cancel(id) BY <1>5, <1>6 DEF Escrow!Cancel
<1> QED BY <1>2, <1>7 DEF EscrowStep, Escrow!Next

\* A step that leaves the status of an auction alone, and takes paying coin for
\* an open auction or none at all.
LEMMA TakeEscrow ==
  ASSUME TypeOK, TypeOK', NEW id \in Ids, ChangesOnly(id), Status(id) = "Started",
         auctions'[id].status = Status(id),
         sellingReserve'[id] = sellingReserve[id],
         vestingReserve'[id] = vestingReserve[id],
         payingReserve'[id] >= payingReserve[id]
  PROVE  EscrowStep
<1>1. id \in AuctionIds BY AuctionFacts
<1>2. Ids' = Ids \cup {id} /\ \A j \in AuctionIds \ {id} : Same(j)
  BY DEF ChangesOnly
<1>3. Stage' = Stage /\ Stage[id] = "Open"
  <2>1. /\ Stage' = [Stage EXCEPT ![id] = StageOf(auctions'[id].status)]
        /\ Stage[id] = StageOf(Status(id))
    BY <1>1, <1>2, StageChange
  <2>2. StageOf("Started") = "Open" BY DEF StageOf
  <2>3. Stage = [j \in AuctionIds |-> Stage[j]] BY DEF Stage
  <2> HIDE DEF Stage
  <2> QED BY <2>1, <2>2, <2>3
<1>4. /\ UNCHANGED <<sellingReserve, vestingReserve>>
      /\ Escrow!OnlyAt(id, payingReserve, payingReserve')
      /\ payingReserve'[id] = payingReserve[id] => UNCHANGED payingReserve
  BY <1>1, <1>2, ReserveChange DEF Escrow!OnlyAt
<1>5. payingReserve[id] \in Nat /\ payingReserve'[id] \in Nat
  BY <1>1 DEF TypeOK
<1>6. CASE payingReserve'[id] = payingReserve[id]
  BY <1>3, <1>4, <1>6 DEF EscrowStep, Escrow!vars
<1>7. CASE payingReserve'[id] > payingReserve[id]
  <2>1. Escrow!Take(id) BY <1>3, <1>4, <1>7 DEF Escrow!Take
  <2> QED BY <1>1, <2>1 DEF EscrowStep, Escrow!Next
<1> QED BY <1>5, <1>6, <1>7

\* PlaceBid takes paying coin for an open auction.
LEMMA PlaceEscrow ==
  ASSUME TypeOK, TypeOK', NEW id \in Ids, NEW bid \in BidMsg,
         \/ PlaceFixedPriceBid(id, bid)
         \/ PlaceBatchWorthBid(id, bid)
         \/ PlaceBatchManyBid(id, bid)
  PROVE  EscrowStep
<1> DEFINE cost == ConvertToPayingAmount(bid, Msg(id).payingDenom)
           sold == ConvertToSellingAmount(bid, Msg(id).payingDenom)
           rest == auctions[id].remaining - sold
<1>1. /\ ChangesOnly(id) /\ Status(id) = "Started"
      /\ bid \in Bid /\ bid.price > 0
      /\ sellingReserve'[id] = sellingReserve[id]
      /\ vestingReserve'[id] = vestingReserve[id]
      /\ payingReserve'[id] \in {payingReserve[id] + cost,
                                 payingReserve[id] + bid.amount}
      /\ auctions'[id] \in {auctions[id], [auctions[id] EXCEPT !.remaining = rest]}
  BY PlaceEffect
<1>2. id \in AuctionIds /\ auctions[id] \in Auction BY AuctionFacts
<1>3. cost \in Nat /\ bid.amount \in Nat BY <1>1, ConvertTypes DEF Bid
<1>4. payingReserve[id] \in Nat BY <1>2 DEF TypeOK
<1> HIDE DEF cost, rest
<1>5. payingReserve'[id] >= payingReserve[id] BY <1>1, <1>3, <1>4
<1>6. auctions'[id].status = Status(id) BY <1>1, <1>2 DEF Auction, Status
<1> QED BY <1>1, <1>5, <1>6, TakeEscrow

\* ModifyBid takes the difference, which may be none.
LEMMA ModifyEscrow ==
  ASSUME TypeOK, TypeOK', NEW id \in Ids, NEW k \in 1..Len(bids[id]),
         NEW u \in Users, NEW price \in Prices, NEW denom \in Denoms,
         NEW amount \in Amounts, ModifyBid(id, k, u, price, denom, amount)
  PROVE  EscrowStep
<1> DEFINE diff == ReserveDifference(bids[id][k], price, amount)
<1>1. /\ ChangesOnly(id) /\ Status(id) = "Started"
      /\ price \in Nat /\ amount \in Nat
      /\ price >= bids[id][k].price /\ amount >= bids[id][k].amount
      /\ auctions'[id] = auctions[id]
      /\ payingReserve'[id] = payingReserve[id] + diff
      /\ sellingReserve'[id] = sellingReserve[id]
      /\ vestingReserve'[id] = vestingReserve[id]
  BY ModifyEffect
<1>2. id \in AuctionIds BY AuctionFacts
<1>3. bids[id][k] \in Bid
  <2>1. bids[id] \in Seq(Bid) BY <1>2 DEF TypeOK
  <2> QED BY <2>1, ElementOfSeq
<1>4. bids[id][k].price \in Nat /\ bids[id][k].amount \in Nat
  BY <1>3 DEF Bid, Decimals
<1>5. diff \in Nat BY <1>1, <1>3, <1>4, DifferenceType
<1>6. payingReserve[id] \in Nat BY <1>2 DEF TypeOK
<1> HIDE DEF diff
<1>7. payingReserve'[id] >= payingReserve[id] BY <1>1, <1>5, <1>6
<1>8. auctions'[id].status = Status(id) BY <1>1 DEF Status
<1> QED BY <1>1, <1>7, <1>8, TakeEscrow

\* ExtendRound is invisible to those who entrusted coins to the auction.
LEMMA ExtendEscrow ==
  ASSUME TypeOK, TypeOK', NEW id \in Ids, ExtendRound(id)
  PROVE  EscrowStep
<1> DEFINE e == Append(auctions[id].endTimes, EndTime(id) + extendedPeriod)
<1>1. /\ ChangesOnly(id) /\ Status(id) = "Started"
      /\ auctions'[id] = [auctions[id] EXCEPT !.endTimes = e]
      /\ UNCHANGED <<sellingReserve, payingReserve, vestingReserve>>
  BY ExtendEffect
<1> HIDE DEF e
<1>2. id \in AuctionIds /\ auctions[id] \in Auction BY AuctionFacts
<1>3. auctions'[id].status = Status(id) BY <1>1, <1>2 DEF Auction, Status
<1>4. payingReserve'[id] >= payingReserve[id]
  <2>1. payingReserve[id] \in Nat BY <1>2 DEF TypeOK
  <2> QED BY <1>1, <2>1
<1> QED BY <1>1, <1>3, <1>4, TakeEscrow

\* ExecuteStandByStatus opens an auction.
LEMMA StandByEscrow ==
  ASSUME TypeOK, TypeOK', NEW id \in Ids, ExecuteStandByStatus(id)
  PROVE  EscrowStep
<1>1. /\ ChangesOnly(id) /\ Status(id) = "StandBy"
      /\ auctions'[id] = [auctions[id] EXCEPT !.status = "Started"]
      /\ UNCHANGED <<sellingReserve, payingReserve, vestingReserve>>
  BY StandByEffect
<1>2. id \in AuctionIds /\ auctions[id] \in Auction BY AuctionFacts
<1>3. auctions'[id].status = "Started" BY <1>1, <1>2 DEF Auction
<1>4. Ids' = Ids \cup {id} /\ \A j \in AuctionIds \ {id} : Same(j)
  BY <1>1 DEF ChangesOnly
<1>5. Escrow!Moves(id, {"Announced"}, "Open")
  BY <1>1, <1>2, <1>3, <1>4, StageChange DEF Escrow!Moves, StageOf
<1>6. Escrow!Open(id) BY <1>1, <1>5 DEF Escrow!Open
<1> QED BY <1>2, <1>6 DEF EscrowStep, Escrow!Next

\* The vesting reserve of an exact auction that takes bids is empty.
LEMMA NothingVested ==
  ASSUME TypeOK, RecordsInv, Exact, NEW id \in Ids, Status(id) = "Started"
  PROVE  vestingReserve[id] = 0
<1>1. id \in AuctionIds BY AuctionFacts
<1>2. vestingQueues[id] = <<>>
  BY <1>1 DEF RecordsInv, RecordsOf, RecordOK, Status
<1>3. Unreleased(<<>>) = 0 BY NoQueues
<1>4. VestingSurplus(id) = 0 /\ vestingReserve[id] \in Nat
  BY <1>1 DEF Exact, TypeOK
<1> QED BY <1>2, <1>3, <1>4 DEF VestingSurplus

\* A settlement pays the auctioneer, or vests no more than the bids paid.
LEMMA CloseEscrow ==
  ASSUME TypeOK, TypeOK', RecordsInv, Exact, NEW id \in Ids,
         CloseFixedPriceAuction(id) \/ CloseBatchAuction(id)
  PROVE  EscrowStep
<1> DEFINE vests == Msg(id).schedules # <<>>
           s == IF vests THEN "Vesting" ELSE "Finished"
<1>1. PICK refund :
        /\ ChangesOnly(id) /\ Status(id) = "Started"
        /\ auctions'[id] = [auctions[id] EXCEPT !.status = s]
        /\ sellingReserve'[id] = 0
        /\ payingReserve'[id] = 0
        /\ vestingReserve'[id] = IF vests
             THEN vestingReserve[id] + Raised(id, refund) ELSE vestingReserve[id]
        /\ Raised(id, refund) \in Nat
        /\ Raised(id, refund) <= payingReserve[id]
  BY CloseEffect
<1>2. id \in AuctionIds /\ auctions[id] \in Auction BY AuctionFacts
<1> HIDE DEF vests
<1>3. auctions'[id].status = s
  <2> HIDE DEF s
  <2> QED BY <1>1, <1>2 DEF Auction
<1>4. Ids' = Ids \cup {id} /\ \A j \in AuctionIds \ {id} : Same(j)
  BY <1>1 DEF ChangesOnly
<1>5. /\ sellingReserve' = [sellingReserve EXCEPT ![id] = 0]
      /\ payingReserve' = [payingReserve EXCEPT ![id] = 0]
      /\ Escrow!OnlyAt(id, vestingReserve, vestingReserve')
      /\ vestingReserve'[id] = vestingReserve[id] => UNCHANGED vestingReserve
  BY <1>1, <1>2, <1>4, ReserveChange DEF Escrow!OnlyAt
<1>6. vestingReserve[id] = 0 BY <1>1, NothingVested
<1>7. CASE vests
  <2>1. Escrow!Moves(id, {"Open"}, "Vesting")
    BY <1>1, <1>2, <1>3, <1>4, <1>7, StageChange DEF Escrow!Moves, StageOf
  <2>2. vestingReserve'[id] <= payingReserve[id]
    BY <1>1, <1>6, <1>7
  <2>3. Escrow!Settle(id) BY <1>5, <2>1, <2>2 DEF Escrow!Settle
  <2> QED BY <1>2, <2>3 DEF EscrowStep, Escrow!Next
<1>8. CASE ~vests
  <2>1. Escrow!Moves(id, {"Open"}, "Closed")
    BY <1>1, <1>2, <1>3, <1>4, <1>8, StageChange DEF Escrow!Moves, StageOf
  <2>2. UNCHANGED vestingReserve BY <1>1, <1>5, <1>8
  <2>3. Escrow!Settle(id) BY <1>5, <2>1, <2>2 DEF Escrow!Settle
  <2> QED BY <1>2, <2>3 DEF EscrowStep, Escrow!Next
<1> QED BY <1>7, <1>8

\* When the last of the queues is released, all of them are.
LEMMA AllReleased ==
  ASSUME NEW queues \in Seq(VestingQueue), InOrder(queues),
         Len(queues) > 0 => queues[Len(queues)].released
  PROVE  Unreleased(queues) = 0
<1> DEFINE n == Len(queues)
           T == {k \in Nat : \A i \in 1..n : n - i <= k => queues[i].released}
           f == [i \in 1..n |-> IF queues[i].released THEN 0 ELSE queues[i].amount]
<1>1. n \in Nat BY LenProperties
<1>2. 0 \in T
  <2> SUFFICES ASSUME NEW i \in 1..n, n - i <= 0 PROVE queues[i].released OBVIOUS
  <2> QED BY <1>1
<1>3. ASSUME NEW k \in Nat, k \in T PROVE k + 1 \in T
  <2> SUFFICES ASSUME NEW i \in 1..n, n - i <= k + 1 PROVE queues[i].released
    OBVIOUS
  <2>1. CASE i = n BY <1>1, <1>3, <2>1
  <2>2. CASE i # n
    <3>1. i + 1 \in 1..n /\ n - (i + 1) <= k /\ i \in 1..(n - 1) BY <1>1, <2>2
    <3>2. queues[i + 1].released BY <1>3, <3>1
    <3> QED BY <3>1, <3>2 DEF InOrder
  <2> QED BY <2>1, <2>2
<1>4. n \in T
  <2> HIDE DEF T
  <2> QED BY <1>1, <1>2, <1>3, InductiveSet
<1>5. \A i \in 1..n : f[i] = 0 BY <1>1, <1>4
<1> HIDE DEF f
<1>6. SumTo(n, f) = 0 BY <1>1, <1>5, SumZero
<1> QED BY <1>6 DEF f, Unreleased

\* ReleaseVestingPayingCoin pays vested coins, and finishes the auction when it
\* has paid them all.
LEMMA ReleaseEscrow ==
  ASSUME TypeOK, TypeOK', VestingInv', Exact', NEW id \in Ids,
         ExecuteVestingStatus(id)
  PROVE  EscrowStep
<1> DEFINE last == ShouldRelease(vestingQueues[id][Len(vestingQueues[id])])
           s == IF last THEN "Finished" ELSE auctions[id].status
<1>1. /\ ChangesOnly(id) /\ Status(id) = "Vesting"
      /\ auctions'[id] = [auctions[id] EXCEPT !.status = s]
      /\ UNCHANGED <<sellingReserve, payingReserve>>
      /\ ReleasedAmount(id) \in 0..vestingReserve[id]
      /\ vestingReserve'[id] = vestingReserve[id] - ReleasedAmount(id)
  BY ReleaseEffect
<1>2. id \in AuctionIds /\ auctions[id] \in Auction BY AuctionFacts
<1> HIDE DEF last
<1>3. auctions'[id].status = s
  <2> HIDE DEF s
  <2> QED BY <1>1, <1>2 DEF Auction
<1>4. Ids' = Ids \cup {id} /\ \A j \in AuctionIds \ {id} : Same(j)
  BY <1>1 DEF ChangesOnly
<1>5. Escrow!OnlyAt(id, vestingReserve, vestingReserve')
  BY <1>2, <1>4, ReserveChange DEF Escrow!OnlyAt
<1>6. vestingReserve'[id] <= vestingReserve[id]
  <2>1. vestingReserve[id] \in Nat BY <1>2 DEF TypeOK
  <2> QED BY <1>1, <2>1
<1>7. CASE last
  <2>1. Escrow!Moves(id, {"Vesting"}, "Closed")
    BY <1>1, <1>2, <1>3, <1>4, <1>7, StageChange DEF Escrow!Moves, StageOf
  <2>2. vestingQueues'[id] \in Seq(VestingQueue) /\ vestingReserve'[id] \in Nat
    BY <1>2 DEF TypeOK
  <2>3. VestingOK(auctions'[id], vestingQueues'[id], blockTime')
    BY <1>4 DEF VestingInv
  <2>4. auctions'[id].status = "Finished" BY <1>3, <1>7
  <2>5. Unreleased(vestingQueues'[id]) = 0
    BY <2>2, <2>3, <2>4, AllReleased DEF VestingOK
  <2>6. VestingSurplus(id)' = 0 BY <1>2 DEF Exact, AuctionIds
  <2>7. vestingReserve'[id] = 0 BY <2>2, <2>5, <2>6 DEF VestingSurplus
  <2>8. Escrow!Release(id)
    BY <1>1, <1>5, <1>6, <2>1, <2>7 DEF Escrow!Release
  <2> QED BY <1>2, <2>8 DEF EscrowStep, Escrow!Next
<1>8. CASE ~last
  <2>1. Escrow!Moves(id, {"Vesting"}, "Vesting")
    BY <1>1, <1>2, <1>3, <1>4, <1>8, StageChange DEF Escrow!Moves, StageOf, Status
  <2>2. Escrow!Release(id) BY <1>1, <1>5, <1>6, <2>1 DEF Escrow!Release
  <2> QED BY <1>2, <2>2 DEF EscrowStep, Escrow!Next
<1> QED BY <1>7, <1>8

\* Every step of the keeper is a step of the escrow, or none.
LEMMA StepsOfEscrow ==
  ASSUME Transfers = {}, TypeOK, RecordsInv, VestingInv, Exact, [Next]_vars
  PROVE  EscrowStep
<1>1. TypeOK' /\ VestingInv' /\ Exact' BY NextType, VestingStep, ExactStep
<1>2. ASSUME Quiet PROVE EscrowStep
  <2>1. Stage' = Stage BY <1>2 DEF Quiet, Stage, Ids, Status
  <2>2. UNCHANGED <<sellingReserve, payingReserve, vestingReserve>>
    BY <1>2 DEF Quiet, reserves
  <2> QED BY <2>1, <2>2 DEF EscrowStep, Escrow!vars
<1>3. ASSUME NEW m \in CreateMsgs,
             CreateFixedPriceAuction(m) \/ CreateBatchAuction(m)
      PROVE  EscrowStep
  BY <1>1, <1>3, CreateEscrow DEF CreateFixedPriceAuction, CreateBatchAuction
<1>4. \A amount \in Transfers : FALSE OBVIOUS
<1> QED
  BY <1>1, <1>2, <1>3, <1>4, StepCases, CancelEscrow, PlaceEscrow, ModifyEscrow,
     StandByEscrow, CloseEscrow, ExtendEscrow, ReleaseEscrow, Zenon

\* No auction is the initial state of the escrow.
LEMMA EscrowInit == Init => Escrow!Init
<1> SUFFICES ASSUME Init PROVE Escrow!Init OBVIOUS
<1>1. Ids = {} BY EmptySeq DEF Init, Ids
<1>2. Stage = [id \in AuctionIds |-> "None"] BY <1>1 DEF Stage
<1> QED BY <1>2 DEF Init, Escrow!Init

\* When nobody sends coins to the reserve accounts, no handler and no
\* BeginBlocker moves the coins of an auction other than the escrow allows: they
\* are taken before the end, paid out by one settlement or cancellation and by
\* vesting, and a finished or cancelled auction holds none.
THEOREM KeeperIsEscrow ==
  ASSUME Transfers = {}
  PROVE  Spec => ImplementsEscrow
<1>1. TypeOK /\ RecordsInv /\ VestingInv /\ Exact /\ [Next]_vars =>
        [Escrow!Next]_Escrow!vars
  BY StepsOfEscrow DEF EscrowStep
<1> QED
  BY <1>1, EscrowInit, TypeCorrect, RecordsSound, VestingSound, ExactSound, PTL
     DEF Spec, ImplementsEscrow, Escrow!Spec
=============================================================================
