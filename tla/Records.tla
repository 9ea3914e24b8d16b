------------------------------ MODULE Records ------------------------------
(***************************************************************************)
(* What the keeper takes its store for: auctions and bids numbered from 1, *)
(* a maximum bid amount for every auction and bidder, and the vesting      *)
(* queues of every auction in the order of their release times.  There are *)
(* no keys here, and no way to confuse the records of two auctions or two  *)
(* bidders.  An operation is a function from records to records.           *)
(***************************************************************************)
EXTENDS Integers, Sequences, FiniteSets

CONSTANTS
  Addresses,      \* bidders
  Times,          \* release times
  MaxBidAmounts,  \* maximum bid amounts
  MaxAuctions,    \* bound: number of auctions
  MaxBids         \* bound: number of bids of an auction

VARIABLE
  records  \* auctions[id], allowed[id][bidder] (0 when there is none),
           \* bids[id][k], matchedBidsLen[id] and queues[id], by release time

AuctionIds == 1..MaxAuctions

NoRecords ==
  [auctions |-> <<>>,
   allowed |-> [id \in AuctionIds |-> [a \in Addresses |-> 0]],
   bids |-> [id \in AuctionIds |-> <<>>],
   matchedBidsLen |-> [id \in AuctionIds |-> 0],
   queues |-> [id \in AuctionIds |-> <<>>]]

CreateAuction(r, type, status) ==
  [r EXCEPT !.auctions =
     Append(@, [id |-> Len(@) + 1, type |-> type, status |-> status])]

SetStatus(r, id, status) == [r EXCEPT !.auctions[id].status = status]

AllowBidder(r, id, a, max) == [r EXCEPT !.allowed[id][a] = max]

PlaceBid(r, id, a) ==
  [r EXCEPT !.bids[id] =
     Append(@, [auctionId |-> id, id |-> Len(@) + 1, bidder |-> a,
                isMatched |-> r.auctions[id].type = "FixedPrice"])]

MatchBids(r, id, ks) ==
  LET marked == [r EXCEPT !.bids[id] =
                   [k \in DOMAIN @ |->
                      IF k \in ks THEN [@[k] EXCEPT !.isMatched = TRUE] ELSE @[k]]]
  IN  [marked EXCEPT !.matchedBidsLen[id] = Cardinality(ks)]

\* A queue for each of the times ts, the earliest first.
Vest(r, id, ts) ==
  LET nth(i) == CHOOSE t \in ts : Cardinality({u \in ts : u < t}) = i - 1
  IN  [SetStatus(r, id, "Vesting") EXCEPT !.queues[id] =
         [i \in 1..Cardinality(ts) |->
            [auctionId |-> id, releaseTime |-> nth(i), released |-> FALSE]]]

\* The i-th queue is released; the last one ends the auction.
Release(r, id, i) ==
  LET released == [r EXCEPT !.queues[id][i].released = TRUE]
  IN  IF i = Len(r.queues[id]) THEN SetStatus(released, id, "Finished") ELSE released

\* The chain is started again from its exported records, which do not have the
\* numbers of matched bids.
Restart(r) == [r EXCEPT !.matchedBidsLen = [id \in AuctionIds |-> 0]]

\* One operation makes s of the records r.
Operation(r, s) ==
  \/ \E type \in {"FixedPrice", "Batch"}, status \in {"StandBy", "Started"} :
       s = CreateAuction(r, type, status)
  \/ s = Restart(r)
  \/ \E id \in 1..Len(r.auctions) :
       \/ \E status \in {"Started", "Finished", "Cancelled"} :
            s = SetStatus(r, id, status)
       \/ \E a \in Addresses, max \in MaxBidAmounts :
            s = AllowBidder(r, id, a, max)
       \/ \E a \in Addresses : s = PlaceBid(r, id, a)
       \/ \E ks \in SUBSET (1..Len(r.bids[id])) : s = MatchBids(r, id, ks)
       \/ \E ts \in SUBSET Times : s = Vest(r, id, ts)
       \/ \E i \in 1..Len(r.queues[id]) : s = Release(r, id, i)

Init == records = NoRecords

\* A query changes nothing.
Next == \E r \in {records}, s \in {records'} : s = r \/ Operation(r, s)

Spec == Init /\ [][Next]_records
=============================================================================
