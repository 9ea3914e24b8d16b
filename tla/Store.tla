------------------------------- MODULE Store -------------------------------
(***************************************************************************)
(* The key-value store under the keeper (types/keys.go, keeper/store.go).  *)
(* A key is a sequence of bytes: a prefix byte, ids as big-endian numbers  *)
(* of fixed length, addresses with their length in front, and times in a   *)
(* format of fixed length.  The store yields the keys with a given prefix  *)
(* in the order of their bytes: the order of the auctions, of the bids of  *)
(* an auction and of its vesting queues comes from the keys alone.  The    *)
(* bids also have an index by bidder, whose keys are all that it stores.   *)
(* Values are records here; their encoding is in ProtoWire.                *)
(*                                                                         *)
(* The actions are the handlers as the store sees them: which keys they    *)
(* write, and the conditions on records that decide it; and a restart from *)
(* the exported lists of records.                                          *)
(***************************************************************************)
EXTENDS Integers, SequencesExt

CONSTANTS
  Radix,          \* the number of values of a byte of an id: 256
  IdBytes,        \* the bytes of an id: 8
  Addresses,      \* addresses, as sequences of bytes
  Times,          \* release times
  DayLength,      \* the number of times of a day
  MaxBidAmounts,  \* maximum bid amounts
  MaxAuctions,    \* bound: number of auctions
  MaxBids,        \* bound: number of bids of an auction
  MaxKeys         \* bound: number of keys

\* Radix to the power of k, up to the number of the ids.
Power[k \in 0..IdBytes] == IF k = 0 THEN 1 ELSE Radix * Power[k - 1]

\* The ids, of type uint64.
Uint64 == 0..(Power[IdBytes] - 1)

ASSUME StoreAssumption ==
  /\ Radix \in 2..256
  /\ IdBytes \in Nat \ {0}
  /\ \A n \in {MaxAuctions, MaxBids} \cup Times : n \in Uint64
  /\ DayLength \in Uint64 \ {0}
  /\ MaxKeys \in Nat
  /\ \A a \in Addresses : a \in Seq(0..255) /\ Len(a) \in 1..255

VARIABLE kv  \* the store, a function from its keys

-----------------------------------------------------------------------------
(***************************************************************************)
(* Keys.                                                                   *)
(***************************************************************************)

\* Mutant: the least significant byte comes first.
LittleEndian(n) == [i \in 1..IdBytes |-> (n \div Power[i - 1]) % Radix]

BigEndian(n) == [i \in 1..IdBytes |-> (n \div Power[IdBytes - i]) % Radix]

BigEndianToUint64(bytes) ==
  LET sum[i \in 0..IdBytes] ==
        IF i = 0 THEN 0
        ELSE sum[i - 1] * Radix + IF i > Len(bytes) THEN 0 ELSE bytes[i]
  IN  sum[IdBytes]

\* sdk.FormatTimeBytes: the date and then the time of day, each with a fixed number
\* of digits of which the first is the most significant.
FormatTimeBytes(t) == BigEndian(t \div DayLength) \o BigEndian(t % DayLength)

\* Mutant: the address is not delimited.
Undelimited(a) == a

LengthPrefix(a) == <<Len(a)>> \o a

LastAuctionIdKey == <<\h11>>
LastBidIdKeyPrefix == <<\h12>>
AuctionKeyPrefix == <<\h21>>
AllowedBidderKeyPrefix == <<\h22>>
BidKeyPrefix == <<\h31>>
BidIndexKeyPrefix == <<\h32>>
MatchedBidsLenPrefix == <<\h33>>
VestingQueueKeyPrefix == <<\h41>>

GetLastBidIdKey(id) == LastBidIdKeyPrefix \o BigEndian(id)
GetAuctionKey(id) == AuctionKeyPrefix \o BigEndian(id)
GetAllowedBiddersByAuctionKeyPrefix(id) ==
  AllowedBidderKeyPrefix \o BigEndian(id)
GetAllowedBidderKey(id, a) ==
  GetAllowedBiddersByAuctionKeyPrefix(id) \o LengthPrefix(a)
GetBidByAuctionIdPrefix(id) == BidKeyPrefix \o BigEndian(id)
GetBidKey(id, k) == GetBidByAuctionIdPrefix(id) \o BigEndian(k)
GetBidIndexByBidderPrefix(a) == BidIndexKeyPrefix \o LengthPrefix(a)
GetBidIndexKey(a, id, k) ==
  GetBidIndexByBidderPrefix(a) \o BigEndian(id) \o BigEndian(k)
GetLastMatchedBidsLenKey(id) == MatchedBidsLenPrefix \o BigEndian(id)
GetVestingQueueByAuctionIdPrefix(id) == VestingQueueKeyPrefix \o BigEndian(id)
GetVestingQueueKey(id, t) ==
  GetVestingQueueByAuctionIdPrefix(id) \o FormatTimeBytes(t)

\* The bytes of key from its n-th on, counting from 0.
From(key, n) == SubSeq(key, n + 1, Len(key))

\* Mutant: the byte with the length of the address is not counted.
ParseFromAddress(key) ==
  LET at == (1 + key[2]) % 256
  IN  <<BigEndianToUint64(From(key, at)),
        BigEndianToUint64(From(key, (at + IdBytes) % 256))>>

\* The offsets are computed as bytes, and wrap around for addresses of more than
\* 245 bytes.
ParseBidIndexKey(key) ==
  LET at == (2 + key[2]) % 256
  IN  <<BigEndianToUint64(From(key, at)),
        BigEndianToUint64(From(key, (at + IdBytes) % 256))>>

SplitAuctionIdBidIdKey(key) ==
  <<BigEndianToUint64(key), BigEndianToUint64(From(key, IdBytes))>>

-----------------------------------------------------------------------------
(***************************************************************************)
(* Reading.                                                                *)
(***************************************************************************)
Has(key) == key \in DOMAIN kv

Before(k1, k2) ==
  \/ IsPrefix(k1, k2)
  \/ \E i \in 1..Len(k1) :
       /\ i <= Len(k2)
       /\ k1[i] < k2[i]
       /\ \A j \in 1..(i - 1) : k1[j] = k2[j]

Found(prefix) == {key \in DOMAIN kv : IsPrefix(prefix, key)}

\* The keys S in their order: the i-th one has i of them up to itself.
InOrder(S) ==
  [i \in 1..Cardinality(S) |->
     CHOOSE key \in S : Cardinality({k \in S : Before(k, key)}) = i]

KVStorePrefixIterator(prefix) == InOrder(Found(prefix))

Iterate(prefix) ==
  LET keys == KVStorePrefixIterator(prefix)
  IN  [i \in 1..Len(keys) |-> kv[keys[i]]]

Number(key) == IF Has(key) THEN kv[key] ELSE 0

GetLastAuctionId == Number(LastAuctionIdKey)
GetLastBidId(id) == Number(GetLastBidIdKey(id))
GetLastMatchedBidsLen(id) == Number(GetLastMatchedBidsLenKey(id))

GetAuction(id) == kv[GetAuctionKey(id)]
GetAuctions == Iterate(AuctionKeyPrefix)

GetAllowedBiddersByAuction(id) ==
  Iterate(GetAllowedBiddersByAuctionKeyPrefix(id))

NoBid == [auctionId |-> 0, id |-> 0, bidder |-> <<>>, isMatched |-> FALSE]

GetBid(id, k) == IF Has(GetBidKey(id, k)) THEN kv[GetBidKey(id, k)] ELSE NoBid
GetBids == Iterate(BidKeyPrefix)
GetBidsByAuctionId(id) == Iterate(GetBidByAuctionIdPrefix(id))
GetBidsByBidder(a) ==
  LET keys == KVStorePrefixIterator(GetBidIndexByBidderPrefix(a))
  IN  [i \in 1..Len(keys) |->
         LET ids == ParseBidIndexKey(keys[i]) IN GetBid(ids[1], ids[2])]

GetVestingQueues == Iterate(VestingQueueKeyPrefix)
GetVestingQueuesByAuctionId(id) == Iterate(GetVestingQueueByAuctionIdPrefix(id))

-----------------------------------------------------------------------------
(***************************************************************************)
(* Writing.                                                                *)
(***************************************************************************)
Set(map, key, value) ==
  [k \in {key} \cup DOMAIN map |-> IF k = key THEN value ELSE map[k]]

SetAuction(map, auction) == Set(map, GetAuctionKey(auction.id), auction)
SetAllowedBidder(map, id, a, max) ==
  Set(map, GetAllowedBidderKey(id, a), [bidder |-> a, maxBidAmount |-> max])

\* The bid and its index entry, also when the bid is there already.
SetBid(map, bid) ==
  Set(Set(map, GetBidKey(bid.auctionId, bid.id), bid),
      GetBidIndexKey(bid.bidder, bid.auctionId, bid.id), <<>>)

\* SetBid for each of the bids bs.
SetBids(map, bs) ==
  LET keysOf(bid) == {GetBidKey(bid.auctionId, bid.id),
                      GetBidIndexKey(bid.bidder, bid.auctionId, bid.id)}
  IN  [key \in DOMAIN map \cup UNION {keysOf(bid) : bid \in bs} |->
         IF \E bid \in bs : key \in keysOf(bid)
           THEN SetBid(map, CHOOSE bid \in bs : key \in keysOf(bid))[key]
           ELSE map[key]]

SetVestingQueue(map, queue) ==
  Set(map, GetVestingQueueKey(queue.auctionId, queue.releaseTime), queue)

\* SetVestingQueue for a new queue of each of the times ts.
SetVestingQueues(map, id, ts) ==
  [key \in {GetVestingQueueKey(id, t) : t \in ts} \cup DOMAIN map |->
     IF \E t \in ts : key = GetVestingQueueKey(id, t)
       THEN [auctionId |-> id, released |-> FALSE,
             releaseTime |-> CHOOSE t \in ts : key = GetVestingQueueKey(id, t)]
       ELSE map[key]]

Init == kv = [key \in {} |-> <<>>]

Ids == 1..GetLastAuctionId

CreateAuction(type, status) ==
  LET id == GetLastAuctionId + 1
  IN  /\ id <= MaxAuctions
      /\ kv' = SetAuction(Set(kv, LastAuctionIdKey, id),
                          [id |-> id, type |-> type, status |-> status])

\* The transitions that write nothing but the auction.
SetStatus(id, status) ==
  /\ <<GetAuction(id).status, status>> \in
       {<<"StandBy", "Started">>, <<"StandBy", "Cancelled">>,
        <<"Started", "Finished">>}
  /\ kv' = SetAuction(kv, [GetAuction(id) EXCEPT !.status = status])

AllowBidder(id, a, max) == kv' = SetAllowedBidder(kv, id, a, max)

\* The bid for a fixed price auction is matched at once.  (The auction is written
\* again, too, with another remaining amount, which is not among its fields here.)
PlaceBid(id, a) ==
  LET k == GetLastBidId(id) + 1
  IN  /\ GetAuction(id).status = "Started"
      /\ Has(GetAllowedBidderKey(id, a))
      /\ k <= MaxBids
      /\ kv' = SetBid(Set(kv, GetLastBidIdKey(id), k),
                      [auctionId |-> id, id |-> k, bidder |-> a,
                       isMatched |-> GetAuction(id).type = "FixedPrice"])

\* CalculateBatchAllocation: the matched bids are marked, and counted.
MatchBids(id, ks) ==
  LET matched == {bid \in ToSet(GetBidsByAuctionId(id)) : bid.id \in ks}
      marked == {[bid EXCEPT !.isMatched = TRUE] : bid \in matched}
  IN  /\ GetAuction(id).type = "Batch"
      /\ GetAuction(id).status = "Started"
      /\ kv' = Set(SetBids(kv, marked), GetLastMatchedBidsLenKey(id),
                   Cardinality(ks))

\* ApplyVestingSchedules: a queue for every release time.
Vest(id, ts) ==
  /\ GetAuction(id).status = "Started"
  /\ ts # {}
  /\ kv' = SetAuction(SetVestingQueues(kv, id, ts),
                      [GetAuction(id) EXCEPT !.status = "Vesting"])

\* ReleaseVestingPayingCoin: the queue is written under its old key, and the last
\* one of the iteration ends the auction.
Release(id, i) ==
  LET queues == GetVestingQueuesByAuctionId(id)
      status == IF i = Len(queues) THEN "Finished" ELSE GetAuction(id).status
  IN  /\ GetAuction(id).status = "Vesting"
      /\ ~queues[i].released
      /\ \A j \in 1..(i - 1) : queues[j].released
      /\ kv' = SetAuction(SetVestingQueue(kv, [queues[i] EXCEPT !.released = TRUE]),
                          [GetAuction(id) EXCEPT !.status = status])

Write ==
  /\ \/ \E type \in {"FixedPrice", "Batch"}, status \in {"StandBy", "Started"} :
          CreateAuction(type, status)
     \/ \E id \in Ids :
          \/ \E status \in {"Started", "Finished", "Cancelled"} :
               SetStatus(id, status)
          \/ \E a \in Addresses, max \in MaxBidAmounts : AllowBidder(id, a, max)
          \/ \E a \in Addresses : PlaceBid(id, a)
          \/ \E ks \in SUBSET (1..GetLastBidId(id)) : MatchBids(id, ks)
          \/ \E ts \in SUBSET Times : Vest(id, ts)
          \/ \E i \in 1..Len(GetVestingQueuesByAuctionId(id)) : Release(id, i)
  /\ Cardinality(DOMAIN kv') <= MaxKeys

\* The lists of ExportGenesis.  MatchedBidsLen and the last ids are not exported.
ExportGenesis ==
  [auctions |-> GetAuctions,
   allowedBidderRecords |->
     UNION {{[auctionId |-> auction.id, allowedBidder |-> entry] :
               entry \in ToSet(GetAllowedBiddersByAuction(auction.id))} :
            auction \in ToSet(GetAuctions)},
   bids |-> GetBids,
   vestingQueues |-> GetVestingQueues]

CountBids(bids, id) == Cardinality({i \in 1..Len(bids) : bids[i].auctionId = id})

\* Mutant: every bid is stored, but not counted.
UncountedBid(gs, bid) ==
  {<<GetBidKey(bid.auctionId, bid.id), bid>>,
   <<GetBidIndexKey(bid.bidder, bid.auctionId, bid.id), <<>>>>}

\* A bid of the list is stored under its own id, and one more is counted.
ImportedBid(gs, bid) ==
  {<<GetLastBidIdKey(bid.auctionId), CountBids(gs.bids, bid.auctionId)>>,
   <<GetBidKey(bid.auctionId, bid.id), bid>>,
   <<GetBidIndexKey(bid.bidder, bid.auctionId, bid.id), <<>>>>}

\* The keys that InitGenesis writes, and what they hold in the end.
Imported(gs) ==
  {<<LastAuctionIdKey, Len(gs.auctions)>> : auction \in ToSet(gs.auctions)}
  \cup {<<GetAuctionKey(auction.id), auction>> : auction \in ToSet(gs.auctions)}
  \cup {<<GetAllowedBidderKey(r.auctionId, r.allowedBidder.bidder),
          r.allowedBidder>> : r \in gs.allowedBidderRecords}
  \cup (UNION {ImportedBid(gs, bid) : bid \in ToSet(gs.bids)})
  \cup {<<GetVestingQueueKey(queue.auctionId, queue.releaseTime), queue>> :
          queue \in ToSet(gs.vestingQueues)}

\* InitGenesis fills an empty store.
InitGenesis(gs) ==
  LET entries == Imported(gs)
  IN  kv' = [key \in {entry[1] : entry \in entries} |->
               (CHOOSE entry \in entries : entry[1] = key)[2]]

\* The chain is stopped, exported, and started again.  (What GenesisState.Validate
\* compares is not among the fields here: Genesis has it.)
Restart == InitGenesis(ExportGenesis)

Next == Write \/ Restart

Spec == Init /\ [][Next]_kv

-----------------------------------------------------------------------------
(***************************************************************************)
(* The store implements the records.                                       *)
(***************************************************************************)
AuctionIds == 1..MaxAuctions

MaxBidAmountOf(id, a) ==
  IF Has(GetAllowedBidderKey(id, a))
    THEN kv[GetAllowedBidderKey(id, a)].maxBidAmount ELSE 0

R == INSTANCE Records
       WITH records <-
         [auctions |-> GetAuctions,
          allowed |-> [id \in AuctionIds |->
                         [a \in Addresses |-> MaxBidAmountOf(id, a)]],
          bids |-> [id \in AuctionIds |-> GetBidsByAuctionId(id)],
          matchedBidsLen |-> [id \in AuctionIds |-> GetLastMatchedBidsLen(id)],
          queues |-> [id \in AuctionIds |-> GetVestingQueuesByAuctionId(id)]]

\* Read through its iterators, the store behaves like the records: what one
\* handler writes changes nothing that belongs to another auction or bidder,
\* auctions, bids and queues come in the order of their ids and times, and after a
\* restart no id is given out for the second time.
ImplementsRecords == R!Spec

\* Bids, or queues, by auction and then by id or release time.
BidsInOrder(bids) ==
  \A i, j \in 1..Len(bids) :
    i < j => \/ bids[i].auctionId < bids[j].auctionId
             \/ bids[i].auctionId = bids[j].auctionId /\ bids[i].id < bids[j].id

QueuesInOrder(queues) ==
  \A i, j \in 1..Len(queues) :
    i < j => \/ queues[i].auctionId < queues[j].auctionId
             \/ /\ queues[i].auctionId = queues[j].auctionId
                /\ queues[i].releaseTime < queues[j].releaseTime

\* The iterations by other prefixes show the same records: all bids (and all queues)
\* are those of the auctions, in turn and without repetition, the list of allowed
\* bidders has those that a lookup finds, and the index of a bidder has exactly
\* their bids, in the same order, if the keeper can parse its keys.
IterationsAgree ==
  /\ ToSet(GetBids) = UNION {ToSet(GetBidsByAuctionId(id)) : id \in AuctionIds}
  /\ BidsInOrder(GetBids)
  /\ ToSet(GetVestingQueues) =
       UNION {ToSet(GetVestingQueuesByAuctionId(id)) : id \in AuctionIds}
  /\ QueuesInOrder(GetVestingQueues)
  /\ \A id \in AuctionIds :
       ToSet(GetAllowedBiddersByAuction(id)) =
         {[bidder |-> a, maxBidAmount |-> MaxBidAmountOf(id, a)] :
            a \in {b \in Addresses : Has(GetAllowedBidderKey(id, b))}}
  /\ \A a \in Addresses :
       Len(a) + 2 + IdBytes < 256 =>
         /\ ToSet(GetBidsByBidder(a)) = {bid \in ToSet(GetBids) : bid.bidder = a}
         /\ BidsInOrder(GetBidsByBidder(a))

\* All keys that the functions of types/keys.go can make, and so all that are ever
\* written.
Keys ==
  {LastAuctionIdKey}
  \cup {GetLastBidIdKey(id) : id \in Uint64}
  \cup {GetAuctionKey(id) : id \in Uint64}
  \cup {GetAllowedBidderKey(id, a) : id \in Uint64, a \in Addresses}
  \cup {GetBidKey(id, k) : id, k \in Uint64}
  \cup {GetBidIndexKey(a, id, k) : a \in Addresses, id \in Uint64, k \in Uint64}
  \cup {GetLastMatchedBidsLenKey(id) : id \in Uint64}
  \cup {GetVestingQueueKey(id, t) : id \in Uint64, t \in Uint64}

\* An iteration by the id of an auction, or by a bidder, finds the records of that
\* auction or bidder and no other ones, and those by kind the records of a kind:
\* no key is the start of one of another kind, auction or bidder.
PrefixesAreExact ==
  LET finds(prefix, keys) == Found(prefix) = keys \cap DOMAIN kv
  IN  /\ DOMAIN kv \subseteq Keys
      /\ finds(AuctionKeyPrefix, {GetAuctionKey(id) : id \in Uint64})
      /\ finds(BidKeyPrefix, {GetBidKey(id, k) : id, k \in Uint64})
      /\ finds(VestingQueueKeyPrefix,
               {GetVestingQueueKey(id, t) : id, t \in Uint64})
      /\ \A id \in Uint64 :
           /\ finds(GetAllowedBiddersByAuctionKeyPrefix(id),
                    {GetAllowedBidderKey(id, a) : a \in Addresses})
           /\ finds(GetBidByAuctionIdPrefix(id), {GetBidKey(id, k) : k \in Uint64})
           /\ finds(GetVestingQueueByAuctionIdPrefix(id),
                    {GetVestingQueueKey(id, t) : t \in Uint64})
      /\ \A a \in Addresses :
           finds(GetBidIndexByBidderPrefix(a),
                 {GetBidIndexKey(a, id, k) : id, k \in Uint64})

\* Every bid has an entry in the index, and every entry, which has no value, gives
\* back the bid it stands for: to the query for all addresses, to the keeper for
\* those of which the offset of the last id fits in a byte (with ids of 8 bytes,
\* addresses of up to 245).
IndexIsExact ==
  /\ \A id, k \in Uint64 :
       Has(GetBidKey(id, k)) => Has(GetBidIndexKey(GetBid(id, k).bidder, id, k))
  /\ \A a \in Addresses, id \in Uint64, k \in Uint64 :
       LET key == GetBidIndexKey(a, id, k)
       IN  Has(key) =>
             /\ Has(GetBidKey(id, k))
             /\ GetBid(id, k).bidder = a
             /\ Len(a) + 2 + IdBytes < 256 => ParseBidIndexKey(key) = <<id, k>>
             /\ SplitAuctionIdBidIdKey(
                  From(key, Len(GetBidIndexByBidderPrefix(a)))) = <<id, k>>
=============================================================================
