--------------------------- MODULE QueriesProofs ---------------------------
(***************************************************************************)
(* Proofs about the paginated queries of Queries, for any number of        *)
(* auctions, bids, addresses and bytes of an id, and for pages of any      *)
(* size.                                                                   *)
(***************************************************************************)
EXTENDS Queries, StoreProofs

-----------------------------------------------------------------------------
(***************************************************************************)
(* What a query iterates, and what it is asked for.                        *)
(***************************************************************************)

\* The key of the iteration of req that stands for the record rec.
StandsFor(req, key, rec) ==
  IF ByBidder(req)
    THEN \E id, k \in Uint64 :
           key = GetBidIndexKey(req.bidder, id, k) /\ rec = GetBidKey(id, k)
    ELSE key = rec

RequestKinds(req) ==
  \/ /\ req.query = "Auctions" /\ ~ByBidder(req)
     /\ Prefix(req) = AuctionKeyPrefix
  \/ /\ req.query = "AllowedBidders" /\ ~ByBidder(req)
     /\ req.auctionId \in AuctionIds
     /\ Prefix(req) = GetAllowedBiddersByAuctionKeyPrefix(req.auctionId)
  \/ /\ req.query = "Bids" /\ ~ByBidder(req) /\ req.bidder = <<>>
     /\ req.auctionId \in AuctionIds /\ Prefix(req) = BidKeyPrefix
  \/ /\ req.query = "Bids" /\ ByBidder(req) /\ req.bidder \in Addresses
     /\ req.auctionId \in AuctionIds
     /\ Prefix(req) = GetBidIndexByBidderPrefix(req.bidder)

LEMMA RequestIs ==
  ASSUME NEW req \in Request
  PROVE  RequestKinds(req)
<1>1. CASE req \in [query : {"Auctions"}, type : {"", "FixedPrice", "Batch"},
                    status : {"", "StandBy", "Started", "Vesting", "Finished",
                              "Cancelled"}]
  <2>1. req.query = "Auctions" BY <1>1
  <2> QED BY <2>1 DEF RequestKinds, ByBidder, Prefix
<1>2. CASE req \in [query : {"AllowedBidders"}, auctionId : 1..MaxAuctions]
  <2>1. req.query = "AllowedBidders" /\ req.auctionId \in AuctionIds
    BY <1>2 DEF AuctionIds
  <2> QED BY <2>1 DEF RequestKinds, ByBidder, Prefix
<1>3. CASE req \in [query : {"Bids"}, auctionId : 1..MaxAuctions,
                    bidder : Addresses \cup {<<>>},
                    isMatched : {"", "true", "false", "malformed"}]
  <2>1. /\ req.query = "Bids" /\ req.auctionId \in AuctionIds
        /\ req.bidder \in Addresses \cup {<<>>}
    BY <1>3 DEF AuctionIds
  <2> QED BY <2>1 DEF RequestKinds, ByBidder, Prefix
<1> QED BY <1>1, <1>2, <1>3 DEF Request

\* A key stands for one record, and one key stands for a record.
LEMMA StandsForOne ==
  ASSUME NEW req \in Request, NEW k, NEW l, NEW r, NEW s,
         StandsFor(req, k, r), StandsFor(req, l, s)
  PROVE  k = l <=> r = s
<1>1. CASE ~ByBidder(req) BY <1>1 DEF StandsFor
<1>2. CASE ByBidder(req)
  <2>1. req.bidder \in Addresses BY <1>2, RequestIs DEF RequestKinds
  <2>2. PICK id \in Uint64, n \in Uint64 :
          k = GetBidIndexKey(req.bidder, id, n) /\ r = GetBidKey(id, n)
    BY <1>2 DEF StandsFor
  <2>3. PICK j \in Uint64, m \in Uint64 :
          l = GetBidIndexKey(req.bidder, j, m) /\ s = GetBidKey(j, m)
    BY <1>2 DEF StandsFor
  <2>4. k = l <=> id = j /\ n = m BY <2>1, <2>2, <2>3, KeysDiffer
  <2>5. r = s <=> id = j /\ n = m BY <2>2, <2>3, KeysDiffer
  <2> QED BY <2>4, <2>5
<1> QED BY <1>1, <1>2

LEMMA BidsInUse ==
  ASSUME EntriesInv, NEW id \in Uint64, NEW k \in Uint64, Has(GetBidKey(id, k))
  PROVE  /\ id \in AuctionIds /\ k \in 1..GetLastBidId(id) /\ k \in 1..MaxBids
         /\ kv[GetBidKey(id, k)] \in BidOf(id, k)
         /\ kv[GetBidKey(id, k)].auctionId = id /\ kv[GetBidKey(id, k)].id = k
<1>1. k \in 1..GetLastBidId(id) /\ kv[GetBidKey(id, k)] \in BidOf(id, k)
  BY DEF EntriesInv, StoreInv, BidsOk
<1>2. GetLastBidId(id) # 0 BY <1>1
<1>3. id \in AuctionIds BY <1>2, IdsInUse DEF EntriesInv, OwnersOk, StoreInv
<1>4. GetLastBidId(id) \in 0..MaxBids BY DEF EntriesInv, StoreInv, NumbersOk
<1>5. MaxBids \in Nat BY IdsInUse, StoreAssumption DEF EntriesInv, StoreInv
<1>6. k \in 1..MaxBids BY <1>1, <1>4, <1>5
<1> QED BY <1>1, <1>3, <1>6 DEF BidOf

LEMMA IndexedBidIs ==
  ASSUME EntriesInv, NEW req \in Request, ByBidder(req),
         NEW id \in Uint64, NEW k \in Uint64,
         Has(GetBidIndexKey(req.bidder, id, k))
  PROVE  LET key == GetBidIndexKey(req.bidder, id, k)
         IN  /\ Has(GetBidKey(id, k))
             /\ IndexedBid(req, key) = kv[GetBidKey(id, k)]
             /\ kv[GetBidKey(id, k)].bidder = req.bidder
             /\ RecordOf(req, key) = GetBidKey(id, k)
<1> DEFINE key == GetBidIndexKey(req.bidder, id, k)
<1>1. /\ req.bidder \in Addresses
      /\ Prefix(req) = GetBidIndexByBidderPrefix(req.bidder)
  BY RequestIs DEF RequestKinds
<1>2. IndexIsExact BY StoreInvIndex DEF EntriesInv
<1>3. /\ Has(GetBidKey(id, k)) /\ GetBid(id, k).bidder = req.bidder
      /\ SplitAuctionIdBidIdKey(
           From(key, Len(GetBidIndexByBidderPrefix(req.bidder)))) = <<id, k>>
  BY <1>1, <1>2 DEF IndexIsExact
<1>4. IndexedBid(req, key) = GetBid(id, k) BY <1>1, <1>3 DEF IndexedBid
<1>5. GetBid(id, k) = kv[GetBidKey(id, k)] BY <1>3 DEF GetBid
<1>6. kv[GetBidKey(id, k)].auctionId = id /\ kv[GetBidKey(id, k)].id = k
  BY <1>3, BidsInUse
<1>7. RecordOf(req, key) = GetBidKey(id, k) BY <1>4, <1>5, <1>6 DEF RecordOf
<1> QED BY <1>3, <1>4, <1>5, <1>7

\* The hits of a query stand for the records it is asked for.
LEMMA HitsAreAsked ==
  ASSUME EntriesInv, NEW req \in Request
  PROVE  /\ \A key \in Found(Prefix(req)) :
              /\ StandsFor(req, key, RecordOf(req, key))
              /\ IsHit(req, key) <=> RecordOf(req, key) \in Asked(req)
         /\ \A rec \in Asked(req) :
              \E key \in Found(Prefix(req)) : StandsFor(req, key, rec)
<1> DEFINE S == Found(Prefix(req))
           Ok(key) == /\ StandsFor(req, key, RecordOf(req, key))
                      /\ IsHit(req, key) <=> RecordOf(req, key) \in Asked(req)
<1>1. StoreInv /\ AuctionIds \subseteq Uint64 /\ 1..MaxBids \subseteq Uint64
  BY IdsInUse DEF EntriesInv, StoreInv
<1>2. CASE req.query = "Auctions"
  <2>1. ~ByBidder(req) /\ Prefix(req) = AuctionKeyPrefix
    BY <1>2, RequestIs DEF RequestKinds
  <2>2. ASSUME NEW key PROVE RecordOf(req, key) = key /\ StandsFor(req, key, key)
    BY <2>1 DEF RecordOf, StandsFor
  <2>3. S = {key \in DOMAIN kv : IsPrefix(AuctionKeyPrefix, key)}
    BY <2>1 DEF Found
  <2>4. Asked(req) = {key \in S : AuctionIsHit(req, key)}
    BY <1>2, <2>3 DEF Asked
  <2>5. ASSUME NEW key PROVE IsHit(req, key) <=> AuctionIsHit(req, key)
    BY <1>2, <2>1 DEF IsHit, AuctionIsHit
  <2> QED BY <2>2, <2>4, <2>5
<1>3. CASE req.query = "AllowedBidders"
  <2>1. /\ ~ByBidder(req) /\ req.auctionId \in AuctionIds
        /\ Prefix(req) = GetAllowedBiddersByAuctionKeyPrefix(req.auctionId)
    BY <1>3, RequestIs DEF RequestKinds
  <2>2. ASSUME NEW key PROVE RecordOf(req, key) = key /\ StandsFor(req, key, key)
    BY <2>1 DEF RecordOf, StandsFor
  <2>3. S = {GetAllowedBidderKey(req.auctionId, a) : a \in Addresses} \cap DOMAIN kv
    BY <1>1, <2>1, StoreInvFinds DEF PrefixesAreExact
  <2>4. Asked(req) = S BY <1>3, <2>3 DEF Asked
  <2>5. ASSUME NEW key PROVE IsHit(req, key)
    BY <1>3, <2>1 DEF IsHit
  <2> QED BY <2>2, <2>4, <2>5
<1>4. CASE req.query = "Bids" /\ ~ByBidder(req)
  <2>1. req.auctionId \in AuctionIds /\ Prefix(req) = BidKeyPrefix
    BY <1>4, RequestIs DEF RequestKinds
  <2>2. ASSUME NEW key PROVE RecordOf(req, key) = key /\ StandsFor(req, key, key)
    BY <1>4 DEF RecordOf, StandsFor
  <2>3. S = {GetBidKey(id, k) : id, k \in Uint64} \cap DOMAIN kv
    BY <1>1, <2>1, StoreInvFinds DEF PrefixesAreExact
  <2>4. ASSUME NEW id \in Uint64, NEW k \in Uint64, Has(GetBidKey(id, k))
        PROVE  GetBidKey(id, k) \in Asked(req) <=>
                 id = req.auctionId /\ Matches(kv[GetBidKey(id, k)], req)
    <3>1. id \in AuctionIds /\ k \in 1..MaxBids BY <2>4, BidsInUse
    <3>2. GetBidKey(id, k) \in {GetBidKey(req.auctionId, j) : j \in 1..MaxBids} <=>
            id = req.auctionId
      BY <1>1, <2>1, <3>1, KeysDiffer
    <3> DEFINE key == GetBidKey(id, k)
    <3>3. key \in {GetBidKey(i, j) : i \in AuctionIds, j \in 1..MaxBids}
      BY <3>1
    <3> HIDE DEF key
    <3>4. key \in Asked(req) <=>
            Matches(kv[key], req) /\
            key \in {GetBidKey(req.auctionId, j) : j \in 1..MaxBids}
      BY <1>4, <2>4, <3>3 DEF Asked, Has, key
    <3> QED BY <3>2, <3>4 DEF key
  <2>5. ASSUME NEW key \in S
        PROVE  Ok(key)
    <3>1. PICK id \in Uint64, k \in Uint64 : key = GetBidKey(id, k) BY <2>3
    <3>2. Has(GetBidKey(id, k)) BY <2>3, <3>1 DEF Has
    <3>3. kv[key].auctionId = id BY <3>1, <3>2, BidsInUse
    <3>4. IsHit(req, key) <=> BidIsHit(req, key) BY <1>4 DEF IsHit
    <3>5. IsHit(req, key) <=> id = req.auctionId /\ Matches(kv[key], req)
      BY <3>3, <3>4 DEF BidIsHit
    <3> QED BY <2>2, <2>4, <3>1, <3>2, <3>5
  <2>6. ASSUME NEW rec \in Asked(req) PROVE rec \in S
    <3>1. /\ rec \in DOMAIN kv
          /\ rec \in {GetBidKey(id, k) : id \in AuctionIds, k \in 1..MaxBids}
      BY <1>4 DEF Asked
    <3> QED BY <1>1, <2>3, <3>1
  <2> QED BY <2>2, <2>5, <2>6
<1>5. CASE req.query = "Bids" /\ ByBidder(req)
  <2>1. /\ req.bidder \in Addresses
        /\ Prefix(req) = GetBidIndexByBidderPrefix(req.bidder)
    BY <1>5, RequestIs DEF RequestKinds
  <2>2. S = {GetBidIndexKey(req.bidder, id, k) : id, k \in Uint64} \cap DOMAIN kv
    BY <1>1, <2>1, StoreInvFinds DEF PrefixesAreExact
  <2>3. ASSUME NEW id \in Uint64, NEW k \in Uint64, Has(GetBidKey(id, k))
        PROVE  GetBidKey(id, k) \in Asked(req) <=>
                 /\ Matches(kv[GetBidKey(id, k)], req)
                 /\ kv[GetBidKey(id, k)].bidder = req.bidder
    <3>1. id \in AuctionIds /\ k \in 1..MaxBids BY <2>3, BidsInUse
    <3> DEFINE key == GetBidKey(id, k)
    <3>2. key \in {GetBidKey(i, j) : i \in AuctionIds, j \in 1..MaxBids}
      BY <3>1
    <3> HIDE DEF key
    <3>3. key \in Asked(req) <=>
            Matches(kv[key], req) /\ kv[key].bidder = req.bidder
      BY <1>5, <2>3, <3>2 DEF Asked, Has, key
    <3> QED BY <3>3 DEF key
  <2>4. ASSUME NEW key \in S PROVE Ok(key)
    <3>1. PICK id \in Uint64, k \in Uint64 :
            key = GetBidIndexKey(req.bidder, id, k)
      BY <2>2
    <3>2. Has(GetBidIndexKey(req.bidder, id, k)) BY <2>2, <3>1 DEF Has
    <3>3. /\ Has(GetBidKey(id, k))
          /\ IndexedBid(req, key) = kv[GetBidKey(id, k)]
          /\ kv[GetBidKey(id, k)].bidder = req.bidder
          /\ RecordOf(req, key) = GetBidKey(id, k)
      BY <1>5, <3>1, <3>2, IndexedBidIs
    <3>4. StandsFor(req, key, RecordOf(req, key))
      BY <1>5, <3>1, <3>3 DEF StandsFor
    <3>5. IsHit(req, key) <=> IndexIsHit(req, key) BY <1>5 DEF IsHit
    <3>6. IsHit(req, key) <=> Matches(kv[GetBidKey(id, k)], req)
      BY <3>3, <3>5 DEF IndexIsHit
    <3> QED BY <2>3, <3>3, <3>4, <3>6
  <2>5. ASSUME NEW rec \in Asked(req)
        PROVE  \E key \in S : StandsFor(req, key, rec)
    <3>1. /\ rec \in DOMAIN kv /\ kv[rec].bidder = req.bidder
          /\ rec \in {GetBidKey(id, k) : id \in AuctionIds, k \in 1..MaxBids}
      BY <1>5 DEF Asked
    <3>2. PICK id \in Uint64, k \in Uint64 : rec = GetBidKey(id, k)
      BY <1>1, <3>1
    <3>3. Has(GetBidIndexKey(req.bidder, id, k))
      BY <1>1, <2>1, <3>1, <3>2 DEF StoreInv, IndexOk, Has
    <3>4. GetBidIndexKey(req.bidder, id, k) \in S BY <2>2, <3>3 DEF Has
    <3> QED BY <1>5, <3>2, <3>4 DEF StandsFor
  <2> QED BY <2>4, <2>5
<1> QED BY <1>2, <1>3, <1>4, <1>5, RequestIs DEF RequestKinds

-----------------------------------------------------------------------------
(***************************************************************************)
(* A page.                                                                 *)
(***************************************************************************)

\* The hits from the key start on.
HitsFrom(req, start) ==
  {key \in Found(Prefix(req)) : Before(start, key) /\ IsHit(req, key)}

\* The page has the first hits from start on, and the next key is after them and
\* not after any other hit; without a next key these are all.
PageIs(req, start, page) ==
  /\ page.keys \in Seq(HitsFrom(req, start))
  /\ \A i, j \in 1..Len(page.keys) : page.keys[i] = page.keys[j] => i = j
  /\ page.nextKey = <<>> => HitsFrom(req, start) \subseteq ToSet(page.keys)
  /\ page.nextKey # <<>> =>
       /\ page.nextKey \in Seq(Nat) /\ Before(start, page.nextKey)
       /\ \A key \in HitsFrom(req, start) :
            Before(page.nextKey, key) <=> key \notin ToSet(page.keys)

LEMMA FoundKeys ==
  ASSUME EntriesInv, NEW req
  PROVE  LET S == Found(Prefix(req))
         IN  /\ S \in SUBSET Seq(Nat) /\ S \subseteq Keys /\ IsFiniteSet(S)
             /\ <<>> \notin S
<1>1. /\ Found(Prefix(req)) \in SUBSET Seq(Nat)
      /\ Found(Prefix(req)) \subseteq Keys /\ IsFiniteSet(Found(Prefix(req)))
  BY Iterates
<1>2. <<>> \notin Keys
  <2>1. Len(<<>>) = 0 OBVIOUS
  <2> QED BY <2>1, KeyKinds
<1> QED BY <1>1, <1>2

LEMMA HitsFound ==
  ASSUME EntriesInv, NEW req, NEW start
  PROVE  LET S == HitsFrom(req, start)
         IN  S \in SUBSET Seq(Nat) /\ S \subseteq Keys /\ IsFiniteSet(S)
<1>1. HitsFrom(req, start) \in SUBSET Found(Prefix(req)) BY DEF HitsFrom
<1> QED BY <1>1, FoundKeys, FS_Subset

LEMMA TakeIs ==
  ASSUME NEW S, NEW s \in Seq(S), NEW n \in Nat,
         NEW m \in Nat, m <= n, m <= Len(s), m = n \/ m = Len(s)
  PROVE  /\ Take(s, n) \in Seq(S) /\ Len(Take(s, n)) = m
         /\ \A i \in 1..m : Take(s, n)[i] = s[i]
<1>1. Len(s) \in Nat BY LenProperties
<1>2. Min({n, Len(s)}) = m BY <1>1 DEF Min
<1>3. Take(s, n) = SubSeq(s, 1, m) BY <1>2 DEF Take
<1>4. /\ SubSeq(s, 1, m) \in Seq(S) /\ Len(SubSeq(s, 1, m)) = m
      /\ \A i \in 1..m : SubSeq(s, 1, m)[i] = s[i]
  BY <1>1, SubSeqProperties
<1> QED BY <1>3, <1>4

\* The first n keys of S.
LEMMA FirstKeys ==
  ASSUME NEW S \in SUBSET Seq(Nat), IsFiniteSet(S), NEW n \in Nat
  PROVE  LET t == Take(InOrder(S), n)
         IN  /\ t \in Seq(S) /\ \A i, j \in 1..Len(t) : t[i] = t[j] => i = j
             /\ Cardinality(S) <= n => S \subseteq ToSet(t)
             /\ \A i \in 1..Cardinality(S) : InOrder(S)[i] \in ToSet(t) <=> i <= n
<1> DEFINE s == InOrder(S)
           t == Take(s, n)
           k == Cardinality(S)
           m == IF n <= k THEN n ELSE k
<1>1. /\ k \in Nat /\ s \in Seq(S) /\ Len(s) = k /\ ToSet(s) = S
      /\ s \in [1..k -> S] /\ \A i, j \in 1..k : s[i] = s[j] => i = j
  BY KeysInOrder
<1> HIDE DEF k, s
<1>2. t \in Seq(S) /\ Len(t) = m /\ \A i \in 1..m : t[i] = s[i]
  <2>1. m \in Nat /\ m <= n /\ m <= Len(s) /\ (m = n \/ m = Len(s)) BY <1>1
  <2>2. s \in Seq(S) BY <1>1
  <2> HIDE DEF m
  <2> QED BY <2>1, <2>2, TakeIs
<1>3. m \in 0..k BY <1>1
<1> HIDE DEF t
<1>4. DOMAIN t = 1..m BY <1>2, LenProperties
<1>5. ToSet(t) = {s[i] : i \in 1..m} BY <1>2, <1>4 DEF ToSet
<1>6. ToSet(s) = {s[i] : i \in 1..k} BY <1>1 DEF ToSet
<1>7. k <= n => S \subseteq ToSet(t) BY <1>1, <1>5, <1>6
<1>8. \A i \in 1..k : s[i] \in ToSet(t) <=> i <= n BY <1>1, <1>3, <1>5
<1>9. \A i, j \in 1..Len(t) : t[i] = t[j] => i = j BY <1>1, <1>2, <1>3
<1> QED BY <1>2, <1>7, <1>8, <1>9 DEF t, s, k

LEMMA KeyPage ==
  ASSUME EntriesInv, NEW req, NEW start \in Seq(Nat)
  PROVE  PageIs(req, start, FromKey(req, start))
<1> DEFINE page == FromKey(req, start)
           H == HitsFrom(req, start)
           n == Cardinality(H)
           hits == InOrder(H)
           found == {key \in Found(Prefix(req)) : Before(start, key)}
           R1 == {key \in found : ~Before(key, hits[Limit])}
           rest == InOrder(R1)
<1>1. Limit \in Nat \ {0} BY QueriesAssumption
<1>2. H \in SUBSET Seq(Nat) /\ IsFiniteSet(H) /\ H \subseteq found
  BY HitsFound DEF HitsFrom
<1>3. found \in SUBSET Seq(Nat) /\ IsFiniteSet(found) /\ <<>> \notin found
  BY FoundKeys, FS_Subset
<1>4. R1 \in SUBSET found /\ IsFiniteSet(R1) /\ R1 \in SUBSET Seq(Nat)
  BY <1>3, FS_Subset
<1>5. H = {key \in found : IsHit(req, key)} BY DEF HitsFrom
<1>6. /\ page.keys = Take(hits, Limit)
      /\ page.nextKey = IF Len(hits) >= Limit /\ rest # <<>> THEN rest[1] ELSE <<>>
  BY <1>5 DEF FromKey
<1>7. /\ n \in Nat /\ hits \in [1..n -> H] /\ Len(hits) = n /\ ToSet(hits) = H
      /\ \A i, j \in 1..n : Before(hits[i], hits[j]) <=> i <= j
  BY <1>2, KeysInOrder
<1>8. /\ page.keys \in Seq(H)
      /\ \A i, j \in 1..Len(page.keys) : page.keys[i] = page.keys[j] => i = j
      /\ n <= Limit => H \subseteq ToSet(page.keys)
      /\ \A i \in 1..n : hits[i] \in ToSet(page.keys) <=> i <= Limit
  BY <1>1, <1>2, <1>6, FirstKeys
<1>9. \A key \in H : \E i \in 1..n : key = hits[i] BY <1>7 DEF ToSet
<1> DEFINE m == Cardinality(R1)
<1>10. /\ m \in Nat /\ rest \in [1..m -> R1] /\ Len(rest) = m /\ ToSet(rest) = R1
       /\ \A i, j \in 1..m : Before(rest[i], rest[j]) <=> i <= j
  BY <1>4, KeysInOrder
<1>11. rest # <<>> => 1 \in 1..m /\ rest[1] \in R1
  <2>1. m = 0 => rest = <<>> BY <1>10
  <2> HIDE DEF R1, rest, m
  <2> QED BY <1>10, <2>1
<1>12. ASSUME NEW key \in R1 PROVE rest # <<>> /\ Before(rest[1], key)
  <2> HIDE DEF R1, rest, m
  <2>1. PICK i \in 1..m : key = rest[i] BY <1>10, <1>12 DEF ToSet
  <2>2. Len(rest) # 0 /\ 1 \in 1..m /\ 1 <= i BY <1>10, <2>1
  <2> QED BY <1>10, <2>1, <2>2
<1>13. ASSUME NEW i \in 1..n, i > Limit
       PROVE  hits[i] \in R1 /\ Len(hits) >= Limit
  <2>1. Limit \in 1..n /\ ~(i <= Limit) BY <1>1, <1>7, <1>13
  <2>2. ~Before(hits[i], hits[Limit]) BY <1>7, <2>1
  <2>3. hits[i] \in found BY <1>2, <1>7
  <2> HIDE DEF found, hits, n
  <2> QED BY <1>7, <2>1, <2>2, <2>3
<1> HIDE DEF R1, rest, m, found, hits, n, page, H
<1>14. CASE page.nextKey = <<>>
  <2>1. ASSUME NEW i \in 1..n PROVE ~(i > Limit)
    <3>1. SUFFICES ASSUME i > Limit PROVE FALSE OBVIOUS
    <3>2. hits[i] \in R1 /\ Len(hits) >= Limit BY <1>13, <3>1
    <3>3. rest # <<>> BY <1>12, <3>2
    <3>4. page.nextKey = rest[1] /\ rest[1] \in found BY <1>4, <1>6, <1>11, <3>2, <3>3
    <3> QED BY <1>3, <1>14, <3>4
  <2>2. H \subseteq ToSet(page.keys) BY <1>1, <1>8, <1>9, <2>1
  <2> QED BY <1>8, <1>14, <2>2 DEF PageIs, H, page
<1>15. CASE page.nextKey # <<>>
  <2>1. /\ Len(hits) >= Limit /\ rest # <<>> /\ page.nextKey = rest[1]
        /\ rest[1] \in R1
    BY <1>6, <1>11, <1>15
  <2>2. /\ page.nextKey \in Seq(Nat) /\ Before(start, page.nextKey)
        /\ ~Before(page.nextKey, hits[Limit])
    BY <1>3, <1>4, <2>1 DEF R1, found
  <2>3. Limit \in 1..n /\ hits[Limit] \in Seq(Nat) BY <1>1, <1>2, <1>7, <2>1
  <2>4. ASSUME NEW i \in 1..n
        PROVE  Before(page.nextKey, hits[i]) <=> hits[i] \notin ToSet(page.keys)
    <3>1. hits[i] \in Seq(Nat) BY <1>2, <1>7
    <3>2. CASE i <= Limit
      <4>1. Before(hits[i], hits[Limit]) BY <1>7, <2>3, <3>2
      <4>2. ~Before(page.nextKey, hits[i])
        BY <2>2, <2>3, <3>1, <4>1, Transitive
      <4> QED BY <1>8, <3>2, <4>2
    <3>3. CASE i > Limit
      <4>1. Before(page.nextKey, hits[i]) BY <1>12, <1>13, <2>1, <3>3
      <4>2. ~(i <= Limit) BY <1>1, <3>3
      <4> QED BY <1>8, <4>1, <4>2
    <3> QED BY <1>1, <3>2, <3>3
  <2>5. \A key \in H :
          Before(page.nextKey, key) <=> key \notin ToSet(page.keys)
    BY <1>9, <2>4
  <2> QED BY <1>8, <1>15, <2>2, <2>5 DEF PageIs, H, page
<1> QED BY <1>14, <1>15 DEF page

LEMMA EmptyIsFirst == \A key \in Seq(Nat) : Before(<<>>, key)
<1> DEFINE e == <<>>
<1>1. e \in Seq(Nat) /\ Len(e) = 0 OBVIOUS
<1> HIDE DEF e
<1>2. ASSUME NEW key \in Seq(Nat) PROVE Before(e, key)
  <2>1. Len(key) \in Nat BY LenProperties
  <2>2. SameStart(e, key, Len(e)) BY <1>1 DEF SameStart
  <2>3. Len(e) <= Len(key) BY <1>1, <2>1
  <2>4. IsPrefix(e, key) BY <1>1, <2>2, <2>3, PrefixIs
  <2> QED BY <2>4 DEF Before
<1> QED BY <1>2 DEF e

LEMMA FirstPage ==
  ASSUME EntriesInv, NEW req
  PROVE  PageIs(req, <<>>, FromOffset(req, 0))
<1> DEFINE page == FromOffset(req, 0)
           H == HitsFrom(req, <<>>)
           n == Cardinality(H)
           hits == InOrder(H)
<1>1. Limit \in Nat \ {0} BY QueriesAssumption
<1>2. H \in SUBSET Seq(Nat) /\ IsFiniteSet(H) /\ <<>> \notin H
  BY HitsFound, FoundKeys DEF HitsFrom
<1>3. \A key \in Seq(Nat) : Before(<<>>, key) BY EmptyIsFirst
<1>4. H = {key \in Found(Prefix(req)) : IsHit(req, key)}
  <2>1. \A key \in Found(Prefix(req)) : Before(<<>>, key) BY <1>3, FoundKeys
  <2> QED BY <2>1 DEF HitsFrom
<1>5. /\ n \in Nat /\ hits \in [1..n -> H] /\ Len(hits) = n /\ ToSet(hits) = H
      /\ hits \in Seq(H)
      /\ \A i, j \in 1..n : Before(hits[i], hits[j]) <=> i <= j
  BY <1>2, KeysInOrder
<1> DEFINE t == Take(hits, Limit)
<1>6. /\ t \in Seq(H)
      /\ \A i, j \in 1..Len(t) : t[i] = t[j] => i = j
      /\ n <= Limit => H \subseteq ToSet(t)
      /\ \A i \in 1..n : hits[i] \in ToSet(t) <=> i <= Limit
  BY <1>1, <1>2, FirstKeys
<1>7. /\ page.keys = From(t, 0)
      /\ page.nextKey = IF Len(hits) > Limit THEN hits[Limit + 1] ELSE <<>>
  <2> DEFINE end == 0 + Limit
  <2>1. /\ page.keys = From(Take(hits, end), 0)
        /\ page.nextKey = IF Len(hits) > end THEN hits[end + 1] ELSE <<>>
    BY <1>4 DEF FromOffset
  <2>2. end = Limit BY <1>1
  <2> HIDE DEF end, page, hits
  <2> QED BY <2>1, <2>2
<1> HIDE DEF t, hits, n, H, page
<1>8. From(t, 0) = t
  <2>1. From(t, 0) = SubSeq(t, 1, Len(t)) BY DEF From
  <2>2. Len(t) \in Nat BY <1>6, LenProperties
  <2> DEFINE u == SubSeq(t, 1, Len(t))
  <2>3. u \in Seq(H) /\ Len(u) = Len(t) /\ \A i \in 1..Len(t) : u[i] = t[i]
    BY <1>6, <2>2, SubSeqProperties
  <2> HIDE DEF u
  <2>4. u = t BY <1>6, <2>3, SeqEqual
  <2> QED BY <2>1, <2>4 DEF u
<1>9. \A key \in H : \E i \in 1..n : key = hits[i] BY <1>5 DEF ToSet
<1>10. CASE n <= Limit
  <2>1. page.nextKey = <<>> BY <1>1, <1>5, <1>7, <1>10
  <2> QED BY <1>6, <1>7, <1>8, <1>10, <2>1 DEF PageIs, H, page
<1>11. CASE n > Limit
  <2>1. Limit + 1 \in 1..n BY <1>1, <1>5, <1>11
  <2>2. page.nextKey = hits[Limit + 1] BY <1>5, <1>7, <1>11
  <2>3. /\ page.nextKey \in H /\ page.nextKey \in Seq(Nat)
        /\ page.nextKey # <<>> /\ Before(<<>>, page.nextKey)
    BY <1>2, <1>3, <1>5, <2>1, <2>2
  <2>4. ASSUME NEW i \in 1..n
        PROVE  Before(page.nextKey, hits[i]) <=> hits[i] \notin ToSet(t)
    <3>1. Before(page.nextKey, hits[i]) <=> Limit + 1 <= i BY <1>5, <2>1, <2>2
    <3> QED BY <1>1, <1>6, <3>1
  <2>5. \A key \in H : Before(page.nextKey, key) <=> key \notin ToSet(t)
    BY <1>9, <2>4
  <2> QED BY <1>6, <1>7, <1>8, <2>3, <2>5 DEF PageIs, H, page
<1> QED BY <1>1, <1>5, <1>10, <1>11 DEF page

-----------------------------------------------------------------------------
(***************************************************************************)
(* A client who asks for the next page by its key.                         *)
(***************************************************************************)

\* The records got stand before the next key, and of the records that were asked
\* for all the time those before it have been got.
KeyWalk(w) ==
  /\ w.next \in Seq(Nat)
  /\ w.got \in Seq(Keys)
  /\ \A i, j \in 1..Len(w.got) : w.got[i] = w.got[j] => i = j
  /\ \A rec \in ToSet(w.got) :
       /\ rec \in w.touched
       /\ \E key \in Keys : StandsFor(w.req, key, rec) /\ ~Before(w.next, key)
  /\ \A rec \in w.steady, key \in Keys :
       StandsFor(w.req, key, rec) => Before(w.next, key) \/ rec \in ToSet(w.got)

\* WalkIsExact, for a walk that is done.
WalkOk(w) ==
  /\ IsInjective(w.got)
  /\ ToSet(w.got) \subseteq w.touched
  /\ w.steady \subseteq ToSet(w.got)

\* What was asked for all the time is asked for, and that has been touched.
Observed(w) == w.steady \subseteq Asked(w.req) /\ Asked(w.req) \subseteq w.touched

\* The records a page adds.
LEMMA PageRecords ==
  ASSUME EntriesInv, NEW req \in Request, NEW start, NEW page,
         PageIs(req, start, page)
  PROVE  LET n == Len(page.keys)
             recs == [i \in 1..n |-> RecordOf(req, page.keys[i])]
         IN  /\ n \in Nat /\ recs \in Seq(Keys) /\ Len(recs) = n
             /\ \A i \in 1..n : /\ page.keys[i] \in HitsFrom(req, start)
                                /\ StandsFor(req, page.keys[i], recs[i])
                                /\ recs[i] \in Asked(req)
             /\ \A i, j \in 1..n : recs[i] = recs[j] => i = j
<1> DEFINE keys == page.keys
           n == Len(keys)
           recs == [i \in 1..n |-> RecordOf(req, keys[i])]
           H == HitsFrom(req, start)
<1>1. /\ keys \in Seq(H) /\ n \in Nat /\ keys \in [1..n -> H]
      /\ \A i, j \in 1..n : keys[i] = keys[j] => i = j
  BY LenProperties DEF PageIs
<1> HIDE DEF keys
<1>2. ASSUME NEW i \in 1..n
      PROVE  /\ keys[i] \in H /\ StandsFor(req, keys[i], recs[i])
             /\ recs[i] \in Asked(req) /\ recs[i] \in Keys
  <2>1. keys[i] \in H BY <1>1
  <2>2. keys[i] \in Found(Prefix(req)) /\ IsHit(req, keys[i]) BY <2>1 DEF HitsFrom
  <2>3. recs[i] = RecordOf(req, keys[i]) OBVIOUS
  <2>4. StandsFor(req, keys[i], recs[i]) /\ recs[i] \in Asked(req)
    BY <2>2, <2>3, HitsAreAsked
  <2>5. Asked(req) \subseteq Keys BY DEF Asked, EntriesInv, StoreInv
  <2> QED BY <2>1, <2>4, <2>5
<1>3. \A i, j \in 1..n : recs[i] = recs[j] => i = j
  <2> SUFFICES ASSUME NEW i \in 1..n, NEW j \in 1..n, recs[i] = recs[j]
               PROVE  i = j
    OBVIOUS
  <2>1. StandsFor(req, keys[i], recs[i]) /\ StandsFor(req, keys[j], recs[j])
    BY <1>2
  <2> HIDE DEF recs
  <2>2. keys[i] = keys[j] BY <2>1, StandsForOne
  <2> QED BY <1>1, <2>2
<1>4. recs \in Seq(Keys) /\ Len(recs) = n
  <2>1. recs \in [1..n -> Keys] BY <1>2
  <2> HIDE DEF recs
  <2>2. recs \in Seq(Keys) BY <1>1, <2>1, SeqDef
  <2> QED BY <1>1, <2>1, <2>2, LenProperties
<1> QED BY <1>1, <1>2, <1>3, <1>4 DEF keys

LEMMA Joined ==
  ASSUME NEW S, NEW s \in Seq(S), NEW t \in Seq(S)
  PROVE  /\ s \o t \in Seq(S) /\ Len(s \o t) = Len(s) + Len(t)
         /\ ToSet(s \o t) = ToSet(s) \cup ToSet(t)
         /\ (/\ \A i, j \in 1..Len(s) : s[i] = s[j] => i = j
             /\ \A i, j \in 1..Len(t) : t[i] = t[j] => i = j
             /\ ToSet(s) \cap ToSet(t) = {}) =>
              \A i, j \in 1..Len(s \o t) : (s \o t)[i] = (s \o t)[j] => i = j
<1> DEFINE n == Len(s)
           m == Len(t)
           u == s \o t
<1>1. /\ n \in Nat /\ m \in Nat /\ u \in Seq(S) /\ Len(u) = n + m
      /\ \A i \in 1..(n + m) : u[i] = IF i <= n THEN s[i] ELSE t[i - n]
  BY LenProperties, ConcatProperties
<1>2. /\ ToSet(s) = {s[i] : i \in 1..n} /\ ToSet(t) = {t[i] : i \in 1..m}
      /\ ToSet(u) = {u[i] : i \in 1..(n + m)}
  <2>1. DOMAIN s = 1..n /\ DOMAIN t = 1..m /\ DOMAIN u = 1..(n + m)
    BY <1>1, LenProperties
  <2> HIDE DEF n, m, u
  <2> QED BY <2>1 DEF ToSet
<1> HIDE DEF n, m, u
<1>3. ASSUME NEW i \in 1..n PROVE i \in 1..(n + m) /\ u[i] = s[i] BY <1>1
<1>4. ASSUME NEW i \in 1..m PROVE n + i \in 1..(n + m) /\ u[n + i] = t[i]
  <2>1. n + i \in 1..(n + m) /\ ~(n + i <= n) /\ (n + i) - n = i BY <1>1
  <2> QED BY <1>1, <2>1
<1>5. ASSUME NEW i \in 1..(n + m)
      PROVE  \/ i \in 1..n /\ u[i] = s[i]
             \/ i > n /\ i - n \in 1..m /\ u[i] = t[i - n]
  BY <1>1
<1>6. ToSet(u) = ToSet(s) \cup ToSet(t)
  <2>1. ToSet(u) \subseteq ToSet(s) \cup ToSet(t) BY <1>2, <1>5
  <2>2. ToSet(s) \subseteq ToSet(u) BY <1>2, <1>3
  <2>3. ToSet(t) \subseteq ToSet(u) BY <1>2, <1>4
  <2> QED BY <2>1, <2>2, <2>3
<1>7. ASSUME \A i, j \in 1..n : s[i] = s[j] => i = j,
             \A i, j \in 1..m : t[i] = t[j] => i = j,
             ToSet(s) \cap ToSet(t) = {},
             NEW i \in 1..(n + m), NEW j \in 1..(n + m), u[i] = u[j]
      PROVE  i = j
  <2>1. CASE i \in 1..n /\ j \in 1..n BY <1>3, <1>7, <2>1
  <2>2. CASE i > n /\ j > n
    <3>1. i - n \in 1..m /\ j - n \in 1..m /\ u[i] = t[i - n] /\ u[j] = t[j - n]
      BY <1>1, <2>2
    <3>2. i - n = j - n BY <1>7, <3>1
    <3> QED BY <1>1, <3>2
  <2>3. CASE i \in 1..n /\ j > n
    <3>1. u[i] \in ToSet(s) /\ u[j] \in ToSet(t) BY <1>1, <1>2, <1>5, <2>3
    <3> QED BY <1>7, <3>1
  <2>4. CASE i > n /\ j \in 1..n
    <3>1. u[i] \in ToSet(t) /\ u[j] \in ToSet(s) BY <1>1, <1>2, <1>5, <2>4
    <3> QED BY <1>7, <3>1
  <2> QED BY <1>1, <2>1, <2>2, <2>3, <2>4
<1> QED BY <1>1, <1>6, <1>7 DEF n, m, u

\* A page by its key.
LEMMA KeyWalkStep ==
  ASSUME EntriesInv, NEW w, w.req \in Request, Observed(w), KeyWalk(w),
         NEW page, PageIs(w.req, w.next, page)
  PROVE  IF page.nextKey = <<>> THEN WalkOk(WalkTo(w, page))
                                ELSE KeyWalk(WalkTo(w, page))
<1> DEFINE v == WalkTo(w, page)
           req == w.req
           keys == page.keys
           n == Len(keys)
           recs == [i \in 1..n |-> RecordOf(req, keys[i])]
           got == w.got \o recs
           H == HitsFrom(req, w.next)
<1>1. /\ v.req = req /\ v.got = got /\ v.next = page.nextKey
      /\ v.steady = w.steady /\ v.touched = w.touched
  BY DEF WalkTo
<1>2. /\ n \in Nat /\ recs \in Seq(Keys) /\ Len(recs) = n
      /\ \A i \in 1..n : /\ keys[i] \in H
                         /\ StandsFor(req, keys[i], recs[i])
                         /\ recs[i] \in Asked(req)
      /\ \A i, j \in 1..n : recs[i] = recs[j] => i = j
  BY PageRecords
<1> HIDE DEF v, recs
<1>3. /\ w.next \in Seq(Nat) /\ w.got \in Seq(Keys)
      /\ \A i, j \in 1..Len(w.got) : w.got[i] = w.got[j] => i = j
      /\ \A rec \in ToSet(w.got) :
           /\ rec \in w.touched
           /\ \E key \in Keys : StandsFor(req, key, rec) /\ ~Before(w.next, key)
      /\ \A rec \in w.steady, key \in Keys :
           StandsFor(req, key, rec) => Before(w.next, key) \/ rec \in ToSet(w.got)
  BY DEF KeyWalk
<1>4. ToSet(recs) = {recs[i] : i \in 1..n} /\ ToSet(keys) = {keys[i] : i \in 1..n}
  <2>1. DOMAIN recs = 1..n BY <1>2, LenProperties
  <2>2. DOMAIN keys = 1..n BY LenProperties DEF PageIs
  <2> HIDE DEF keys, n
  <2> QED BY <2>1, <2>2 DEF ToSet
<1>5. H \subseteq Keys /\ H \in SUBSET Seq(Nat) BY HitsFound
<1>6. \A key \in H : key \in Found(Prefix(req)) /\ Before(w.next, key)
  BY DEF HitsFrom
<1>7. /\ page.nextKey = <<>> => H \subseteq ToSet(keys)
      /\ page.nextKey # <<>> =>
           /\ page.nextKey \in Seq(Nat) /\ Before(w.next, page.nextKey)
           /\ \A key \in H : Before(page.nextKey, key) <=> key \notin ToSet(keys)
  BY DEF PageIs
<1> HIDE DEF keys, n, H
<1>8. ToSet(w.got) \cap ToSet(recs) = {}
  <2> SUFFICES ASSUME NEW rec \in ToSet(w.got), NEW i \in 1..n, rec = recs[i]
               PROVE  FALSE
    BY <1>4
  <2>1. PICK key \in Keys : StandsFor(req, key, rec) /\ ~Before(w.next, key)
    BY <1>3
  <2>2. StandsFor(req, keys[i], rec) /\ keys[i] \in H BY <1>2
  <2>3. key = keys[i] BY <2>1, <2>2, StandsForOne
  <2> QED BY <1>6, <2>1, <2>2, <2>3
<1>9. /\ got \in Seq(Keys) /\ ToSet(got) = ToSet(w.got) \cup ToSet(recs)
      /\ \A i, j \in 1..Len(got) : got[i] = got[j] => i = j
  <2> DEFINE old == w.got
  <2>1. /\ old \in Seq(Keys) /\ recs \in Seq(Keys)
        /\ \A i, j \in 1..Len(old) : old[i] = old[j] => i = j
        /\ \A i, j \in 1..Len(recs) : recs[i] = recs[j] => i = j
        /\ ToSet(old) \cap ToSet(recs) = {}
    BY <1>2, <1>3, <1>8
  <2> HIDE DEF old
  <2>2. /\ old \o recs \in Seq(Keys)
        /\ ToSet(old \o recs) = ToSet(old) \cup ToSet(recs)
        /\ \A i, j \in 1..Len(old \o recs) :
             (old \o recs)[i] = (old \o recs)[j] => i = j
    BY <2>1, Joined
  <2> QED BY <2>2 DEF old
<1> HIDE DEF got
<1>10. ToSet(got) \subseteq w.touched BY <1>2, <1>3, <1>4, <1>9 DEF Observed
\* A steady record whose key is from the last next key on is a hit.
<1>11. ASSUME NEW rec \in w.steady, NEW key \in Keys, StandsFor(req, key, rec)
       PROVE  rec \in ToSet(w.got) \/ key \in H
  <2>1. CASE rec \in ToSet(w.got) BY <2>1
  <2>2. CASE rec \notin ToSet(w.got)
    <3>1. Before(w.next, key) BY <1>3, <1>11, <2>2
    <3>2. rec \in Asked(req) BY DEF Observed
    <3>3. PICK k \in Found(Prefix(req)) : StandsFor(req, k, rec)
      BY <3>2, HitsAreAsked
    <3>4. k = key BY <1>11, <3>3, StandsForOne
    <3>5. StandsFor(req, key, RecordOf(req, key)) BY <3>3, <3>4, HitsAreAsked
    <3>6. rec = RecordOf(req, key) BY <1>11, <3>5, StandsForOne
    <3>7. IsHit(req, key) BY <3>2, <3>3, <3>4, <3>6, HitsAreAsked
    <3> QED BY <3>1, <3>3, <3>4, <3>7 DEF H, HitsFrom
  <2> QED BY <2>1, <2>2
<1>12. ASSUME NEW rec, NEW key \in ToSet(keys), StandsFor(req, key, rec)
       PROVE  rec \in ToSet(recs)
  <2>1. PICK i \in 1..n : key = keys[i] BY <1>4
  <2>2. StandsFor(req, key, recs[i]) BY <1>2, <2>1
  <2>3. rec = recs[i] BY <1>12, <2>2, StandsForOne
  <2> QED BY <1>4, <2>3
<1>13. CASE page.nextKey = <<>>
  <2>1. ASSUME NEW rec \in w.steady PROVE rec \in ToSet(got)
    <3>1. PICK key \in Found(Prefix(req)) : StandsFor(req, key, rec)
      BY HitsAreAsked DEF Observed
    <3>2. key \in Keys BY FoundKeys
    <3>3. CASE rec \in ToSet(w.got) BY <1>9, <3>3
    <3>4. CASE key \in H BY <1>7, <1>9, <1>12, <1>13, <3>1, <3>4
    <3> QED BY <1>11, <3>1, <3>2, <3>3, <3>4
  <2>2. IsInjective(got)
    <3>1. DOMAIN got = 1..Len(got) BY <1>9, LenProperties
    <3> QED BY <1>9, <3>1 DEF IsInjective
  <2>3. WalkOk(v) BY <1>1, <1>10, <2>1, <2>2 DEF WalkOk
  <2> QED BY <1>13, <2>3 DEF v
<1>14. CASE page.nextKey # <<>>
  <2> DEFINE next == page.nextKey
  <2>1. /\ next \in Seq(Nat) /\ Before(w.next, next)
        /\ \A key \in H : Before(next, key) <=> key \notin ToSet(keys)
    BY <1>7, <1>14
  <2> HIDE DEF next
  <2>2. ASSUME NEW rec \in ToSet(w.got)
        PROVE  \E key \in Keys : StandsFor(req, key, rec) /\ ~Before(next, key)
    <3>1. PICK key \in Keys : StandsFor(req, key, rec) /\ ~Before(w.next, key)
      BY <1>3
    <3>2. key \in Seq(Nat) BY KeyKinds
    <3>3. ~Before(next, key) BY <1>3, <2>1, <3>1, <3>2, Transitive
    <3> QED BY <3>1, <3>3
  <2>3. ASSUME NEW i \in 1..n
        PROVE  \E key \in Keys : StandsFor(req, key, recs[i]) /\ ~Before(next, key)
    <3>1. keys[i] \in H /\ keys[i] \in ToSet(keys) BY <1>2, <1>4
    <3> QED BY <1>2, <1>5, <2>1, <3>1
  <2>4. ASSUME NEW rec \in w.steady, NEW key \in Keys, StandsFor(req, key, rec)
        PROVE  Before(next, key) \/ rec \in ToSet(got)
    <3>1. CASE rec \in ToSet(w.got) BY <1>9, <3>1
    <3>2. CASE key \in H /\ key \in ToSet(keys) BY <1>9, <1>12, <2>4, <3>2
    <3>3. CASE key \in H /\ key \notin ToSet(keys) BY <2>1, <3>3
    <3> QED BY <1>11, <2>4, <3>1, <3>2, <3>3
  <2>5. ASSUME NEW rec \in ToSet(got)
        PROVE  \E key \in Keys : StandsFor(req, key, rec) /\ ~Before(next, key)
    BY <1>4, <1>9, <2>2, <2>3
  <2>6. KeyWalk(v)
    BY <1>1, <1>9, <1>10, <2>1, <2>4, <2>5 DEF KeyWalk, next
  <2> QED BY <1>14, <2>6 DEF v
<1> QED BY <1>13, <1>14

-----------------------------------------------------------------------------
(***************************************************************************)
(* A client who asks for the next page by an offset.                       *)
(***************************************************************************)

\* The records of a list that grows at its end, by their number.
LastId(req) ==
  IF req.query = "Auctions" THEN GetLastAuctionId ELSE GetLastBidId(req.auctionId)

IdRecord(req, i) ==
  IF req.query = "Auctions" THEN GetAuctionKey(i) ELSE GetBidKey(req.auctionId, i)

\* The records got are the first ones of the list.
OffsetWalk(w) ==
  /\ w.offset \in 0..LastId(w.req)
  /\ w.got = [i \in 1..w.offset |-> IdRecord(w.req, i)]

LEMMA AppendOnlyHits ==
  ASSUME EntriesInv, NEW req \in Request, AppendOnly(req)
  PROVE  LET N == LastId(req)
             H == {key \in Found(Prefix(req)) : IsHit(req, key)}
         IN  /\ N \in Nat /\ ~ByBidder(req)
             /\ H = {IdRecord(req, i) : i \in 1..N} /\ Asked(req) = H
             /\ \A i \in 1..N : IdRecord(req, i) \in Keys
             /\ \A i, j \in 1..N :
                  Before(IdRecord(req, i), IdRecord(req, j)) <=> i <= j
<1> DEFINE S == Found(Prefix(req))
           N == LastId(req)
           H == {key \in S : IsHit(req, key)}
           rec(i) == IdRecord(req, i)
<1>1. StoreInv BY DEF EntriesInv
<1>2. /\ GetLastAuctionId \in Nat /\ AuctionIds \subseteq Uint64
      /\ Ids \subseteq Uint64
      /\ \A id \in Uint64 : /\ GetLastBidId(id) \in Nat
                            /\ 1..GetLastBidId(id) \subseteq Uint64
  BY <1>1, IdsInUse DEF StoreInv
<1>3. ~ByBidder(req) BY DEF AppendOnly, ByBidder
<1>4. Asked(req) = H
  <2>1. \A key \in S : RecordOf(req, key) = key BY <1>3 DEF RecordOf
  <2>2. \A key \in S : IsHit(req, key) <=> key \in Asked(req)
    BY <2>1, HitsAreAsked
  <2>3. ASSUME NEW r \in Asked(req) PROVE r \in S
    <3>1. PICK key \in S : StandsFor(req, key, r) BY HitsAreAsked
    <3> QED BY <1>3, <3>1 DEF StandsFor
  <2> QED BY <2>2, <2>3
<1>5. CASE req.query = "Auctions"
  <2>1. Prefix(req) = AuctionKeyPrefix /\ req.type = "" /\ req.status = ""
    BY <1>5, RequestIs DEF RequestKinds, AppendOnly
  <2>2. S = {GetAuctionKey(id) : id \in Uint64} \cap DOMAIN kv
    <3> HIDE DEF H, N, rec
    <3>1. Found(AuctionKeyPrefix) = {GetAuctionKey(id) : id \in Uint64} \cap DOMAIN kv
      BY <1>1, StoreInvFinds DEF PrefixesAreExact
    <3> QED BY <2>1, <3>1
  <2>3. N = GetLastAuctionId /\ 1..N = Ids BY <1>5 DEF LastId, Ids
  <2>4. \A key : IsHit(req, key) BY <1>3, <1>5, <2>1 DEF IsHit, AuctionIsHit
  <2>5. \A i : rec(i) = GetAuctionKey(i) BY <1>5 DEF IdRecord
  <2>6. \A id \in Uint64 : Has(GetAuctionKey(id)) <=> id \in Ids
    BY <1>1 DEF StoreInv, AuctionsOk
  <2>7. H = {rec(i) : i \in 1..N}
    <3>1. ASSUME NEW key \in H PROVE key \in {rec(i) : i \in 1..N}
      BY <2>2, <2>3, <2>5, <2>6 DEF Has
    <3>2. ASSUME NEW i \in 1..N PROVE rec(i) \in H
      BY <1>2, <2>2, <2>3, <2>4, <2>5, <2>6 DEF Has
    <3> QED BY <3>1, <3>2
  <2>8. \A i \in 1..N : rec(i) \in Keys BY <1>2, <2>3, <2>5, KeysOfRecords
  <2>9. \A i, j \in 1..N : Before(rec(i), rec(j)) <=> i <= j
    BY <1>2, <2>3, <2>5, OrderOfKeys
  <2> QED BY <1>2, <1>3, <1>4, <2>3, <2>7, <2>8, <2>9
<1>6. CASE req.query = "Bids"
  <2>1. /\ Prefix(req) = BidKeyPrefix /\ req.isMatched = ""
        /\ req.auctionId \in Uint64
    BY <1>2, <1>3, <1>6, RequestIs DEF RequestKinds, AppendOnly
  <2> DEFINE B == {GetBidKey(id, k) : id, k \in Uint64}
  <2>2. S = B \cap DOMAIN kv
    <3> HIDE DEF H, N, rec
    <3>1. Found(BidKeyPrefix) = B \cap DOMAIN kv
      BY <1>1, StoreInvFinds DEF PrefixesAreExact
    <3> HIDE DEF B
    <3> QED BY <2>1, <3>1
  <2>3. N = GetLastBidId(req.auctionId) BY <1>6 DEF LastId
  <2>4. ASSUME NEW id \in Uint64, NEW k \in Uint64, Has(GetBidKey(id, k))
        PROVE  IsHit(req, GetBidKey(id, k)) <=> id = req.auctionId
    <3>1. kv[GetBidKey(id, k)].auctionId = id BY <2>4, BidsInUse
    <3>2. IsHit(req, GetBidKey(id, k)) <=> BidIsHit(req, GetBidKey(id, k))
      BY <1>3, <1>6 DEF IsHit
    <3> QED BY <2>1, <3>1, <3>2 DEF BidIsHit, Matches
  <2>5. \A i : rec(i) = GetBidKey(req.auctionId, i) BY <1>6 DEF IdRecord
  <2>6. \A k \in Uint64 : Has(GetBidKey(req.auctionId, k)) <=> k \in 1..N
    BY <1>1, <2>1, <2>3 DEF StoreInv, BidsOk
  <2>7. H = {rec(i) : i \in 1..N}
    <3>1. ASSUME NEW key \in H PROVE key \in {rec(i) : i \in 1..N}
      <4>1. PICK id \in Uint64, k \in Uint64 : key = GetBidKey(id, k) BY <2>2
      <4>2. Has(GetBidKey(id, k)) BY <2>2, <4>1 DEF Has
      <4>3. id = req.auctionId BY <2>4, <4>1, <4>2
      <4> QED BY <2>5, <2>6, <4>1, <4>2, <4>3
    <3>2. ASSUME NEW i \in 1..N PROVE rec(i) \in H
      <4>1. i \in Uint64 /\ Has(GetBidKey(req.auctionId, i))
        BY <1>2, <2>1, <2>3, <2>6
      <4>2. GetBidKey(req.auctionId, i) \in S
        <5> DEFINE a == req.auctionId
        <5>1. a \in Uint64 /\ i \in Uint64 BY <2>1, <4>1
        <5> HIDE DEF a
        <5>2. GetBidKey(a, i) \in B BY <5>1
        <5> HIDE DEF S, B
        <5> QED BY <2>2, <4>1, <5>2 DEF Has, a
      <4> QED BY <2>1, <2>4, <2>5, <4>1, <4>2
    <3> QED BY <3>1, <3>2
  <2>8. \A i \in 1..N : i \in Uint64 BY <1>2, <2>1, <2>3
  <2>9. \A i \in 1..N : rec(i) \in Keys BY <2>1, <2>5, <2>8, KeysOfRecords
  <2>10. \A i, j \in 1..N : Before(rec(i), rec(j)) <=> i <= j
    <3> SUFFICES ASSUME NEW i \in 1..N, NEW j \in 1..N
                 PROVE  Before(rec(i), rec(j)) <=> i <= j
      OBVIOUS
    <3>1. req.auctionId \in Nat BY <1>1, <2>1, IdsInUse DEF StoreInv
    <3>2. Before(GetBidKey(req.auctionId, i), GetBidKey(req.auctionId, j)) <=>
            \/ req.auctionId < req.auctionId
            \/ req.auctionId = req.auctionId /\ i <= j
      BY <2>1, <2>8, OrderOfKeys
    <3> QED BY <2>5, <3>1, <3>2
  <2>11. N \in Nat BY <1>2, <2>1, <2>3
  <2> QED BY <1>3, <1>4, <2>7, <2>9, <2>10, <2>11
<1> QED BY <1>5, <1>6 DEF AppendOnly

LEMMA AppendOnlyList ==
  ASSUME EntriesInv, NEW req \in Request, AppendOnly(req)
  PROVE  LET H == {key \in Found(Prefix(req)) : IsHit(req, key)}
         IN  InOrder(H) = [i \in 1..LastId(req) |-> IdRecord(req, i)]
<1> DEFINE H == {key \in Found(Prefix(req)) : IsHit(req, key)}
           N == LastId(req)
           f == [i \in 1..N |-> IdRecord(req, i)]
<1>1. /\ N \in Nat /\ H = {IdRecord(req, i) : i \in 1..N}
      /\ \A i, j \in 1..N :
           Before(IdRecord(req, i), IdRecord(req, j)) <=> i <= j
  BY AppendOnlyHits
<1>2. f \in Surjection(1..N, H) BY <1>1 DEF Surjection
<1>3. \A i, j \in 1..N : Before(f[i], f[j]) <=> i <= j BY <1>1
<1>4. /\ 1..N \in SUBSET Nat /\ IsFiniteSet(1..N) /\ Cardinality(1..N) = N
      /\ \A i \in 1..N : Nth(1..N, i) = i
  BY <1>1, NthOfInterval
<1>5. f = [i \in 1..N |-> f[i]] OBVIOUS
<1> DEFINE T == 1..N
<1>6. /\ T \in SUBSET Nat /\ IsFiniteSet(T) /\ f \in Surjection(T, H)
      /\ \A i, j \in T : Before(f[i], f[j]) <=> i <= j
  BY <1>2, <1>3, <1>4
<1> HIDE DEF H, f, T, N
<1>7. InOrder(H) = [i \in 1..Cardinality(T) |-> f[Nth(T, i)]] BY <1>6, Numbered
<1>8. InOrder(H) = [i \in 1..N |-> f[i]] BY <1>4, <1>7 DEF T
<1> QED BY <1>5, <1>8 DEF f, H, N

\* A page by its offset.
LEMMA OffsetWalkStep ==
  ASSUME EntriesInv, NEW w, w.req \in Request, AppendOnly(w.req), Observed(w),
         OffsetWalk(w), NEW page, page = FromOffset(w.req, w.offset)
  PROVE  IF page.nextKey = <<>> THEN WalkOk(WalkTo(w, page))
                                ELSE OffsetWalk(WalkTo(w, page))
<1> DEFINE v == WalkTo(w, page)
           req == w.req
           off == w.offset
           end == off + Limit
           N == LastId(req)
           rec(i) == IdRecord(req, i)
           hits == InOrder({key \in Found(Prefix(req)) : IsHit(req, key)})
           t == Take(hits, end)
           keys == From(t, off)
           m == IF end <= N THEN end ELSE N
<1>1. /\ Limit \in Nat \ {0} /\ N \in Nat /\ ~ByBidder(req)
      /\ Asked(req) = {rec(i) : i \in 1..N} /\ \A i \in 1..N : rec(i) \in Keys
      /\ \A i, j \in 1..N : Before(rec(i), rec(j)) <=> i <= j
  BY AppendOnlyHits, QueriesAssumption
<1>2. off \in 0..N /\ w.got = [i \in 1..off |-> rec(i)] BY DEF OffsetWalk
<1>3. hits = [i \in 1..N |-> rec(i)] BY AppendOnlyList
<1>4. /\ page.keys = keys
      /\ page.nextKey = IF Len(hits) > end THEN hits[end + 1] ELSE <<>>
  BY DEF FromOffset
<1> HIDE DEF hits, t, N, off, req, rec
<1>5. m \in off..N /\ end \in Nat /\ m <= end /\ (m = end \/ m = N)
  BY <1>1, <1>2
<1>6. hits \in Seq(Keys) /\ Len(hits) = N
  <2>1. hits \in [1..N -> Keys] BY <1>1, <1>3
  <2>2. hits \in Seq(Keys) BY <1>1, <2>1, SeqDef
  <2> QED BY <1>1, <2>1, <2>2, LenProperties
<1> HIDE DEF m, end
<1>7. t \in Seq(Keys) /\ Len(t) = m /\ \A i \in 1..m : t[i] = rec(i)
  <2>1. m \in Nat /\ m <= end /\ m <= Len(hits) /\ (m = end \/ m = Len(hits))
    BY <1>1, <1>2, <1>5, <1>6
  <2>2. t \in Seq(Keys) /\ Len(t) = m /\ \A i \in 1..m : t[i] = hits[i]
    BY <1>5, <1>6, <2>1, TakeIs DEF t
  <2>3. ASSUME NEW i \in 1..m PROVE t[i] = rec(i)
    <3>1. i \in 1..N BY <1>1, <1>2, <1>5
    <3>2. hits[i] = rec(i) BY <1>3, <3>1
    <3> QED BY <2>2, <3>2
  <2> QED BY <2>2, <2>3
<1>8. keys \in Seq(Keys) /\ Len(keys) = m - off
      /\ \A i \in 1..(m - off) : keys[i] = rec(off + i)
  <2>1. keys = SubSeq(t, off + 1, m) BY <1>7 DEF From
  <2>2. off + 1 \in 1..(m + 1) /\ m \in ((off + 1) - 1)..m BY <1>1, <1>2, <1>5
  <2>3. /\ SubSeq(t, off + 1, m) \in Seq(Keys)
        /\ Len(SubSeq(t, off + 1, m)) = (m - (off + 1)) + 1
        /\ \A i \in 1..((m - (off + 1)) + 1) :
             SubSeq(t, off + 1, m)[i] = t[((off + 1) + i) - 1]
    BY <1>7, <2>2, SubSeqProperties
  <2>4. (m - (off + 1)) + 1 = m - off BY <1>1, <1>2, <1>5
  <2> HIDE DEF keys
  <2>5. ASSUME NEW i \in 1..(m - off) PROVE keys[i] = rec(off + i)
    <3>1. off + i \in 1..m /\ ((off + 1) + i) - 1 = off + i BY <1>1, <1>2, <1>5
    <3> QED BY <1>7, <2>1, <2>3, <2>4, <3>1
  <2> QED BY <2>1, <2>3, <2>4, <2>5
<1> DEFINE add == [i \in 1..Len(keys) |-> RecordOf(req, keys[i])]
           got == w.got \o add
<1>9. /\ v.req = req /\ v.got = got /\ v.offset = end
      /\ v.steady = w.steady /\ v.touched = w.touched
  BY <1>4 DEF WalkTo, req, end, off
<1> HIDE DEF v, keys
<1>10. add \in Seq(Keys) /\ Len(add) = m - off
       /\ \A i \in 1..(m - off) : add[i] = rec(off + i)
  <2>1. \A i \in 1..(m - off) : add[i] = keys[i] BY <1>1, <1>8 DEF RecordOf
  <2>2. add = [i \in 1..(m - off) |-> add[i]] BY <1>8
  <2>3. m - off \in Nat BY <1>1, <1>2, <1>5
  <2>4. keys \in [1..(m - off) -> Keys] BY <1>8, LenProperties
  <2> HIDE DEF add
  <2>5. add \in [1..(m - off) -> Keys] BY <2>1, <2>2, <2>4
  <2>6. add \in Seq(Keys) BY <2>3, <2>5, SeqDef
  <2>7. Len(add) = m - off BY <2>3, <2>5, <2>6, LenProperties
  <2> QED BY <1>8, <2>1, <2>6, <2>7
<1> HIDE DEF add
<1>11. w.got \in Seq(Keys) /\ Len(w.got) = off /\ \A i \in 1..off : w.got[i] = rec(i)
  <2> DEFINE old == w.got
  <2>1. off \in Nat /\ \A i \in 1..off : rec(i) \in Keys BY <1>1, <1>2
  <2>2. old = [i \in 1..off |-> rec(i)] BY <1>2
  <2> HIDE DEF old
  <2>3. old \in [1..off -> Keys] BY <2>1, <2>2
  <2>4. old \in Seq(Keys) BY <2>1, <2>3, SeqDef
  <2>5. Len(old) = off BY <2>1, <2>3, <2>4, LenProperties
  <2> QED BY <2>2, <2>4, <2>5 DEF old
<1>12. got = [i \in 1..m |-> rec(i)]
  <2> DEFINE old == w.got
             u == old \o add
  <2>1. old \in Seq(Keys) /\ Len(old) = off /\ \A i \in 1..off : old[i] = rec(i)
    BY <1>11
  <2> HIDE DEF old
  <2>2. /\ u \in Seq(Keys) /\ Len(u) = off + (m - off)
        /\ \A i \in 1..(off + (m - off)) :
             u[i] = IF i <= off THEN old[i] ELSE add[i - off]
    <3>1. old \in Seq(Keys) /\ add \in Seq(Keys) BY <1>10, <2>1
    <3>2. /\ old \o add \in Seq(Keys) /\ Len(old \o add) = Len(old) + Len(add)
          /\ \A i \in 1..(Len(old) + Len(add)) :
               (old \o add)[i] = IF i <= Len(old) THEN old[i] ELSE add[i - Len(old)]
      BY <3>1, ConcatProperties
    <3> QED BY <1>10, <2>1, <3>2
  <2>3. off + (m - off) = m BY <1>1, <1>2, <1>5
  <2> HIDE DEF u
  <2>4. ASSUME NEW i \in 1..m PROVE u[i] = rec(i)
    <3>1. CASE i <= off BY <1>1, <1>2, <1>5, <2>1, <2>2, <2>3, <3>1
    <3>2. CASE i > off
      <4>1. i - off \in 1..(m - off) /\ off + (i - off) = i /\ ~(i <= off)
        BY <1>1, <1>2, <1>5, <3>2
      <4> QED BY <1>10, <2>2, <2>3, <4>1
    <3> QED BY <1>1, <1>2, <1>5, <3>1, <3>2
  <2>5. u = [i \in 1..m |-> rec(i)]
    <3>1. DOMAIN u = 1..m BY <2>2, <2>3, LenProperties
    <3>2. u = [i \in DOMAIN u |-> u[i]] BY <2>2, <2>3, LenProperties
    <3> QED BY <2>4, <3>1, <3>2
  <2> QED BY <2>5 DEF u, old
<1> HIDE DEF got
<1>13. CASE N > end
  <2>1. end + 1 \in 1..N /\ m = end BY <1>1, <1>5, <1>13
  <2>2. page.nextKey = rec(end + 1) BY <1>3, <1>4, <1>6, <1>13, <2>1
  <2>3. page.nextKey # <<>>
    <3>1. page.nextKey \in Keys BY <1>1, <2>1, <2>2
    <3> QED BY <3>1, KeyKinds
  <2>4. OffsetWalk(v)
    <3>1. end \in 0..LastId(v.req) BY <1>1, <1>5, <1>9, <1>13 DEF N
    <3>2. v.got = [i \in 1..end |-> IdRecord(v.req, i)]
      BY <1>9, <1>12, <2>1 DEF rec
    <3> QED BY <1>9, <3>1, <3>2 DEF OffsetWalk
  <2> QED BY <2>3, <2>4 DEF v
<1>14. CASE ~(N > end)
  <2>1. m = N BY <1>1, <1>5, <1>14
  <2>2. page.nextKey = <<>> BY <1>4, <1>6, <1>14
  <2>3. ToSet(got) = Asked(req) BY <1>1, <1>12, <2>1 DEF ToSet
  <2>4. IsInjective(got)
    <3>1. \A i, j \in 1..N : rec(i) = rec(j) => i = j
      <4> SUFFICES ASSUME NEW i \in 1..N, NEW j \in 1..N, rec(i) = rec(j)
                   PROVE  i = j
        OBVIOUS
      <4>1. i <= i /\ j <= j OBVIOUS
      <4>2. i <= j /\ j <= i BY <1>1, <4>1
      <4> QED BY <4>2
    <3> QED BY <1>12, <2>1, <3>1 DEF IsInjective
  <2>5. WalkOk(v) BY <1>9, <2>3, <2>4 DEF WalkOk, Observed, req
  <2> QED BY <2>2, <2>5 DEF v
<1> QED BY <1>13, <1>14

-----------------------------------------------------------------------------
(***************************************************************************)
(* The invariant of a walk.                                                *)
(***************************************************************************)

\* A walk that has not read the last page.
Reading(w) ==
  /\ Observed(w)
  /\ w.style = "key" => KeyWalk(w)
  /\ w.style # "key" /\ AppendOnly(w.req) => OffsetWalk(w)

Walked(w) ==
  /\ w = [state |-> w.state, req |-> w.req, style |-> w.style, got |-> w.got,
          next |-> w.next, offset |-> w.offset, steady |-> w.steady,
          touched |-> w.touched]
  /\ w.state \in {"reading", "done"} /\ w.req \in Request
  /\ w.state = "done" /\ (w.style = "key" \/ AppendOnly(w.req)) => WalkOk(w)
  /\ w.state = "reading" => Reading(w)

WalkInv == walk = NoWalk \/ Walked(walk)

\* The next page: the walk is done, or goes on.
LEMMA PageIsWalked ==
  ASSUME EntriesInv, NEW w, w.req \in Request, Reading(w), NEW page,
         w.style = "key" => PageIs(w.req, w.next, page),
         w.style # "key" => page = FromOffset(w.req, w.offset)
  PROVE  Walked(WalkTo(w, page))
<1> DEFINE v == WalkTo(w, page)
<1>1. /\ v = [state |-> v.state, req |-> v.req, style |-> v.style,
              got |-> v.got, next |-> v.next, offset |-> v.offset,
              steady |-> v.steady, touched |-> v.touched]
      /\ v.state = IF page.nextKey = <<>> THEN "done" ELSE "reading"
      /\ v.req = w.req /\ v.style = w.style
      /\ v.steady = w.steady /\ v.touched = w.touched
  BY DEF WalkTo
<1>2. Observed(v) BY <1>1 DEF Reading, Observed
<1>3. w.style = "key" => IF page.nextKey = <<>> THEN WalkOk(v) ELSE KeyWalk(v)
  BY KeyWalkStep DEF Reading
<1>4. w.style # "key" /\ AppendOnly(w.req) =>
        IF page.nextKey = <<>> THEN WalkOk(v) ELSE OffsetWalk(v)
  BY OffsetWalkStep DEF Reading
<1> HIDE DEF v
<1>5. v.state = "done" /\ (v.style = "key" \/ AppendOnly(v.req)) => WalkOk(v)
  BY <1>1, <1>3, <1>4
<1>6. v.state = "reading" => Reading(v) BY <1>1, <1>2, <1>3, <1>4 DEF Reading
<1>7. v.state \in {"reading", "done"} BY <1>1
<1>8. Walked(v) BY <1>1, <1>5, <1>6, <1>7 DEF Walked
<1> QED BY <1>8 DEF v

LEMMA WalkStarts ==
  ASSUME EntriesInv, NEW req \in Request, NEW style
  PROVE  Reading([state |-> "reading", req |-> req, style |-> style,
                  got |-> <<>>, next |-> <<>>, offset |-> 0,
                  steady |-> Asked(req), touched |-> Asked(req)])
<1> DEFINE w == [state |-> "reading", req |-> req, style |-> style,
                 got |-> <<>>, next |-> <<>>, offset |-> 0,
                 steady |-> Asked(req), touched |-> Asked(req)]
           e == <<>>
<1>1. /\ w.req = req /\ w.style = style /\ w.got = e /\ w.next = e
      /\ w.offset = 0 /\ w.steady = Asked(req) /\ w.touched = Asked(req)
  OBVIOUS
<1>2. e \in Seq(Nat) /\ e \in Seq(Keys) /\ Len(e) = 0 OBVIOUS
<1>3. ToSet(e) = {} BY DEF ToSet
<1>4. \A key \in Keys : Before(e, key) BY EmptyIsFirst, KeyKinds
<1>5. AppendOnly(req) => e = [i \in 1..0 |-> IdRecord(req, i)] OBVIOUS
<1>6. AppendOnly(req) => LastId(req) \in Nat BY AppendOnlyHits
<1> HIDE DEF w, e
<1>7. Observed(w) BY <1>1 DEF Observed
<1>8. KeyWalk(w) BY <1>1, <1>2, <1>3, <1>4 DEF KeyWalk
<1>9. AppendOnly(req) => OffsetWalk(w) BY <1>1, <1>5, <1>6 DEF OffsetWalk
<1>10. Reading(w) BY <1>1, <1>7, <1>8, <1>9 DEF Reading
<1> QED BY <1>10 DEF w

\* A page does not change what is asked for.
LEMMA NothingWritten ==
  ASSUME UNCHANGED kv, NEW req
  PROVE  Asked(req)' = Asked(req) /\ LastId(req)' = LastId(req)
<1>1. Asked(req)' = Asked(req) BY DEF Asked, AuctionIsHit, Matches
<1>2. LastId(req)' = LastId(req)
  BY DEF LastId, GetLastAuctionId, GetLastBidId, Number, Has
<1> QED BY <1>1, <1>2

LEMMA WalkedLater ==
  ASSUME UNCHANGED kv, NEW w, Walked(w)
  PROVE  Walked(w)'
<1>1. Asked(w.req)' = Asked(w.req) /\ LastId(w.req)' = LastId(w.req)
  BY NothingWritten
<1>2. Observed(w) => Observed(w)' BY <1>1 DEF Observed
<1>3. KeyWalk(w) => KeyWalk(w)' BY DEF KeyWalk
<1>4. OffsetWalk(w) => OffsetWalk(w)' BY <1>1 DEF OffsetWalk
<1>5. Reading(w) => Reading(w)' BY <1>2, <1>3, <1>4 DEF Reading
<1> QED BY <1>5 DEF Walked

\* A write between two pages: the records asked for are asked for anew, and a list
\* that grows at its end keeps what stands before.
LEMMA WriteKeepsReading ==
  ASSUME EntriesInv, [Write]_kv, NEW w, w.req \in Request, Reading(w), NEW v,
         v.req = w.req, v.style = w.style, v.got = w.got, v.next = w.next,
         v.offset = w.offset, v.steady = w.steady \cap Asked(w.req)',
         v.touched = w.touched \cup Asked(w.req)'
  PROVE  Reading(v)'
<1> DEFINE asked == Asked(w.req)'
<1>1. v.steady \subseteq asked /\ asked \subseteq v.touched OBVIOUS
<1>2. v.steady \subseteq w.steady /\ w.touched \subseteq v.touched OBVIOUS
<1>3. Observed(v)' BY <1>1 DEF Observed
<1> HIDE DEF asked
<1>4. w.style = "key" => KeyWalk(v)'
  <2> SUFFICES ASSUME KeyWalk(w) PROVE KeyWalk(v)' BY DEF Reading
  <2>1. \A rec \in ToSet(v.got) :
          /\ rec \in v.touched
          /\ \E key \in Keys : StandsFor(v.req, key, rec) /\ ~Before(v.next, key)
    BY <1>2 DEF KeyWalk
  <2>2. \A rec \in v.steady, key \in Keys :
          StandsFor(v.req, key, rec) => Before(v.next, key) \/ rec \in ToSet(v.got)
    BY <1>2 DEF KeyWalk
  <2> QED BY <2>1, <2>2 DEF KeyWalk
<1>5. w.style # "key" /\ AppendOnly(w.req) => OffsetWalk(v)'
  <2> SUFFICES ASSUME OffsetWalk(w), AppendOnly(w.req) PROVE OffsetWalk(v)'
    BY DEF Reading
  <2>1. StoreInv BY DEF EntriesInv
  <2>2. /\ LastId(w.req) \in Nat /\ LastId(w.req)' \in Nat
        /\ LastId(w.req) <= LastId(w.req)'
    <3>1. CASE w.req.query = "Auctions" BY <2>1, <3>1, NumbersGrow DEF LastId
    <3>2. CASE w.req.query = "Bids"
      <4> DEFINE id == w.req.auctionId
      <4>1. id \in AuctionIds BY <3>2, RequestIs DEF RequestKinds
      <4>2. id \in Uint64 BY <2>1, <4>1, IdsInUse DEF StoreInv
      <4> HIDE DEF id
      <4>3. /\ GetLastBidId(id) \in Nat /\ GetLastBidId(id)' \in Nat
            /\ GetLastBidId(id) <= GetLastBidId(id)'
        BY <2>1, <4>2, NumbersGrow
      <4> QED BY <3>2, <4>3 DEF LastId, id
    <3> QED BY <3>1, <3>2 DEF AppendOnly
  <2>3. w.offset \in 0..LastId(w.req) BY DEF OffsetWalk
  <2>4. w.offset \in 0..LastId(w.req)' BY <2>2, <2>3
  <2> QED BY <2>4 DEF OffsetWalk
<1> QED BY <1>3, <1>4, <1>5 DEF Reading

LEMMA WalkInvInit == QueryInit => EntriesInv /\ WalkInv
BY EntriesInvInit DEF QueryInit, WalkInv

LEMMA WalkInvStep ==
  EntriesInv /\ WalkInv /\ [QueryNext]_queryVars => EntriesInv' /\ WalkInv'
<1> SUFFICES ASSUME EntriesInv, WalkInv, [QueryNext]_queryVars
             PROVE  EntriesInv' /\ WalkInv'
  OBVIOUS
<1>1. [Write]_kv
  BY DEF QueryNext, WriteBetween, StartWalk, NextPage, queryVars
<1>2. EntriesInv' BY <1>1, EntriesInvStep
<1>3. ASSUME WriteBetween PROVE WalkInv'
  <2>1. CASE walk.state # "reading" BY <1>3, <2>1 DEF WriteBetween, WalkInv
  <2>2. CASE walk.state = "reading"
    <3>1. PICK req \in {walk.req} :
                 walk' = [walk EXCEPT !.steady = @ \cap Asked(req)',
                                      !.touched = @ \cup Asked(req)']
      BY <1>3, <2>2 DEF WriteBetween
    <3>2. Walked(walk) BY <2>2 DEF WalkInv, NoWalk
    <3>3. ASSUME NEW w, w = walk, NEW v, v = walk', NEW A, A = Asked(req)'
          PROVE  WalkInv'
      <4>1. Walked(w) /\ w.state = "reading" /\ w.req = req
        BY <2>2, <3>2, <3>3
      <4>2. v = [w EXCEPT !.steady = @ \cap A, !.touched = @ \cup A]
        BY <3>1, <3>3
      <4>3. /\ v = [state |-> v.state, req |-> v.req, style |-> v.style,
                    got |-> v.got, next |-> v.next, offset |-> v.offset,
                    steady |-> v.steady, touched |-> v.touched]
            /\ v.state = w.state /\ v.req = w.req /\ v.style = w.style
            /\ v.got = w.got /\ v.next = w.next /\ v.offset = w.offset
            /\ v.steady = w.steady \cap A /\ v.touched = w.touched \cup A
        BY <4>1, <4>2 DEF Walked
      <4>4. w.req \in Request /\ Reading(w) BY <4>1 DEF Walked
      <4>5. A = Asked(w.req)' BY <3>3, <4>1
      <4>6. Reading(v)' BY <1>1, <4>3, <4>4, <4>5, WriteKeepsReading
      <4>7. Walked(v)' BY <4>1, <4>3, <4>4, <4>6 DEF Walked
      <4>8. walk' = v BY <3>3
      <4> QED BY <4>7, <4>8 DEF WalkInv
    <3> QED BY <3>3
  <2> QED BY <2>1, <2>2
<1>4. ASSUME NEW client \in Clients, StartWalk(client[1], client[2])
      PROVE  WalkInv'
  <2> DEFINE req == client[1]
             style == client[2]
             w == [state |-> "reading", req |-> req, style |-> style,
                   got |-> <<>>, next |-> <<>>, offset |-> 0,
                   steady |-> Asked(req), touched |-> Asked(req)]
             page == FromOffset(req, 0)
  <2>1. req \in Request BY QueriesAssumption
  <2>2. Reading(w) BY <2>1, WalkStarts
  <2>3. PageIs(req, <<>>, page) BY FirstPage
  <2>4. /\ w.req = req /\ w.next = <<>> /\ w.offset = 0 /\ w.style = style
    OBVIOUS
  <2>5. walk' = WalkTo(w, page) /\ UNCHANGED kv BY <1>4 DEF StartWalk
  <2> HIDE DEF w, page, req
  <2>6. w.style # "key" => page = FromOffset(w.req, w.offset)
    BY <2>4 DEF page
  <2>7. Walked(WalkTo(w, page)) BY <2>1, <2>2, <2>3, <2>4, <2>6, PageIsWalked
  <2>8. ASSUME NEW v, v = walk' PROVE WalkInv'
    <3>1. Walked(v) BY <2>5, <2>7, <2>8
    <3>2. Walked(v)' BY <2>5, <3>1, WalkedLater
    <3> QED BY <2>8, <3>2 DEF WalkInv
  <2> QED BY <2>8
<1>5. ASSUME NextPage PROVE WalkInv'
  <2> DEFINE page == IF walk.style = "key" THEN FromKey(walk.req, walk.next)
                     ELSE FromOffset(walk.req, walk.offset)
  <2>1. walk.state = "reading" /\ walk' = WalkTo(walk, page) /\ UNCHANGED kv
    BY <1>5 DEF NextPage
  <2>2. Walked(walk) BY <2>1 DEF WalkInv, NoWalk
  <2>3. walk.req \in Request /\ Reading(walk) BY <2>1, <2>2 DEF Walked
  <2>4. walk.style = "key" => PageIs(walk.req, walk.next, page)
    BY <2>3, KeyPage DEF Reading, KeyWalk
  <2>5. walk.style # "key" => page = FromOffset(walk.req, walk.offset) OBVIOUS
  <2> HIDE DEF page
  <2>6. Walked(WalkTo(walk, page)) BY <2>3, <2>4, <2>5, PageIsWalked
  <2>7. ASSUME NEW v, v = walk' PROVE WalkInv'
    <3>1. Walked(v) BY <2>1, <2>6, <2>7
    <3>2. Walked(v)' BY <2>1, <3>1, WalkedLater
    <3> QED BY <2>7, <3>2 DEF WalkInv
  <2> QED BY <2>7
<1>6. ASSUME UNCHANGED queryVars PROVE WalkInv'
  <2>1. walk' = walk /\ UNCHANGED kv BY <1>6 DEF queryVars
  <2>2. CASE walk = NoWalk BY <2>1, <2>2 DEF WalkInv
  <2>3. ASSUME NEW v, v = walk, Walked(walk) PROVE WalkInv'
    <3>1. Walked(v)' BY <2>1, <2>3, WalkedLater
    <3> QED BY <2>1, <2>3, <3>1 DEF WalkInv
  <2> QED BY <2>2, <2>3 DEF WalkInv
<1> QED BY <1>2, <1>3, <1>4, <1>5, <1>6 DEF QueryNext

LEMMA WalkInvExact == WalkInv => WalkIsExact
BY DEF WalkInv, Walked, WalkOk, WalkIsExact, NoWalk

\* keeper/grpc_query.go and the SDK's FilteredPaginate: for any page size, store and
\* number of writes between two pages, a client who follows the next key to the end,
\* or counts offsets in a list that grows at its end, has every record that was
\* asked for all the time, none twice, and none that was never asked for.
THEOREM WalksAreExact == QuerySpec => []WalkIsExact
BY WalkInvInit, WalkInvStep, WalkInvExact, PTL DEF QuerySpec

\* keeper/grpc_query.go: the queries read a store that the handlers write, so that
\* what holds of the store holds while clients read it.
THEOREM QueriesOnlyRead == QuerySpec => Spec
<1>1. QueryInit => Init BY DEF QueryInit
<1>2. [QueryNext]_queryVars => [Next]_kv
  BY DEF QueryNext, WriteBetween, StartWalk, NextPage, queryVars, Next
<1> QED BY <1>1, <1>2, PTL DEF QuerySpec, Spec
=============================================================================
