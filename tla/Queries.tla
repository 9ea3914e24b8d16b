------------------------------ MODULE Queries ------------------------------
(***************************************************************************)
(* The paginated queries (keeper/grpc_query.go) over the store.  A client  *)
(* reads a list page by page, and between two pages the chain goes on: the *)
(* handlers write to the store the pages are cut from.  The client asks    *)
(* for the next page either with the key that the last one returned or     *)
(* with an offset, the number of results it has asked for so far.          *)
(*                                                                         *)
(* The queries for one record are a lookup of Store and have no state.     *)
(***************************************************************************)
EXTENDS Store

CONSTANTS
  Limit,     \* the results of a page
  Clients    \* clients: the request they make, and how they ask for pages

(***************************************************************************)
(* A request for auctions by type and status, for the allowed bidders of   *)
(* an auction, or for bids.  An empty string, or address, is no filter.    *)
(***************************************************************************)
Request ==
  [query : {"Auctions"}, type : {"", "FixedPrice", "Batch"},
   status : {"", "StandBy", "Started", "Vesting", "Finished", "Cancelled"}]
  \cup [query : {"AllowedBidders"}, auctionId : 1..MaxAuctions]
  \cup [query : {"Bids"}, auctionId : 1..MaxAuctions,
        bidder : Addresses \cup {<<>>},
        isMatched : {"", "true", "false", "malformed"}]

ASSUME QueriesAssumption == 
  /\ Limit \in Nat \ {0}
  /\ Clients \subseteq Request \X {"key", "offset"}

VARIABLE
  walk  \* the pages a client has read, and what it could expect of them

queryVars == <<kv, walk>>

-----------------------------------------------------------------------------
(***************************************************************************)
(* A page.                                                                 *)
(***************************************************************************)
ByBidder(req) == req.query = "Bids" /\ req.bidder # <<>>

\* The part of the store a query iterates.
Prefix(req) ==
  CASE req.query = "Auctions" -> AuctionKeyPrefix
    [] req.query = "AllowedBidders" ->
         GetAllowedBiddersByAuctionKeyPrefix(req.auctionId)
    [] ByBidder(req) -> GetBidIndexByBidderPrefix(req.bidder)
    [] OTHER -> BidKeyPrefix

Matches(bid, req) == req.isMatched # "" => bid.isMatched = (req.isMatched = "true")

AuctionIsHit(req, key) ==
  /\ req.type # "" => kv[key].type = req.type
  /\ req.status # "" => kv[key].status = req.status

\* Mutant: the bids of other auctions are hits, too.
BidIsHitOfAnyAuction(req, key) == Matches(kv[key], req)

\* queryAllBids and queryBidsByIsMatched.
BidIsHit(req, key) == kv[key].auctionId = req.auctionId /\ Matches(kv[key], req)

\* queryBidsByBidder: the bid the index entry stands for.  The store of the index
\* hides the prefix of its keys.
IndexedBid(req, key) ==
  LET ids == SplitAuctionIdBidIdKey(From(key, Len(Prefix(req))))
  IN  GetBid(ids[1], ids[2])

IndexIsHit(req, key) ==
  LET bid == IndexedBid(req, key) IN bid.bidder = req.bidder /\ Matches(bid, req)

IsHit(req, key) ==
  CASE req.query = "Auctions" -> AuctionIsHit(req, key)
    [] req.query = "AllowedBidders" -> TRUE
    [] ByBidder(req) -> IndexIsHit(req, key)
    [] OTHER -> BidIsHit(req, key)

\* The key of the record that a hit adds to the page.
RecordOf(req, key) ==
  IF ByBidder(req)
    THEN LET bid == IndexedBid(req, key) IN GetBidKey(bid.auctionId, bid.id)
    ELSE key

\* The auction is missing, or isMatched does not parse: with a bidder it is parsed
\* when the first of their bids is visited.
Fails(req) ==
  \/ req.query # "Auctions" /\ ~Has(GetAuctionKey(req.auctionId))
  \/ /\ req.query = "Bids"
     /\ req.isMatched = "malformed"
     /\ ByBidder(req) => KVStorePrefixIterator(Prefix(req)) # <<>>

Take(keys, n) == SubSeq(keys, 1, Min({n, Len(keys)}))

\* query.FilteredPaginate with a key: records are read from that key on until there
\* are Limit hits; the next key is the one after the last hit, a hit or not.
FromKey(req, start) ==
  LET found == {key \in Found(Prefix(req)) : Before(start, key)}
      hits == InOrder({key \in found : IsHit(req, key)})
      rest == InOrder({key \in found : ~Before(key, hits[Limit])})
  IN  [keys |-> Take(hits, Limit),
       nextKey |-> IF Len(hits) >= Limit /\ rest # <<>> THEN rest[1] ELSE <<>>]

\* query.FilteredPaginate with an offset, which counts hits: the next key is the
\* first hit after the page.
FromOffset(req, offset) ==
  LET hits == InOrder({key \in Found(Prefix(req)) : IsHit(req, key)})
      end == offset + Limit
  IN  [keys |-> From(Take(hits, end), offset),
       nextKey |-> IF Len(hits) > end THEN hits[end + 1] ELSE <<>>]

-----------------------------------------------------------------------------
(***************************************************************************)
(* A client reads all pages.                                               *)
(***************************************************************************)

\* The records a request is for: a bidder's are those of all auctions.
Asked(req) ==
  {key \in DOMAIN kv :
     CASE req.query = "Auctions" ->
            IsPrefix(AuctionKeyPrefix, key) /\ AuctionIsHit(req, key)
       [] req.query = "AllowedBidders" ->
            key \in {GetAllowedBidderKey(req.auctionId, a) : a \in Addresses}
       [] OTHER ->
            /\ key \in {GetBidKey(id, k) : id \in AuctionIds, k \in 1..MaxBids}
            /\ Matches(kv[key], req)
            /\ IF ByBidder(req) THEN kv[key].bidder = req.bidder
               ELSE key \in {GetBidKey(req.auctionId, k) : k \in 1..MaxBids}}

\* A list that only grows, and only at its end.
AppendOnly(req) ==
  \/ req.query = "Auctions" /\ req.type = "" /\ req.status = ""
  \/ req.query = "Bids" /\ req.bidder = <<>> /\ req.isMatched = ""

NoWalk == [state |-> "idle"]

\* The walk w with one more page.
WalkTo(w, page) ==
  [state |-> IF page.nextKey = <<>> THEN "done" ELSE "reading",
   req |-> w.req,
   style |-> w.style,
   got |-> w.got \o [i \in 1..Len(page.keys) |-> RecordOf(w.req, page.keys[i])],
   next |-> page.nextKey,
   offset |-> w.offset + Limit,
   steady |-> w.steady,
   touched |-> w.touched]

\* The first page; `steady` are the records asked for all the time since then,
\* `touched` those asked for at some time.
StartWalk(req, style) ==
  /\ walk.state = "idle"
  /\ ~Fails(req)
  /\ walk' = WalkTo([state |-> "reading", req |-> req, style |-> style,
                     got |-> <<>>, next |-> <<>>, offset |-> 0,
                     steady |-> Asked(req), touched |-> Asked(req)],
                    FromOffset(req, 0))
  /\ UNCHANGED kv

NextPage ==
  /\ walk.state = "reading"
  /\ walk' = WalkTo(walk,
                    IF walk.style = "key" THEN FromKey(walk.req, walk.next)
                                          ELSE FromOffset(walk.req, walk.offset))
  /\ UNCHANGED kv

\* A handler runs between two pages.
WriteBetween ==
  /\ Write
  /\ IF walk.state # "reading" THEN walk' = NoWalk
     ELSE \E req \in {walk.req} :
            walk' = [walk EXCEPT !.steady = @ \cap Asked(req)',
                                 !.touched = @ \cup Asked(req)']

QueryInit == Init /\ walk = NoWalk

QueryNext ==
  \/ WriteBetween
  \/ \E client \in Clients : StartWalk(client[1], client[2])
  \/ NextPage

QuerySpec == QueryInit /\ [][QueryNext]_queryVars

-----------------------------------------------------------------------------
\* When a client has read all pages it has every record that was asked for all the
\* time, none twice, and none that was never asked for, whatever the handlers
\* wrote in between; with offsets only for a list that grows at its end, because
\* any other change of the list moves the records the offsets count.
WalkIsExact ==
  walk.state = "done" /\ (walk.style = "key" \/ AppendOnly(walk.req)) =>
    /\ IsInjective(walk.got)
    /\ ToSet(walk.got) \subseteq walk.touched
    /\ walk.steady \subseteq ToSet(walk.got)
=============================================================================
