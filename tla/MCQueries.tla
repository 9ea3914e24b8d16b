----------------------------- MODULE MCQueries -----------------------------
(***************************************************************************)
(* Clients of the store of MCStore, who read pages of one record.          *)
(***************************************************************************)
EXTENDS MCStore, Queries

\* Auctions by type and status, bids by auction, by auction and match, by bidder
\* and match, and allowed bidders.
Auctions(type, status) ==
  [query |-> "Auctions", type |-> type, status |-> status]
AllowedBidders(id) == [query |-> "AllowedBidders", auctionId |-> id]
Bids(id, bidder, isMatched) ==
  [query |-> "Bids", auctionId |-> id, bidder |-> bidder,
   isMatched |-> isMatched]

MCClients ==
  {<<Auctions("", ""), "offset">>,
   <<Auctions("Batch", "Started"), "key">>,
   <<AllowedBidders(1), "key">>,
   <<Bids(1, <<>>, ""), "offset">>,
   <<Bids(2, <<>>, "false"), "key">>,
   <<Bids(1, <<1>>, "true"), "key">>,
   <<Bids(1, <<1, 0>>, "malformed"), "key">>}
=============================================================================
