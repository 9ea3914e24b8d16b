------------------------------- MODULE Hooks -------------------------------
(***************************************************************************)
(* The hooks (keeper/hooks.go, types/hooks.go): the keeper calls every     *)
(* registered module, and that is all such a module is told.  A listener   *)
(* here keeps what it hears: the auctions by their id, the auctions that   *)
(* are cancelled, the terms of every bid, the maximum bid amounts, and the *)
(* allocation and refund announced before coins are paid.                  *)
(*                                                                         *)
(* The hooks that are called before an auction is stored carry the values  *)
(* of those called after it, but no id; the one for allowed bidders        *)
(* carries no auction id either, so that the listener only knows the list. *)
(***************************************************************************)
EXTENDS FundraisingProperties

CONSTANT Listeners  \* the registered modules (none: hooks is nil)

VARIABLE seen       \* what every listener has heard

Nothing == [x \in {} |-> x]

View == [auctions |-> Nothing, cancelled |-> {}, bids |-> Nothing,
         limits |-> Nothing, lists |-> {}, announced |-> Nothing]

\* The map with this value at this key, whether the key was there or not.
Put(map, key, value) ==
  [x \in DOMAIN map \cup {key} |-> IF x = key THEN value ELSE map[x]]

HooksInit == seen = [l \in Listeners |-> View]

\* MultiFundraisingHooks: the listeners are called one after the other.
Call(hook(_)) == seen' = [l \in Listeners |-> hook(seen[l])]

\* The terms of a bid that are passed on; isMatched is not.
Terms(bid) ==
  [bidder |-> bid.bidder, type |-> bid.type, price |-> bid.price,
   denom |-> bid.denom, amount |-> bid.amount]

AfterAuctionCreated(id, m) ==
  Call(LAMBDA v : [v EXCEPT !.auctions = Put(@, id, m)])

BeforeAuctionCanceled(id) ==
  Call(LAMBDA v : [v EXCEPT !.cancelled = @ \cup {id}])

BeforeBidPlaced(id, k, bid) ==
  Call(LAMBDA v : [v EXCEPT !.bids = Put(@, <<id, k>>, Terms(bid))])

\* Mutant: the hook is called before the bid has its new price and amount.
BeforeBidModifiedTooEarly(id, k, price, amount) ==
  Call(LAMBDA v : [v EXCEPT !.bids =
    Put(@, <<id, k>>, Terms(bids[id][k]))])

\* Called when the bid has its new price and amount, and is not stored yet.
BeforeBidModified(id, k, price, amount) ==
  Call(LAMBDA v : [v EXCEPT !.bids =
    Put(@, <<id, k>>,
        Terms([bids[id][k] EXCEPT !.price = price, !.amount = amount]))])

\* Called before the entries are validated.
BeforeAllowedBiddersAdded(list) ==
  Call(LAMBDA v : [v EXCEPT !.lists = @ \cup {list}])

BeforeAllowedBidderUpdated(id, bidder, max) ==
  Call(LAMBDA v : [v EXCEPT !.limits = Put(@, <<id, bidder>>, max)])

\* Mutant: the refunds are calculated after the hook is called.
BeforeRefundsKnown(id, allocation, refund) ==
  Call(LAMBDA v : [v EXCEPT !.announced =
    Put(@, id, [allocation |-> allocation, refund |-> NoRefund])])

BeforeSellingCoinsAllocated(id, allocation, refund) ==
  Call(LAMBDA v : [v EXCEPT !.announced =
    Put(@, id, [allocation |-> allocation, refund |-> refund])])

NoHook == UNCHANGED seen

-----------------------------------------------------------------------------
\* A listener that only hears the hooks has the auctions, the cancellations and the
\* book of bids that the keeper has, under the same ids and with the terms they
\* have now, after any sequence of messages, blocks and restarts.
MirrorIsExact ==
  \A l \in Listeners :
    /\ seen[l].auctions = [id \in Ids |-> Msg(id)]
    /\ seen[l].cancelled = {id \in Ids : Status(id) = "Cancelled"}
    /\ DOMAIN seen[l].bids = UNION {{id} \X (1..Len(bids[id])) : id \in Ids}
    /\ \A b \in DOMAIN seen[l].bids : seen[l].bids[b] = Terms(bids[b[1]][b[2]])

\* What is announced to the listeners is what the bidders get: an auction is
\* settled only after its allocation and refunds were announced, and then every
\* bidder receives exactly those.  The auctioneer also receives what is left.
AnnouncedIsPaid ==
  [][\A id \in Ids, l \in Listeners :
       Status(id) = "Started" /\ Settled(id)' =>
         /\ id \in DOMAIN seen'[l].announced
         /\ \A u \in Users \ {Msg(id).auctioneer} :
              /\ Gain(u, Msg(id).sellingDenom) =
                   seen'[l].announced[id].allocation[u]
              /\ Gain(u, Msg(id).payingDenom) =
                   seen'[l].announced[id].refund[u]]_<<vars, seen>>
=============================================================================
