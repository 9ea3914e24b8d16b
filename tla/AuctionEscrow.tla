---------------------------- MODULE AuctionEscrow ----------------------------
(***************************************************************************)
(* What an auction promises to those who entrust coins to it, with no word *)
(* about prices, bids and matching: the selling coin is held from the      *)
(* announcement until the auction is cancelled or settled; paying coin is  *)
(* only taken while the auction is open for bids, and is held until it is  *)
(* settled; then no more than that is vested, and what is vested is paid   *)
(* out over time until nothing is left, and only then is the auction       *)
(* closed.  A closed auction holds nothing, for ever.                      *)
(***************************************************************************)
EXTENDS Naturals

CONSTANT AuctionIds

VARIABLES
  stage,    \* of every auction
  selling,  \* the selling coin held for it
  paying,   \* the paying coin held for its bids
  vesting   \* the paying coin held for its auctioneer

vars == <<stage, selling, paying, vesting>>

Init ==
  /\ stage = [id \in AuctionIds |-> "None"]
  /\ selling = [id \in AuctionIds |-> 0]
  /\ paying = [id \in AuctionIds |-> 0]
  /\ vesting = [id \in AuctionIds |-> 0]

\* The auction moves from one of the stages in from to the stage to.
Moves(id, from, to) ==
  /\ stage[id] \in from
  /\ stage' = [stage EXCEPT ![id] = to]

\* Nothing but the entry for id changes in f.
OnlyAt(id, f, g) == g = [f EXCEPT ![id] = g[id]]

Announce(id) ==
  /\ Moves(id, {"None"}, "Announced") \/ Moves(id, {"None"}, "Open")
  /\ selling'[id] > 0
  /\ OnlyAt(id, selling, selling')
  /\ UNCHANGED <<paying, vesting>>

Open(id) ==
  /\ Moves(id, {"Announced"}, "Open")
  /\ UNCHANGED <<selling, paying, vesting>>

Cancel(id) ==
  /\ Moves(id, {"Announced"}, "Closed")
  /\ selling' = [selling EXCEPT ![id] = 0]
  /\ UNCHANGED <<paying, vesting>>

Take(id) ==
  /\ stage[id] = "Open"
  /\ paying'[id] > paying[id]
  /\ OnlyAt(id, paying, paying')
  /\ UNCHANGED <<stage, selling, vesting>>

\* The auctioneer is paid at once, or the raised coins are vested.
Settle(id) ==
  /\ \/ Moves(id, {"Open"}, "Closed") /\ UNCHANGED vesting
     \/ /\ Moves(id, {"Open"}, "Vesting")
        /\ vesting'[id] <= paying[id]
        /\ OnlyAt(id, vesting, vesting')
  /\ selling' = [selling EXCEPT ![id] = 0]
  /\ paying' = [paying EXCEPT ![id] = 0]

Release(id) ==
  /\ \/ Moves(id, {"Vesting"}, "Vesting")
     \/ Moves(id, {"Vesting"}, "Closed") /\ vesting'[id] = 0
  /\ vesting'[id] <= vesting[id]
  /\ OnlyAt(id, vesting, vesting')
  /\ UNCHANGED <<selling, paying>>

Next ==
  \E id \in AuctionIds :
    Announce(id) \/ Open(id) \/ Cancel(id) \/ Take(id) \/ Settle(id) \/ Release(id)

Spec == Init /\ [][Next]_vars
=============================================================================
