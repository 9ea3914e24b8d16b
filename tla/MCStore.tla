------------------------------ MODULE MCStore ------------------------------
(***************************************************************************)
(* A store with bytes of two values and ids of two bytes, so that ids pass *)
(* from one byte to the next, and two addresses one of which is the start  *)
(* of the other.                                                           *)
(***************************************************************************)
EXTENDS Store

MCAddresses == {<<1>>, <<1, 0>>}
=============================================================================
