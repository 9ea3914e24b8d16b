------------------------------ MODULE MCChain ------------------------------
(***************************************************************************)
(* The instances of MCFundraising with hooks and restarts.                 *)
(***************************************************************************)
EXTENDS MCFundraising, Chain
=============================================================================
