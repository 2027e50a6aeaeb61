------------------------- MODULE MCTreasuryService -------------------------
(***************************************************************************)
(* Instances of TreasuryService for TLC; its constants are given in the cfgs. *)
(***************************************************************************)
EXTENDS TreasuryService
=============================================================================
