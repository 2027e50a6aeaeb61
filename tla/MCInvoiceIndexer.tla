-------------------------- MODULE MCInvoiceIndexer --------------------------
(***************************************************************************)
(* Instances of InvoiceIndexer for TLC; its constants are given in the cfgs. *)
(***************************************************************************)
EXTENDS InvoiceIndexer
=============================================================================
