--------------------------- MODULE MCWebhookQueue ---------------------------
(***************************************************************************)
(* Instances of WebhookQueue for TLC; its constants are given in the cfgs.   *)
(***************************************************************************)
EXTENDS WebhookQueue
=============================================================================
