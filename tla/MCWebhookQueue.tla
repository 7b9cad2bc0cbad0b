---------------------------- MODULE MCWebhookQueue ----------------------------
(***************************************************************************)
(* Instances of WebhookQueue for TLC.                                      *)
(***************************************************************************)
EXTENDS WebhookQueue

CONSTANTS d1, d2

=============================================================================
