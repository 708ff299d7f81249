------------------------- MODULE MCIdempotentWebhook -------------------------
(* IdempotentWebhook on small instances.                                   *)
EXTENDS IdempotentWebhook
=============================================================================
