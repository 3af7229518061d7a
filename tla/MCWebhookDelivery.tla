-------------------------- MODULE MCWebhookDelivery --------------------------
(* Two pumps and a subscription with a short log. *)
EXTENDS WebhookDelivery

CONSTANTS p1, p2

MCPumps == {p1, p2}
=============================================================================
