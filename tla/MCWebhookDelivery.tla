-------------------------- MODULE MCWebhookDelivery ---------------------------
(* Webhook deliveries on small instances.                                    *)
EXTENDS WebhookDelivery
===============================================================================
