------------------------------ MODULE MCWebhooks ------------------------------
(* An instance of the outbox for TLC: one webhook, or an e-mail and an SMS. *)
EXTENDS WebhookDelivery

CONSTANTS d1, m1, m2, w1, w2

EachAlone == {{d1}, {m1, m2}}
=============================================================================
