-------------------------- MODULE MCWebhookDelivery --------------------------
(***************************************************************************)
(* One event for two webhooks that share a payload, two workers.           *)
(***************************************************************************)
EXTENDS WebhookDelivery

CONSTANTS e1, w1, w2, k1, k2

OneEvent == {e1}
TwoWebhooks == {w1, w2}
NoWebhooks == {}
TwoWorkers == {k1, k2}
SomeCalls == {<<"retry", w1>>, <<"delete", w1>>, <<"update", w2>>, <<"removeApp", w2>>}
=============================================================================
