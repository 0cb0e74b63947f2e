-------------------------- MODULE MCWebhookDelivery -------------------------
(* The instance of WebhookDelivery: one process with two slots and one with one. *)
EXTENDS WebhookDelivery

CONSTANTS p1, p2, s1, s2, s3

MCProcess == [s \in {s1, s2, s3} |-> IF s = s3 THEN p2 ELSE p1]
=============================================================================
