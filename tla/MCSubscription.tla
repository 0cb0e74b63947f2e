--------------------------- MODULE MCSubscription ---------------------------
(* The instances of Subscription: all constants are given in the .cfg files. *)
EXTENDS Subscription
=============================================================================
