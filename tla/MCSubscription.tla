--------------------------- MODULE MCSubscription ---------------------------
(* Instances of Subscription for model checking. *)
EXTENDS Subscription

CONSTANTS u1, u2
=============================================================================
