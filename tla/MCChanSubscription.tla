------------------------- MODULE MCChanSubscription -------------------------
(* Instances of ChanSubscription for model checking. *)
EXTENDS ChanSubscription

CONSTANT u1
=============================================================================
