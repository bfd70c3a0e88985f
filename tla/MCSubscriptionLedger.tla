------------------------ MODULE MCSubscriptionLedger ------------------------
(* The instance of SubscriptionLedger for TLC is given by its cfg file alone. *)
EXTENDS SubscriptionLedger
=============================================================================
