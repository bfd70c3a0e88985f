-------------------------- MODULE MCRealtimeBilling --------------------------
(* The instance of RealtimeBilling for TLC is given by its cfg file alone. *)
EXTENDS RealtimeBilling
=============================================================================
