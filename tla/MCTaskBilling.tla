--------------------------- MODULE MCTaskBilling ---------------------------
(* The instances of TaskBilling for TLC are given by the cfg files alone. *)
EXTENDS TaskBilling
=============================================================================
