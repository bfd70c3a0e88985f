------------------------------ MODULE MCTopUp ------------------------------
(* The instance of TopUp for TLC is given by its cfg file alone. *)
EXTENDS TopUp
============================================================================
