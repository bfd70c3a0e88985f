---------------------------- MODULE MCOrderLock ----------------------------
(* The instance of OrderLock for TLC is given by its cfg file alone. *)
EXTENDS OrderLock
============================================================================
