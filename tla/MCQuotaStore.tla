---------------------------- MODULE MCQuotaStore ----------------------------
(* An instance of QuotaStore for TLC: quota that is taken and given back. *)
EXTENDS QuotaStore

QuotaDeltas == {-2, 1}
============================================================================
