---------------------------- MODULE MCPlayground ----------------------------
(* Instances of the playground for TLC: the constants are given in the cfgs. *)
EXTENDS Playground
=============================================================================
