----------------------- MODULE MCSubscriptionGroups -----------------------
(* Instances of SubscriptionGroups for TLC.                                *)
EXTENDS SubscriptionGroups, TLC

Symmetry == Permutations(Groups)
============================================================================
