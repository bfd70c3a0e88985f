-------------------------- MODULE MCBillingSession --------------------------
(* Instances of BillingSession for TLC. *)
EXTENDS BillingSession

\* Every preference, tasks and free models, a playground and a trusted request, in pairs
\* that compete for the same accounts.
K(pref, quota, play, task, free) ==
    [pref |-> pref, quota |-> quota, play |-> play, task |-> task, free |-> free]
SomeKinds ==
    [r \in Req |->
        IF r = 1
        THEN {K("subscription_first", 2, FALSE, TRUE, FALSE),
              K("wallet_first", 2, FALSE, FALSE, FALSE),
              K("wallet_only", 0, FALSE, FALSE, TRUE)}
        ELSE {K("subscription_only", 2, FALSE, FALSE, FALSE),
              K("wallet_first", 2, TRUE, TRUE, FALSE)}]
=============================================================================
