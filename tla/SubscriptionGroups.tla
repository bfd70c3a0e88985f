------------------------ MODULE SubscriptionGroups ------------------------
(***************************************************************************)
(* The group of one user, which a subscription raises while it runs        *)
(* (model/subscription.go).  A subscription remembers the group it has     *)
(* replaced (prev_user_group), or nothing when the user was in its group   *)
(* already.                                                                *)
(*                                                                         *)
(* Purchases, the maintenance task and the administrators' calls are       *)
(* transactions that read the user and the subscriptions and then write;   *)
(* nothing locks the user's row.  Serial says whether the database         *)
(* serialises them (SQLite) or not (MySQL, PostgreSQL).                    *)
(***************************************************************************)
EXTENDS Integers, FiniteSets

CONSTANTS
    UserSubs,   \* subscription IDs, ascending in the order of purchase
    Groups,     \* groups plans raise to (upgrade_group)
    Base,       \* the user's own group
    Terms,      \* durations
    Serial,     \* TRUE: transactions are serialised
    MaxClock    \* bound on time

ASSUME GroupsAssumption ==
    /\ UserSubs \subseteq Nat /\ IsFiniteSet(UserSubs)
    /\ Base \notin Groups /\ "none" \notin Groups \cup {Base}
    /\ Terms \subseteq Nat \ {0} /\ Serial \in BOOLEAN /\ MaxClock \in Nat

VARIABLES
    group,      \* users.group
    sub,        \* user_subscriptions
    trans,      \* the open transactions
    clock,
    overlapped  \* history: the user has bought while a subscription was not marked as ended

groupVars == <<group, sub, trans, clock, overlapped>>

---------------------------------------------------------------------------
NoGroup == "none"
SubRow == [status: {"none", "active", "expired", "cancelled", "deleted"},
           up: Groups \cup {NoGroup}, prev: Groups \cup {Base, NoGroup}, end: 0..(2 * MaxClock)]
Actors == {"buyer", "task", "admin"}
Idle == [open |-> FALSE]

\* Values of the group, the subscriptions and the open transactions; the group is never empty.
GroupTypeOK ==
    /\ group \in Groups \cup {Base}
    /\ sub \in [UserSubs -> SubRow]
    /\ \A a \in Actors : trans[a] # Idle =>
          /\ DOMAIN trans[a].rows \subseteq UserSubs
          /\ \A s \in DOMAIN trans[a].rows : trans[a].rows[s] \in SubRow
          /\ trans[a].target \in Groups \cup {Base, NoGroup}
    /\ clock \in 0..MaxClock /\ overlapped \in BOOLEAN

GroupInit ==
    /\ group = Base /\ clock = 0 /\ overlapped = FALSE
    /\ sub = [s \in UserSubs |-> [status |-> "none", up |-> NoGroup, prev |-> NoGroup, end |-> 0]]
    /\ trans = [a \in Actors |-> Idle]

---------------------------------------------------------------------------
\* A transaction has read what it needs: it will write these rows and, unless target is
\* NoGroup, the user's group.
BeginTx(a, rows, target) ==
    /\ trans[a] = Idle
    /\ Serial => \A b \in Actors : trans[b] = Idle
    /\ trans' = [trans EXCEPT ![a] = [open |-> TRUE, rows |-> rows, target |-> target]]
    /\ UNCHANGED <<group, sub, clock>>

Commit(a) ==
    /\ trans[a].open
    /\ sub' = [s \in UserSubs |-> IF s \in DOMAIN trans[a].rows THEN trans[a].rows[s] ELSE sub[s]]
    /\ group' = IF trans[a].target = NoGroup THEN group ELSE trans[a].target
    /\ trans' = [trans EXCEPT ![a] = Idle]
    /\ UNCHANGED <<clock, overlapped>>

\* CreateUserSubscriptionFromPlanTx.
Buy(s) ==
    /\ sub[s].status = "none" /\ \A t \in UserSubs : t < s => sub[t].status # "none"
    /\ \E up \in Groups, term \in Terms :
          BeginTx("buyer",
                  [t \in {s} |-> [status |-> "active", up |-> up, end |-> clock + term,
                                  prev |-> IF group = up THEN NoGroup ELSE group]],
                  IF group = up THEN NoGroup ELSE up)
    /\ overlapped' = (overlapped \/ \E t \in UserSubs : sub[t].status = "active")

Running(s) == sub[s].status = "active" /\ sub[s].end > clock

\* Variant: another subscription's upgrade is not looked at.
FallBackAlone(s, others) ==
    IF group # sub[s].up \/ sub[s].prev = group THEN NoGroup ELSE sub[s].prev

\* The last part of downgradeUserGroupForSubscriptionTx and of ExpireDueSubscriptions: the
\* user goes back to the group s has replaced, unless one of the others is running or the user is no
\* longer in the group of s.
FallBack(s, others) ==
    IF (\E t \in others : Running(t)) \/ group # sub[s].up \/ sub[s].prev = group
    THEN NoGroup ELSE sub[s].prev

\* Variant: the task marks the subscriptions only.
ExpireMarks ==
    LET due == { s \in UserSubs : sub[s].status = "active" /\ sub[s].end <= clock }
    IN /\ due # {}
       /\ BeginTx("task", [s \in due |-> [sub[s] EXCEPT !.status = "expired"]], NoGroup)
       /\ UNCHANGED overlapped

\* ExpireDueSubscriptions, the transaction for the user: the subscription that ended last
\* decides.
Expire ==
    LET due == { s \in UserSubs : sub[s].status = "active" /\ sub[s].end <= clock }
        expired == due \cup { s \in UserSubs : sub[s].status = "expired" }
    IN /\ due # {}
       /\ \E s \in expired :
             /\ \A t \in expired : sub[t].end < sub[s].end \/ (sub[t].end = sub[s].end /\ t <= s)
             /\ BeginTx("task", [t \in due |-> [sub[t] EXCEPT !.status = "expired"]],
                        FallBack(s, UserSubs))
       /\ UNCHANGED overlapped

IsSub(s) == sub[s].status \notin {"none", "deleted"}

\* AdminInvalidateUserSubscription
InvalidateSub(s) ==
    /\ IsSub(s)
    /\ BeginTx("admin", [t \in {s} |-> [sub[t] EXCEPT !.status = "cancelled", !.end = clock]],
               FallBack(s, UserSubs \ {s}))
    /\ UNCHANGED overlapped

\* AdminDeleteUserSubscription
DeleteSub(s) ==
    /\ IsSub(s)
    /\ BeginTx("admin", [t \in {s} |-> [sub[t] EXCEPT !.status = "deleted"]],
               FallBack(s, UserSubs \ {s}))
    /\ UNCHANGED overlapped

ClockTick == clock < MaxClock /\ clock' = clock + 1 /\ UNCHANGED <<group, sub, trans, overlapped>>

GroupNext ==
    \/ \E s \in UserSubs : Buy(s) \/ InvalidateSub(s) \/ DeleteSub(s)
    \/ Expire
    \/ \E a \in Actors : Commit(a)
    \/ ClockTick

GroupSpec == GroupInit /\ [][GroupNext]_groupVars

---------------------------------------------------------------------------
\* A user with no subscription left, running or waiting to be marked, is in the group they
\* had before the first ("downgrade to previous group if needed"), if they never bought one
\* while they had another: two that overlap may remember each other's group.
GroupReturned ==
    ~overlapped /\ (\A s \in UserSubs : sub[s].status # "active") => group = Base

\* A user whose subscription is running is not put back into the group they had before
\* ("If there's an active upgraded subscription, keep current group").
UpgradeKept == (\E s \in UserSubs : Running(s)) => group # Base
============================================================================
