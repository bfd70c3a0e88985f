------------------------- MODULE SubscriptionLedger -------------------------
(***************************************************************************)
(* The quota of one user's subscriptions (model/subscription.go): requests *)
(* pre-consume, settle and refund, the maintenance task expires and resets *)
(* subscriptions (service/subscription_reset_task.go), administrators      *)
(* cancel and delete them and change the plan.                             *)
(*                                                                         *)
(* The transactions read a row, change the copy and save all its columns.  *)
(* They ask for a row lock with "gorm:query_option", an option of gorm v1; *)
(* the project uses gorm v2, which ignores it.  RowLocks says whether the  *)
(* database serialises such transactions all the same (SQLite) or not      *)
(* (MySQL, PostgreSQL).  Time is counted in reset periods.                 *)
(***************************************************************************)
EXTENDS Integers, FiniteSets, FiniteSetsExt

CONSTANTS
    Subs,           \* subscription IDs
    Requests,       \* requests paid from a subscription
    Ends,           \* possible end_times, in periods
    Total,          \* amount_total of each subscription
    Amounts,        \* pre-consumed quotas
    Deltas,         \* actual quota minus pre-consumed quota at settlement
    RowLocks,       \* TRUE: a transaction's read locks the rows
    PlanChanges,    \* TRUE: the plan's reset period may be switched to "never"
    Batch,          \* subscriptionResetBatchSize
    MaxTime         \* bound on time

ASSUME LedgerAssumption ==
    /\ Subs \subseteq Nat /\ IsFiniteSet(Subs) /\ Subs # {}
    /\ Ends \subseteq Nat \ {0} /\ Total \in Nat \ {0}
    /\ IsFiniteSet(Requests)
    /\ Amounts \subseteq Nat \ {0} /\ Deltas \subseteq Int
    /\ \A a \in Amounts, d \in Deltas : a + d >= 0
    /\ RowLocks \in BOOLEAN /\ PlanChanges \in BOOLEAN
    /\ Batch \in Nat \ {0} /\ MaxTime \in Nat

VARIABLES
    row,        \* user_subscriptions
    record,     \* subscription_pre_consume_records, with the request's subscription
    txn,        \* each request's position and open transaction
    task,       \* the same for the maintenance task
    resetting,  \* plan.QuotaResetPeriod is not "never"
    now,
    owed,       \* history: what each request has taken since its subscription's last reset
    wasReset    \* history: some subscription has been reset

vars == <<row, record, txn, task, resetting, now, owed, wasReset>>

---------------------------------------------------------------------------
Row == [status: {"active", "expired", "cancelled", "deleted"}, used: 0..Total, last: Nat,
        next: Nat, end: Nat]
Table == [Subs -> Row]
IsCopy(f) == DOMAIN f \subseteq Subs /\ \A s \in DOMAIN f : f[s] \in Row
NoTable == [s \in {} |-> 0]

\* Values of the rows, the records and the open transactions; no usage is negative or above
\* the total (PostConsumeUserSubscriptionDelta).
TypeOK ==
    /\ row \in Table
    /\ record \in [Requests -> [status: {"none", "consumed", "refunded"}, sub: Subs,
                                amount: Amounts \cup {0}]]
    /\ \A r \in Requests :
          /\ txn[r].at \in {"new", "pre", "open", "settle", "refund", "mark", "done"}
          /\ IsCopy(txn[r].copy) /\ txn[r].dirty \subseteq Subs /\ txn[r].amount \in Int
    /\ task.at \in {"sleep", "list", "reset", "save"} /\ task.count \in 0..Batch
    /\ task.todo \subseteq Subs /\ IsCopy(task.copy) /\ task.dirty \subseteq Subs
    /\ resetting \in BOOLEAN /\ now \in 0..MaxTime
    /\ owed \in [Requests -> Nat] /\ wasReset \in BOOLEAN

\* calcNextResetTime: a period later, unless that is after the end; 0 for none.
NextReset(last, end) == IF resetting /\ last + 1 <= end THEN last + 1 ELSE 0

\* A request's transaction, or its place between two, and the same for the task.
Txn(at, copy, dirty, amount) == [at |-> at, copy |-> copy, dirty |-> dirty, amount |-> amount]
Round(at, todo, copy, dirty, count) ==
    [at |-> at, todo |-> todo, copy |-> copy, dirty |-> dirty, count |-> count]
Closed(at) == Txn(at, NoTable, {}, 0)
Begin(at, todo) == Round(at, todo, NoTable, {}, 0)
AnySub == CHOOSE s \in Subs : TRUE

Init ==
    /\ resetting = TRUE /\ now = 0
    /\ \E end \in [Subs -> Ends] :
          row = [s \in Subs |-> [status |-> "active", used |-> 0, last |-> 0,
                                 next |-> NextReset(0, end[s]), end |-> end[s]]]
    /\ record = [r \in Requests |-> [status |-> "none", sub |-> AnySub, amount |-> 0]]
    /\ txn = [r \in Requests |-> Closed("new")]
    /\ task = Begin("sleep", {})
    /\ owed = [r \in Requests |-> 0]
    /\ wasReset = FALSE

---------------------------------------------------------------------------
(* Rows, locks and saves.                                                  *)

Active(s) == row[s].status = "active" /\ row[s].end > now
Exists(s) == row[s].status # "deleted"

\* The rows an open transaction has read for update.
Locked ==
    UNION ({ DOMAIN txn[r].copy : r \in Requests } \cup { DOMAIN task.copy })
RowsFree(S) == RowLocks => S \cap Locked = {}

\* Variant: the reset moves on to the next period and keeps the usage.
MaybeResetKeeps(w) ==
    LET last == IF now <= w.end THEN now ELSE w.end
    IN IF (w.next > 0 /\ w.next > now) \/ ~resetting \/ last <= w.last THEN w
       ELSE [w EXCEPT !.last = last, !.next = NextReset(last, w.end)]

\* maybeResetUserSubscriptionWithPlanTx: due periods are skipped up to now or the end.
MaybeReset(w) ==
    LET last == IF now <= w.end THEN now ELSE w.end
    IN IF (w.next > 0 /\ w.next > now) \/ ~resetting \/ last <= w.last THEN w
       ELSE [w EXCEPT !.used = 0, !.last = last, !.next = NextReset(last, w.end)]

\* tx.Save writes every column of the copy, and inserts the row if it is gone.
Save(copy, dirty) == row' = [s \in Subs |-> IF s \in dirty THEN copy[s] ELSE row[s]]

\* The copies in dirty with a later reset than their rows reset what was owed.
Resets(copy, dirty) == { s \in dirty : copy[s].last > row[s].last }
OwedAfter(copy, dirty) ==
    [r \in Requests |-> IF record[r].sub \in Resets(copy, dirty) THEN 0 ELSE owed[r]]

End(r, at) == txn' = [txn EXCEPT ![r] = Closed(at)]

\* Variant: a refund after a reset makes the usage negative.
NoFloor(x) == x

\* newUsed is at least 0.
Floor(x) == IF x < 0 THEN 0 ELSE x

---------------------------------------------------------------------------
(* A request.                                                              *)

\* PreConsumeUserSubscription up to its saves: of the active subscriptions, by end_time,
\* each is reset if that is due, until one has room for the amount.
PreConsume(r) ==
    /\ txn[r].at = "new"
    /\ \E amount \in Amounts :
         LET cands == { s \in Subs : Active(s) }
             copy == [s \in cands |-> MaybeReset(row[s])]
             room == { s \in cands : copy[s].used + amount <= Total }
             before(s, t) == \/ row[s].end < row[t].end
                             \/ row[s].end = row[t].end /\ s <= t
         IN /\ RowsFree(cands)
            /\ \/ room = {} /\ End(r, "done") /\ UNCHANGED record
               \/ \E s \in room :
                    /\ \A t \in room : before(s, t)
                    /\ txn' = [txn EXCEPT ![r] =
                         Txn("pre", [copy EXCEPT ![s].used = @ + amount],
                             {s} \cup { t \in cands : before(t, s) /\ copy[t] # row[t] },
                             amount)]
                    /\ record' = [record EXCEPT ![r].sub = s]
    /\ UNCHANGED <<row, task, resetting, now, owed, wasReset>>

\* The record is created and the copies are saved in the same transaction.
CommitPreConsume(r) ==
    /\ txn[r].at = "pre"
    /\ Save(txn[r].copy, txn[r].dirty)
    /\ record' = [record EXCEPT ![r] =
                    [status |-> "consumed", sub |-> @.sub, amount |-> txn[r].amount]]
    /\ owed' = [OwedAfter(txn[r].copy, txn[r].dirty) EXCEPT ![r] = txn[r].amount]
    /\ wasReset' = (wasReset \/ Resets(txn[r].copy, txn[r].dirty) # {})
    /\ End(r, "open")
    /\ UNCHANGED <<task, resetting, now>>

\* PostConsumeUserSubscriptionDelta up to its save, for the settlement or the refund.
ReadDelta(r, delta, at) ==
    LET s == record[r].sub
        used == Floor(row[s].used + delta)
    IN /\ RowsFree({s})
       /\ IF Exists(s) /\ used <= Total
          THEN txn' = [txn EXCEPT ![r] =
                  Txn(at, [t \in {s} |-> [row[t] EXCEPT !.used = used]], {s}, delta)]
          ELSE End(r, "done")
       /\ UNCHANGED <<row, record, task, resetting, now, owed, wasReset>>

Settle(r) == txn[r].at = "open" /\ \E delta \in Deltas : ReadDelta(r, delta, "settle")

\* RefundSubscriptionPreConsume: the delta has a transaction of its own.
Refund(r) == txn[r].at = "open" /\ ReadDelta(r, -record[r].amount, "refund")

CommitDelta(r) ==
    /\ txn[r].at \in {"settle", "refund"}
    /\ Save(txn[r].copy, txn[r].dirty)
    /\ owed' = [OwedAfter(txn[r].copy, txn[r].dirty)
                  EXCEPT ![r] = Floor(@ + txn[r].amount)]
    /\ End(r, IF txn[r].at = "refund" THEN "mark" ELSE "done")
    /\ UNCHANGED <<record, task, resetting, now, wasReset>>

MarkRefunded(r) ==
    /\ txn[r].at = "mark"
    /\ record' = [record EXCEPT ![r].status = "refunded"]
    /\ End(r, "done")
    /\ UNCHANGED <<row, task, resetting, now, owed, wasReset>>

---------------------------------------------------------------------------
(* The maintenance task.                                                   *)

\* The rows in S are marked as expired, and the round goes on with the resets.
MarkExpired(S) ==
    /\ task.at = "sleep" /\ RowsFree(S)
    /\ row' = [s \in Subs |-> IF s \in S THEN [row[s] EXCEPT !.status = "expired"] ELSE row[s]]
    /\ task' = Begin("list", {})
    /\ UNCHANGED <<record, txn, resetting, now, owed, wasReset>>

\* Variant: the status of a row that has ended is not looked at.
ExpireEnded == MarkExpired({ s \in Subs : Exists(s) /\ row[s].end <= now })

\* Variant: a row whose end is the moment of the round is left for another round.
ExpireAfter == MarkExpired({ s \in Subs : row[s].status = "active" /\ row[s].end < now })

\* ExpireDueSubscriptions: one UPDATE of the active rows that have ended.
ExpireDue == MarkExpired({ s \in Subs : row[s].status = "active" /\ row[s].end <= now })

Due(s) == row[s].next > 0 /\ row[s].next <= now

\* ResetDueSubscriptions: at most Batch rows, the earliest next_reset_time first.
ListDue ==
    /\ task.at = "list"
    /\ LET due == { s \in Subs : Due(s) /\ row[s].status = "active" }
       IN \/ /\ due = {} /\ task' = Begin("sleep", {})
          \/ \E todo \in SUBSET due :
                /\ Cardinality(todo) = Min({Batch, Cardinality(due)}) /\ todo # {}
                /\ \A s \in todo, t \in due \ todo : row[s].next <= row[t].next
                /\ task' = Begin("reset", todo)
    /\ UNCHANGED <<row, record, txn, resetting, now, owed, wasReset>>

\* After the batch: a full one is followed by another.
NextBatch == task' = Begin(IF task.count = Batch THEN "list" ELSE "sleep", {})

Reread(s) ==
    Round("save", task.todo, [t \in {s} |-> MaybeReset(row[s])],
          IF MaybeReset(row[s]) = row[s] THEN {} ELSE {s}, task.count)
Skip(s) == Round("reset", task.todo \ {s}, NoTable, {}, task.count)

\* Variant: the row is read outside the transaction.
ReadDueOutside(s) ==
    /\ task.at = "reset" /\ s \in task.todo
    /\ task' = IF Exists(s) /\ Due(s) THEN Reread(s) ELSE Skip(s)
    /\ UNCHANGED <<row, record, txn, resetting, now, owed, wasReset>>

\* The row is read again, and left alone unless its reset is still due.
ReadDue(s) ==
    /\ task.at = "reset" /\ s \in task.todo /\ RowsFree({s})
    /\ task' = IF Exists(s) /\ Due(s) THEN Reread(s) ELSE Skip(s)
    /\ UNCHANGED <<row, record, txn, resetting, now, owed, wasReset>>

\* resetCount is increased whether the reset has changed anything or not.
CommitReset ==
    /\ task.at = "save"
    /\ Save(task.copy, task.dirty)
    /\ owed' = OwedAfter(task.copy, task.dirty)
    /\ wasReset' = (wasReset \/ Resets(task.copy, task.dirty) # {})
    /\ task' = Round("reset", task.todo \ DOMAIN task.copy, NoTable, {}, task.count + 1)
    /\ UNCHANGED <<record, txn, resetting, now>>

EndBatch ==
    /\ task.at = "reset" /\ task.todo = {}
    /\ NextBatch
    /\ UNCHANGED <<row, record, txn, resetting, now, owed, wasReset>>

---------------------------------------------------------------------------
(* Administrators and time.                                                *)

\* AdminInvalidateUserSubscription updates the columns status and end_time.
Invalidate(s) ==
    /\ Exists(s) /\ RowsFree({s})
    /\ row' = [row EXCEPT ![s] = [@ EXCEPT !.status = "cancelled", !.end = now]]
    /\ UNCHANGED <<record, txn, task, resetting, now, owed, wasReset>>

\* AdminDeleteUserSubscription.
Delete(s) ==
    /\ Exists(s) /\ RowsFree({s})
    /\ row' = [row EXCEPT ![s].status = "deleted"]
    /\ UNCHANGED <<record, txn, task, resetting, now, owed, wasReset>>

\* AdminUpdateSubscriptionPlan; next_reset_time of the subscriptions stays.
StopResets ==
    /\ PlanChanges /\ resetting /\ resetting' = FALSE
    /\ UNCHANGED <<row, record, txn, task, now, owed, wasReset>>

Tick ==
    /\ now < MaxTime /\ now' = now + 1
    /\ UNCHANGED <<row, record, txn, task, resetting, owed, wasReset>>

Request(r) ==
    \/ PreConsume(r) \/ CommitPreConsume(r) \/ Settle(r) \/ Refund(r) \/ CommitDelta(r)
    \/ MarkRefunded(r)
Maintain ==
    \/ ExpireDue \/ ListDue \/ (\E s \in Subs : ReadDue(s)) \/ CommitReset \/ EndBatch

Next ==
    \/ \E r \in Requests : Request(r)
    \/ Maintain
    \/ \E s \in Subs : Invalidate(s) \/ Delete(s)
    \/ StopResets
    \/ Tick

Spec == Init /\ [][Next]_vars

\* The task is run every minute, and its transactions and the requests' go on.
FairSpec == Spec /\ WF_vars(Maintain) /\ \A r \in Requests : WF_vars(Request(r))

---------------------------------------------------------------------------
\* The requests that have taken from a subscription, and the sum of f over them.
Takers(s) == { r \in Requests : record[r].sub = s /\ record[r].status # "none" }
Sum(f, S) == MapThenSumSet(LAMBDA r : f[r], S)

\* A subscription is never charged for more than its requests have taken since the last
\* reset, and before a reset it is charged for exactly that: no pre-consume, settlement,
\* refund or reset overwrites another ("creates the record and locks the subscription",
\* billing_session.go:308).  A refund of what was taken before a reset may lower the usage.
UsedIsOwed ==
    \A s \in Subs :
        row[s].status # "deleted" =>
            /\ row[s].used <= Sum(owed, Takers(s))
            /\ ~wasReset => row[s].used = Sum(owed, Takers(s))

\* A subscription that an administrator has cancelled or deleted stays so, whatever
\* transactions were open at the time ("ends it immediately", "hard-deletes").
EndedStaysEnded ==
    [][\A s \in Subs : row[s].status \in {"cancelled", "deleted"}
          => row'[s].status \in {"cancelled", "deleted"}]_vars

\* A reset is not lost: the time of the last one never goes back (a stale copy saved over a reset
\* would let the period be reset, and used, twice).
ResetsAdvance == [][\A s \in Subs : row'[s].last >= row[s].last]_vars

\* While the plan resets, a subscription that has ended is marked by the task, and one whose
\* reset is due is reset, though every round's reads and saves compete with the requests'.
DueIsDone ==
    \A s \in Subs :
        LET due == row[s].status = "active" /\ (row[s].end <= now \/ Due(s))
        IN due ~> ~due \/ ~resetting
============================================================================
