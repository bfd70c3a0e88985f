------------------------------- MODULE TopUp -------------------------------
(***************************************************************************)
(* Orders that bring money in: wallet top-ups paid through a gateway or by *)
(* a transfer somebody approves (model/topup.go, controller/topup*.go,     *)
(* model/promptpay_auto.go), subscription orders (CompleteSubscriptionOrder)*)
(* and redemption codes (model/redemption.go).                             *)
(*                                                                         *)
(* A gateway repeats its notification until it is answered with success    *)
(* and may repeat it afterwards.  Notifications and administrators' calls  *)
(* are handled concurrently, on any node.  A handler takes the order's     *)
(* mutex (LockOrder), which only its own process knows, reads the order    *)
(* and then writes it.  The row lock the transactions ask for with         *)
(* "gorm:query_option" is one gorm v1 understands; RowLocks says whether   *)
(* it is there: on SQLite transactions that conflict are serialised, on    *)
(* MySQL and PostgreSQL, with gorm v2, nothing is locked.                  *)
(***************************************************************************)
EXTENDS Integers, FiniteSets

CONSTANTS
    Orders,         \* trade numbers and redemption codes
    Kinds,          \* what they may be: a subset of AllKinds
    Nodes,          \* processes
    Calls,          \* concurrent calls of the handlers
    Slips,          \* references of transfer slips
    RowLocks,       \* TRUE: a transaction's read locks the row
    MaxPurchase,    \* plan.MaxPurchasePerUser, 0: no limit
    MaxDups,        \* bound on notifications repeated after their answer
    MaxFaults,      \* bound on failing database calls
    MaxCrashes      \* bound on crashes

Gateways == {"stripe", "epay", "creem", "waffo", "pancake"}
Manual == {"promptpay", "other"}
AllKinds ==
    [provider: Gateways \cup Manual \cup {"code"}, sub: {FALSE}]
    \cup [provider: Gateways \ {"waffo"}, sub: {TRUE}]

ASSUME TopUpAssumption ==
    /\ Kinds \subseteq AllKinds /\ RowLocks \in BOOLEAN
    /\ Slips \cap {"manual", "none"} = {}
    /\ MaxPurchase \in Nat /\ MaxDups \in Nat /\ MaxFaults \in Nat /\ MaxCrashes \in Nat

VARIABLES
    order,      \* the tables topups, subscription_orders and redemptions
    outcome,    \* what has become of the payment at the gateway
    acked,      \* the gateway has had a positive answer
    call,       \* the calls being handled
    credit,     \* history: how often the order's quota or subscription was granted
    audit,      \* topup_approvals: the slip that was approved, "manual" or "none"
    autoOn,     \* the option PromptPayAutoApprove allows the transfers of the moment
    dups, faults, crashes

vars == <<order, outcome, acked, call, credit, audit, autoOn, dups, faults, crashes>>

---------------------------------------------------------------------------
Events == {"pay", "fail", "expire", "approve", "reject", "auto"}
Idle == [at |-> "idle"]
Call == [at: {"check", "lock", "read", "commit", "credit"}, node: Nodes, order: Orders,
         event: Events]

\* Values of the orders, the payments, the calls in progress and the bounds.
TypeOK ==
    /\ order \in [Orders -> [status: {"none", "pending", "success", "failed", "expired"},
                             kind: AllKinds, slip: Slips]]
    /\ outcome \in [Orders -> {"open", "paid", "failed", "expired"}]
    /\ acked \in [Orders -> BOOLEAN]
    /\ call \in [Calls -> Call \cup {Idle}]
    /\ credit \in [Orders -> Nat]
    /\ audit \in [Orders -> Slips \cup {"manual", "none"}]
    /\ autoOn \in BOOLEAN
    /\ dups \in 0..MaxDups /\ faults \in 0..MaxFaults /\ crashes \in 0..MaxCrashes

Init ==
    /\ order \in [Orders -> [status: {"none"}, kind: Kinds, slip: Slips]]
    /\ outcome = [o \in Orders |-> "open"]
    /\ acked = [o \in Orders |-> FALSE]
    /\ call = [c \in Calls |-> Idle]
    /\ credit = [o \in Orders |-> 0]
    /\ audit = [o \in Orders |-> "none"]
    /\ autoOn = TRUE
    /\ dups = 0 /\ faults = 0 /\ crashes = 0

Provider(o) == order[o].kind.provider
IsSub(o) == order[o].kind.sub
Created(o) == order[o].status # "none"
Status(o) == order[o].status
SetStatus(o, st) == order' = [order EXCEPT ![o].status = st]
Fault == faults < MaxFaults /\ faults' = faults + 1
Bounds == UNCHANGED <<dups, crashes>>

\* CountUserSubscriptionsByPlan: subscriptions created so far.
Purchased == Cardinality({o \in Orders : IsSub(o) /\ credit[o] > 0})
UnderLimit == MaxPurchase = 0 \/ Purchased < MaxPurchase

---------------------------------------------------------------------------
(* The customer and the gateway.                                           *)

\* RequestEpay, RequestStripePay, RequestPromptPayTopUp, SubscriptionRequest...: the order
\* is stored as pending.  A code is created enabled and needs no payment.
Create(o) ==
    /\ ~Created(o)
    /\ IsSub(o) => UnderLimit
    /\ SetStatus(o, "pending")
    /\ outcome' = [outcome EXCEPT ![o] = IF Provider(o) = "code" THEN "paid" ELSE @]
    /\ UNCHANGED <<acked, call, credit, audit, autoOn, dups, faults, crashes>>

\* The payment is made, fails or expires, or a code's expired_time passes.
PaymentEnds(o) ==
    /\ Created(o)
    /\ \/ /\ outcome[o] = "open" /\ Provider(o) \in Gateways
          /\ \E end \in {"paid"}
                  \cup (IF Provider(o) \in {"stripe", "waffo"} THEN {"failed"} ELSE {})
                  \cup (IF Provider(o) = "stripe" THEN {"expired"} ELSE {}) :
                outcome' = [outcome EXCEPT ![o] = end]
       \/ /\ outcome[o] = "paid" /\ Provider(o) = "code"
          /\ outcome' = [outcome EXCEPT ![o] = "expired"]
    /\ UNCHANGED <<order, acked, call, credit, audit, autoOn, dups, faults, crashes>>

\* A command of the Telegram group switches automatic approval (UpdatePromptPayAutoConfig).
SwitchAuto ==
    /\ autoOn' = ~autoOn
    /\ UNCHANGED <<order, outcome, acked, call, credit, audit, dups, faults, crashes>>

---------------------------------------------------------------------------
(* Calls begin.                                                            *)

Start(c, o, event, at) ==
    /\ call[c] = Idle /\ Created(o)
    /\ \E n \in Nodes :
          call' = [call EXCEPT ![c] = [at |-> at, node |-> n, order |-> o, event |-> event]]

\* The gateway notifies the outcome, until it is answered and sometimes again; a user
\* enters a code.
Notify(c, o) ==
    /\ Provider(o) \notin Manual /\ outcome[o] # "open"
    /\ Start(c, o, IF outcome[o] = "paid" \/ Provider(o) = "code" THEN "pay"
                   ELSE IF outcome[o] = "failed" THEN "fail" ELSE "expire", "lock")
    /\ \/ ~acked[o] /\ UNCHANGED dups
       \/ acked[o] /\ dups < MaxDups /\ dups' = dups + 1
    /\ UNCHANGED <<order, outcome, acked, credit, audit, autoOn, faults, crashes>>

\* AdminCompleteTopUp, the Telegram and LINE web-hooks: an administrator completes a
\* top-up, of whatever provider, or rejects a transfer.
Decide(c, o) ==
    /\ ~IsSub(o) /\ Provider(o) # "code"
    /\ \E event \in {"approve"} \cup (IF Provider(o) \in Manual THEN {"reject"} ELSE {}) :
          Start(c, o, event, "lock")
    /\ UNCHANGED <<order, outcome, acked, credit, audit, autoOn, dups, faults, crashes>>

\* The goroutine of RequestPromptPayTopUp, once for each order.
StartAuto(c, o) ==
    /\ Provider(o) = "promptpay" /\ ~acked[o]
    /\ Start(c, o, "auto", "check")
    /\ acked' = [acked EXCEPT ![o] = TRUE]
    /\ UNCHANGED <<order, outcome, credit, audit, autoOn, dups, faults, crashes>>

---------------------------------------------------------------------------
(* Handlers.                                                               *)

Goto(c, at) == call' = [call EXCEPT ![c].at = at]

\* Variant: every web-hook answers before it is done.
AnswersAlways(k) == TRUE

\* The answer: the Stripe web-hook always returns 200, EpayNotify writes "success" before it
\* starts, a failed Waffo payment is acknowledged anyway.  The others answer by the result,
\* but for LookupFails.
AnswersSuccess(k) ==
    \/ Provider(k.order) = "stripe"
    \/ Provider(k.order) = "epay" /\ ~IsSub(k.order)
    \/ k.event = "fail"

Finish(c, ok) ==
    /\ call' = [call EXCEPT ![c] = Idle]
    /\ acked' = [acked EXCEPT ![call[c].order] =
                    \/ @
                    \/ call[c].event \in {"pay", "fail", "expire"}
                       /\ (ok \/ AnswersSuccess(call[c]))]

\* Variant: the notification of a payment is handled outside the order's mutex too.
TakesMutexApproving(k) == k.event \in {"approve", "reject"}

\* LockOrder: not taken for a failed Waffo payment, a redemption and an automatic approval.
TakesMutex(k) ==
    /\ k.event # "auto" /\ Provider(k.order) # "code"
    /\ ~(Provider(k.order) = "waffo" /\ k.event = "fail")

Working == {"read", "commit", "credit"}

LockOrder(c) ==
    /\ call[c].at = "lock"
    /\ TakesMutex(call[c]) =>
          \A d \in Calls \ {c} :
              ~(/\ call[d].at \in Working /\ TakesMutex(call[d])
                /\ call[d].order = call[c].order /\ call[d].node = call[c].node)
    /\ Goto(c, "read")
    /\ UNCHANGED <<order, outcome, acked, credit, audit, autoOn, dups, faults, crashes>>

\* Transactions that ask for a row lock; EpayNotify and sessionAsyncPaymentFailed use none.
InTransaction(k) ==
    /\ ~(Provider(k.order) = "epay" /\ ~IsSub(k.order) /\ k.event = "pay")
    /\ ~(Provider(k.order) = "stripe" /\ k.event = "fail")

RowFree(c) ==
    RowLocks => \A d \in Calls \ {c} :
        ~(call[d].at = "commit" /\ call[d].order = call[c].order /\ InTransaction(call[d]))

Notified(c) == call[c].event \in {"pay", "fail", "expire"}

\* The code's expired_time, the plan's limit inside CreateUserSubscriptionFromPlanTx.
MayComplete(o) ==
    /\ Provider(o) = "code" => outcome[o] = "paid"
    /\ IsSub(o) => UnderLimit

\* The web-hooks that take a failing read of the order for an order that does not exist, and
\* answer 200.
AnswersUnknown(o) == Provider(o) = "pancake" \/ (Provider(o) = "creem" /\ IsSub(o))

\* The lookup of a Pancake order (ResolveWaffoPancake...TradeNo), made before the mutex is
\* taken, or the read of a recurring Creem order in CompleteSubscriptionOrder fails.
LookupFails(c) ==
    /\ call[c].at \in {"lock", "read"} /\ Notified(c)
    /\ AnswersUnknown(call[c].order)
    /\ call[c].at = "lock" <=> Provider(call[c].order) = "pancake"
    /\ Fault /\ Finish(c, TRUE)
    /\ UNCHANGED <<order, outcome, credit, audit, autoOn, dups, crashes>>

\* Recharge, RechargeCreem, RechargeWaffo, RechargeWaffoPancake, CompleteSubscriptionOrder,
\* EpayNotify, Redeem, UpdatePendingTopUpStatus, ExpireSubscriptionOrder,
\* sessionAsyncPaymentFailed up to their first write: only a pending order is
\* changed.  sessionAsyncPaymentFailed does not know subscription orders.
Read(c) ==
    /\ call[c].at = "read" /\ Notified(c)
    /\ InTransaction(call[c]) => RowFree(c)
    /\ LET k == call[c]
           o == k.order
           pending == Status(o) = "pending" /\ ~(k.event = "fail" /\ IsSub(o))
       IN \/ /\ pending /\ (k.event = "pay" => MayComplete(o))
             /\ Goto(c, "commit")
             /\ UNCHANGED <<acked, faults>>
          \/ /\ ~pending \/ (k.event = "pay" /\ ~MayComplete(o))
             /\ Finish(c, ~pending /\ (\/ Status(o) = "success" /\ Provider(o) # "code"
                                       \/ Provider(o) = "creem" /\ ~IsSub(o)
                                       \/ k.event = "expire" /\ IsSub(o)))
             /\ UNCHANGED faults
          \/ Fault /\ Finish(c, FALSE)
    /\ UNCHANGED <<order, outcome, credit, audit, autoOn, dups, crashes>>

\* The transaction commits: the whole row as it was read, with its new status, and the
\* quota or the subscription.  EpayNotify has no transaction: it saves the row and
\* increases the quota afterwards.
Commit(c) ==
    /\ call[c].at = "commit" /\ RowFree(c)
    /\ LET k == call[c]
           o == k.order
           done == [pay |-> "success", fail |-> "failed", expire |-> "expired"][k.event]
       IN \/ /\ SetStatus(o, done)
             /\ credit' = [credit EXCEPT ![o] = @ + IF k.event = "pay" /\ InTransaction(k)
                                                    THEN 1 ELSE 0]
             /\ IF k.event = "pay" /\ ~InTransaction(k)
                THEN Goto(c, "credit") /\ UNCHANGED acked
                ELSE Finish(c, TRUE)
             /\ UNCHANGED faults
          \/ Fault /\ Finish(c, FALSE) /\ UNCHANGED <<order, credit>>
    /\ UNCHANGED <<outcome, audit, autoOn, dups, crashes>>

\* EpayNotify: IncreaseUserQuota.
Credit(c) ==
    /\ call[c].at = "credit"
    /\ \/ /\ credit' = [credit EXCEPT ![call[c].order] = @ + 1]
          /\ UNCHANGED faults
       \/ Fault /\ UNCHANGED credit
    /\ Finish(c, TRUE)
    /\ UNCHANGED <<order, outcome, audit, autoOn, dups, crashes>>

\* Variant: the rule is not read again in the transaction.
AutoAllowedBefore(o) == \A p \in Orders : audit[p] # order[o].slip

\* The rule is read again in the transaction; VerifiedReference has a unique index.
AutoAllowed(o) == autoOn /\ \A p \in Orders : audit[p] # order[o].slip

\* completeManualTopUp: the read locks the row and the update is guarded by the status.
Complete(c) ==
    /\ call[c].at = "read" /\ call[c].event \in {"approve", "auto"} /\ RowFree(c)
    /\ LET o == call[c].order
           auto == call[c].event = "auto"
       IN \/ /\ Status(o) = "pending" /\ (auto => AutoAllowed(o))
             /\ SetStatus(o, "success")
             /\ credit' = [credit EXCEPT ![o] = @ + 1]
             /\ audit' = [audit EXCEPT ![o] = IF auto THEN order[o].slip ELSE "manual"]
             /\ UNCHANGED faults
          \/ /\ Status(o) # "pending" \/ (auto /\ ~AutoAllowed(o))
             /\ UNCHANGED <<order, credit, audit, faults>>
          \/ Fault /\ UNCHANGED <<order, credit, audit>>
    /\ Finish(c, TRUE)
    /\ UNCHANGED <<outcome, autoOn, dups, crashes>>

\* Variant: a transfer is rejected whatever its status.
RejectAny(c) ==
    /\ call[c].at = "read" /\ call[c].event = "reject" /\ RowFree(c)
    /\ SetStatus(call[c].order, "failed")
    /\ Finish(c, TRUE)
    /\ UNCHANGED <<outcome, credit, audit, autoOn, dups, faults, crashes>>

\* RejectManualTopUp, locked and guarded like completeManualTopUp.
Reject(c) ==
    /\ call[c].at = "read" /\ call[c].event = "reject" /\ RowFree(c)
    /\ LET o == call[c].order
       IN \/ Status(o) = "pending" /\ SetStatus(o, "failed") /\ UNCHANGED faults
          \/ Status(o) # "pending" /\ UNCHANGED <<order, faults>>
          \/ Fault /\ UNCHANGED order
    /\ Finish(c, TRUE)
    /\ UNCHANGED <<outcome, credit, audit, autoOn, dups, crashes>>

\* tryAutoApprovePromptPay: the rule, then the slip's verification by SlipOK, which may
\* refuse it or not answer.
CheckAuto(c) ==
    /\ call[c].at = "check"
    /\ \/ autoOn /\ Goto(c, "read") /\ UNCHANGED acked
       \/ Finish(c, FALSE)
    /\ UNCHANGED <<order, outcome, credit, audit, autoOn, dups, faults, crashes>>

\* A process ends: open transactions are rolled back, nothing is answered.
Crash(n) ==
    /\ crashes < MaxCrashes /\ crashes' = crashes + 1
    /\ \E c \in Calls : call[c] # Idle /\ call[c].node = n
    /\ call' = [c \in Calls |-> IF call[c] # Idle /\ call[c].node = n THEN Idle ELSE call[c]]
    /\ UNCHANGED <<order, outcome, acked, credit, audit, autoOn, dups, faults>>

---------------------------------------------------------------------------
Handle(c) ==
    \/ Read(c) \/ Commit(c) \/ Credit(c) \/ Complete(c) \/ Reject(c) \/ CheckAuto(c)

Next ==
    \/ \E o \in Orders : Create(o) \/ PaymentEnds(o)
    \/ \E c \in Calls, o \in Orders : Notify(c, o) \/ Decide(c, o) \/ StartAuto(c, o)
    \/ \E c \in Calls : LockOrder(c) \/ LookupFails(c) \/ Handle(c)
    \/ SwitchAuto
    \/ \E n \in Nodes : Crash(n)

Spec == Init /\ [][Next]_vars

\* Goroutines run, a waiting LockOrder gets the mutex (sync.Mutex does not starve), and
\* the gateway repeats its notification until it is answered.
FairSpec ==
    /\ Spec
    /\ \A c \in Calls : WF_vars(Handle(c)) /\ SF_vars(LockOrder(c))
    /\ \A o \in Orders : SF_vars(\E c \in Calls : ~acked[o] /\ Notify(c, o))

---------------------------------------------------------------------------
\* No order is granted twice, however often and in whatever order its notifications, the
\* administrators' decisions and the automatic approval arrive (CompleteSubscriptionOrder
\* "(idempotent)", LockOrder).
CreditedOnce == \A o \in Orders : credit[o] <= 1

\* An order that is shown as failed or expired has granted nothing, and one that has
\* granted something is shown as successful: the rejection, the expiry and the failure of a payment
\* race with its completion (RejectManualTopUp "without adding quota").
ShownAsGranted ==
    \A o \in Orders : credit[o] > 0 => order[o].status = "success"

\* A top-up is approved automatically only at a moment at which the rule allows it,
\* although the rule was read before the slip was verified.
AutoOnlyWhileOn ==
    [][\A o \in Orders : audit[o] = "none" /\ audit'[o] \in Slips => autoOn]_vars

\* The provider's web-hook answers by the result, so the gateway repeats what failed.
AnsweredByResult(o) ==
    Provider(o) \in {"creem", "waffo", "pancake"} \/ (Provider(o) = "epay" /\ IsSub(o))

\* A payment such a gateway has taken is granted, whatever call fails and whichever process
\* dies in between, or an administrator has completed the order.  Only a web-hook that
\* answers a failed lookup like an unknown order may leave it pending for good, and only
\* after such a fault.
PaidIsGranted ==
    \A o \in Orders : outcome[o] = "paid" /\ AnsweredByResult(o) ~>
        \/ credit[o] > 0
        \/ AnswersUnknown(o) /\ acked[o] /\ Status(o) = "pending" /\ faults > 0
============================================================================
