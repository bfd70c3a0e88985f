--------------------------- MODULE BillingSession ---------------------------
(***************************************************************************)
(* The billing life cycle of the relay: pre-consume, reserve, settle and   *)
(* refund (service/billing_session.go, service/funding_source.go), driven  *)
(* by the handlers that own a session (controller/relay.go Relay and       *)
(* RelayTask).  All requests belong to one user, one API token and one     *)
(* subscription row, which they share; each database call is one step, so  *)
(* requests interleave between any two calls, and each call may fail (at   *)
(* most MaxFaults times).                                                  *)
(*                                                                         *)
(* A subscription call (a DB.Transaction) is one step here; what happens   *)
(* inside such a transaction is the subject of SubscriptionLedger.         *)
(***************************************************************************)
EXTENDS Integers, FiniteSets, FiniteSetsExt

CONSTANTS
    Req,            \* requests
    Kinds,          \* what each request may be: a set of members of Kind
    ActualQuotas,   \* quota computed from the upstream usage
    Reserves,       \* targets given to Reserve
    Fees,           \* violation fees (0: none)
    WalletInit,     \* the user's quota
    TokenInit,      \* the token's RemainQuota
    TokenUnlimited, \* token.UnlimitedQuota
    SubTotal,       \* UserSubscription.AmountTotal, 0 = unlimited
    TrustQuota,     \* common.GetTrustQuota()
    RetryTimes,     \* common.RetryTimes
    MaxFaults       \* bound on failing database calls

AllPrefs == {"subscription_only", "wallet_only", "wallet_first", "subscription_first"}

\* pref is UserSetting.BillingPreference, quota priceData.QuotaToPreConsume, play
\* relayInfo.IsPlayground, task: RelayTask, which sets ForcePreConsume, free
\* priceData.FreeModel: no session is created.
Kind == [pref: AllPrefs, quota: Nat, play: BOOLEAN, task: BOOLEAN, free: BOOLEAN]

ASSUME ConstantsAssumption ==
    /\ IsFiniteSet(Req)
    /\ \A r \in Req : Kinds[r] \subseteq Kind
    /\ ActualQuotas \subseteq Nat
    /\ Reserves \subseteq Nat /\ Fees \subseteq Nat
    /\ WalletInit \in Int /\ TokenInit \in Int /\ TokenUnlimited \in BOOLEAN
    /\ SubTotal \in Nat /\ TrustQuota \in Nat
    /\ RetryTimes \in Nat /\ MaxFaults \in Nat

VARIABLES
    wallet,     \* users.quota
    token,      \* tokens.remain_quota
    used,       \* user_subscriptions.amount_used
    active,     \* the subscription is active and not past its end_time
    req,        \* per request: what the handler knows about the request
    pc,         \* per request: next step of the handler goroutine
    rpc,        \* per request: next step of the refund goroutine
    s,          \* per request: the BillingSession and its FundingSource
    charge,     \* history: net quota each request has taken from each account
    faults      \* number of database calls that have failed

vars == <<wallet, token, used, active, req, pc, rpc, s, charge, faults>>

---------------------------------------------------------------------------
\* Types.

ReqInfo == [pref: AllPrefs, quota: Nat, play: BOOLEAN, task: BOOLEAN, free: BOOLEAN,
            tokenTrusted: BOOLEAN, retry: 0..RetryTimes, actual: Nat, fee: Nat]

Sources == {"none", "wallet", "subscription"}

\* consumed is WalletFunding.consumed or SubscriptionFunding.preConsumed;
\* amount is the effective quota being pre-consumed, delta the one being reserved,
\* attempts and marked are the state of the subscription's refund with retries.
Session == [funding: Sources, amount: Nat, preConsumedQuota: Nat, tokenConsumed: Nat,
            extraReserved: Nat, consumed: Nat, delta: Nat, trusted: BOOLEAN,
            fundingSettled: BOOLEAN, settled: BOOLEAN, refunded: BOOLEAN,
            insufficient: BOOLEAN, attempts: 0..3]

HandlerSteps == {"idle", "choose", "wallet", "token", "take", "fund", "undo", "rejected",
                 "flight", "reserveToken", "unreserve", "settle", "settleToken",
                 "fail", "fee", "feeToken", "done"}
RefundSteps == {"none", "funding", "extra", "token", "done"}

NoReq == [pref |-> "wallet_only", quota |-> 0, play |-> FALSE, task |-> FALSE, free |-> FALSE,
          tokenTrusted |-> FALSE, retry |-> 0, actual |-> 0, fee |-> 0]

OpenSession(source, quota, trust) ==
    [funding |-> source, amount |-> quota, preConsumedQuota |-> 0, tokenConsumed |-> 0,
     extraReserved |-> 0, consumed |-> 0, delta |-> 0, trusted |-> trust,
     fundingSettled |-> FALSE, settled |-> FALSE, refunded |-> FALSE,
     insufficient |-> FALSE, attempts |-> 0]
NewSession == OpenSession("none", 0, FALSE)

NoCharge == [wallet |-> 0, token |-> 0, sub |-> 0]

Init ==
    /\ wallet = WalletInit /\ token = TokenInit /\ used = 0 /\ active \in BOOLEAN
    /\ req = [r \in Req |-> NoReq]
    /\ pc = [r \in Req |-> "idle"]
    /\ rpc = [r \in Req |-> "none"]
    /\ s = [r \in Req |-> NewSession]
    /\ charge = [r \in Req |-> NoCharge]
    /\ faults = 0

---------------------------------------------------------------------------
\* The database calls.  A negative amount gives quota back.

DecreaseUserQuota(r, n) ==
    /\ wallet' = wallet - n
    /\ charge' = [charge EXCEPT ![r].wallet = @ + n]
    /\ UNCHANGED <<token, used, active, faults>>

DecreaseTokenQuota(r, n) ==
    /\ token' = token - n
    /\ charge' = [charge EXCEPT ![r].token = @ + n]
    /\ UNCHANGED <<wallet, used, active, faults>>

\* The new amount_used of a subscription: clamped at 0, refused above the total.
NewUsed(n) == IF used + n < 0 THEN 0 ELSE used + n
SubAccepts(n) == SubTotal > 0 => NewUsed(n) <= SubTotal

PostConsumeUserSubscriptionDelta(r, n) ==
    /\ SubAccepts(n)
    /\ used' = NewUsed(n)
    /\ charge' = [charge EXCEPT ![r].sub = @ + n]
    /\ UNCHANGED <<wallet, token, active, faults>>

NoMoney == UNCHANGED <<wallet, token, used, active, charge>>
NoCall == NoMoney /\ UNCHANGED faults

\* A database call that returns an error and changes nothing.
DbError == NoMoney /\ faults < MaxFaults /\ faults' = faults + 1

Goto(r, step) == pc' = [pc EXCEPT ![r] = step]
Handler == UNCHANGED <<pc, req>>        \* what the refund goroutine leaves alone
Refunder == UNCHANGED rpc               \* what the handler leaves alone

---------------------------------------------------------------------------
\* NewBillingSession: the billing preference and its fallbacks.

\* The closure tryWallet starts by reading the balance, trySubscription by
\* pre-consuming the token for at least one unit of quota.
TrySubscription(r) ==
    /\ s' = [s EXCEPT ![r] = OpenSession("subscription",
                                 IF req[r].quota = 0 THEN 1 ELSE req[r].quota, FALSE)]
    /\ Goto(r, "token")

TryWallet(r) == Goto(r, "wallet") /\ UNCHANGED s

\* TokenAuth notes whether the token is unlimited and the quota it has left.
NewRequest(k) ==
    [NoReq EXCEPT !.pref = k.pref, !.quota = k.quota, !.play = k.play, !.task = k.task,
                  !.free = k.free, !.tokenTrusted = TokenUnlimited \/ token > TrustQuota]

\* A request passes TokenAuth and enters Relay or RelayTask; a free model gets no session.
Begin(r) ==
    /\ pc[r] = "idle"
    /\ \E k \in Kinds[r] :
          /\ req' = [req EXCEPT ![r] = NewRequest(k)]
          /\ Goto(r, IF k.free THEN "flight" ELSE "choose")
    /\ UNCHANGED s /\ NoCall /\ Refunder

Choose(r) ==
    /\ pc[r] = "choose"
    /\ \/ /\ req[r].pref \in {"wallet_only", "wallet_first"}
          /\ TryWallet(r) /\ NoCall
       \/ /\ req[r].pref = "subscription_only"
          /\ TrySubscription(r) /\ NoCall
       \/ /\ req[r].pref = "subscription_first"       \* HasActiveUserSubscription
          /\ IF active THEN TrySubscription(r) ELSE TryWallet(r)
          /\ NoCall
       \/ /\ req[r].pref = "subscription_first"
          /\ Goto(r, "rejected") /\ UNCHANGED s /\ DbError
    /\ UNCHANGED req /\ Refunder

\* shouldTrust for the wallet; a subscription is never trusted.
ShouldTrust(r) ==
    /\ ~req[r].task
    /\ TrustQuota > 0
    /\ req[r].tokenTrusted
    /\ wallet > TrustQuota

\* tryWallet: GetUserQuota, the two balance checks, then preConsume's trust check.
CheckWallet(r) ==
    /\ pc[r] = "wallet"
    /\ \/ /\ wallet <= 0 \/ wallet < req[r].quota
          /\ IF req[r].pref = "wallet_first"
             THEN TrySubscription(r)
             ELSE Goto(r, "rejected") /\ UNCHANGED s
          /\ NoCall
       \/ /\ wallet > 0 /\ wallet >= req[r].quota
          /\ LET trust == ShouldTrust(r)
                 amount == IF trust THEN 0 ELSE req[r].quota
             IN /\ s' = [s EXCEPT ![r] = OpenSession("wallet", amount, trust)]
                /\ Goto(r, IF amount > 0 THEN "token" ELSE "fund")
          /\ NoCall
       \/ Goto(r, "rejected") /\ UNCHANGED s /\ DbError
    /\ UNCHANGED req /\ Refunder

\* PreConsumeTokenQuota: the check and the decrement are two database calls.
CheckToken(r) ==
    /\ pc[r] = "token"
    /\ \/ /\ req[r].play
          /\ s' = [s EXCEPT ![r].tokenConsumed = s[r].amount]
          /\ Goto(r, "fund") /\ NoCall
       \/ /\ ~req[r].play
          /\ UNCHANGED s
          /\ \/ /\ TokenUnlimited \/ token >= s[r].amount
                /\ Goto(r, "take") /\ NoCall
             \/ /\ ~TokenUnlimited /\ token < s[r].amount
                /\ Goto(r, "rejected") /\ NoCall
             \/ Goto(r, "rejected") /\ DbError
    /\ UNCHANGED req /\ Refunder

TakeToken(r) ==
    /\ pc[r] = "take"
    /\ \/ /\ DecreaseTokenQuota(r, s[r].amount)
          /\ s' = [s EXCEPT ![r].tokenConsumed = s[r].amount]
          /\ Goto(r, "fund")
       \/ Goto(r, "rejected") /\ UNCHANGED s /\ DbError
    /\ UNCHANGED req /\ Refunder

\* preConsume after a successful funding.PreConsume.
Funded(r) ==
    /\ s' = [s EXCEPT ![r].preConsumedQuota = s[r].amount, ![r].consumed = s[r].amount]
    /\ Goto(r, "flight")

NotFunded(r, insufficient) ==
    /\ s' = [s EXCEPT ![r].insufficient = insufficient]
    /\ Goto(r, "undo")

\* WalletFunding.PreConsume.
PreConsumeWallet(r) ==
    /\ pc[r] = "fund" /\ s[r].funding = "wallet"
    /\ \/ /\ Funded(r)
          /\ IF s[r].amount > 0 THEN DecreaseUserQuota(r, s[r].amount) ELSE NoCall
       \/ s[r].amount > 0 /\ NotFunded(r, FALSE) /\ DbError
    /\ UNCHANGED req /\ Refunder

\* SubscriptionFunding.PreConsume: PreConsumeUserSubscription.
PreConsumeSubscription(r) ==
    /\ pc[r] = "fund" /\ s[r].funding = "subscription"
    /\ LET fits == active /\ (SubTotal > 0 => SubTotal - used >= s[r].amount)
       IN \/ fits /\ Funded(r) /\ PostConsumeUserSubscriptionDelta(r, s[r].amount)
          \/ ~fits /\ NotFunded(r, TRUE) /\ NoCall
          \/ NotFunded(r, FALSE) /\ DbError
    /\ UNCHANGED req /\ Refunder

\* Variant of UndoToken: a fall-back to the wallet keeps the token quota that was taken.
UndoTokenRejected(r) ==
    /\ pc[r] = "undo"
    /\ IF s[r].insufficient /\ req[r].pref = "subscription_first"
       THEN NoCall /\ Goto(r, "wallet")
       ELSE /\ Goto(r, "rejected")
            /\ IF req[r].play THEN NoCall
               ELSE DecreaseTokenQuota(r, - s[r].tokenConsumed) \/ DbError
    /\ s' = [s EXCEPT ![r] = NewSession]
    /\ UNCHANGED req /\ Refunder

\* The error path of preConsume gives the token quota back and, when the
\* subscription is the preferred source and cannot pay, falls back to the wallet.
UndoToken(r) ==
    /\ pc[r] = "undo"
    /\ IF s[r].tokenConsumed > 0 /\ ~req[r].play
       THEN \/ DecreaseTokenQuota(r, - s[r].tokenConsumed)
            \/ DbError
       ELSE NoCall
    /\ IF s[r].insufficient /\ req[r].pref = "subscription_first"
       THEN Goto(r, "wallet")
       ELSE Goto(r, "rejected")
    /\ s' = [s EXCEPT ![r] = NewSession]
    /\ UNCHANGED req /\ Refunder

\* Variant of Rejected: the retry of a rejected task is not counted.
RejectedUncounted(r) ==
    /\ pc[r] = "rejected"
    /\ s' = [s EXCEPT ![r] = NewSession]
    /\ Goto(r, IF req[r].task THEN "choose" ELSE "done")
    /\ UNCHANGED req /\ NoCall /\ Refunder

\* Relay answers with the error before its deferred refund is installed;
\* RelayTask may retry, and then pre-consumes again.
Rejected(r) ==
    /\ pc[r] = "rejected"
    /\ s' = [s EXCEPT ![r] = NewSession]
    /\ \/ Goto(r, "done") /\ UNCHANGED req
       \/ /\ req[r].task /\ req[r].retry < RetryTimes
          /\ req' = [req EXCEPT ![r].retry = @ + 1]
          /\ Goto(r, "choose")
    /\ NoCall /\ Refunder

---------------------------------------------------------------------------
\* While the request is with the upstream.

\* Variants of Retry: one attempt too many; a refund after each failed attempt.
RetryOneMore(r) ==
    /\ pc[r] = "flight"
    /\ req[r].retry <= RetryTimes
    /\ req' = [req EXCEPT ![r].retry = @ + 1]
    /\ UNCHANGED <<pc, s>> /\ NoCall /\ Refunder

RetryRefunds(r) ==
    /\ pc[r] = "flight"
    /\ req[r].retry < RetryTimes
    /\ req' = [req EXCEPT ![r].retry = @ + 1]
    /\ s' = [s EXCEPT ![r].refunded = TRUE]
    /\ rpc' = [rpc EXCEPT ![r] = "funding"]
    /\ UNCHANGED pc /\ NoCall

\* An attempt fails and the loop takes another channel.
Retry(r) ==
    /\ pc[r] = "flight"
    /\ req[r].retry < RetryTimes
    /\ req' = [req EXCEPT ![r].retry = @ + 1]
    /\ UNCHANGED <<pc, s>> /\ NoCall /\ Refunder

\* An attempt succeeds: the usage gives the actual quota, which SettleBilling settles.
Succeed(r) ==
    /\ pc[r] = "flight"
    /\ \E a \in ActualQuotas : req' = [req EXCEPT ![r].actual = a]
    /\ Goto(r, "settle")
    /\ UNCHANGED s /\ NoCall /\ Refunder

\* The last attempt fails, or the error is not retried.
Fail(r) ==
    /\ pc[r] = "flight"
    /\ Goto(r, "fail")
    /\ UNCHANGED <<s, req>> /\ NoCall /\ Refunder

\* Reserve, up to reserveFunding.
ReserveFunding(r) ==
    /\ pc[r] = "flight" /\ s[r].funding # "none"
    /\ ~s[r].trusted
    /\ \E target \in Reserves :
          LET delta == target - s[r].preConsumedQuota
          IN /\ delta > 0
             /\ \/ /\ s[r].funding = "wallet"
                   /\ DecreaseUserQuota(r, delta)
                   /\ s' = [s EXCEPT ![r].delta = delta, ![r].consumed = @ + delta]
                   /\ Goto(r, "reserveToken")
                \/ /\ s[r].funding = "subscription"
                   /\ PostConsumeUserSubscriptionDelta(r, delta)
                   /\ s' = [s EXCEPT ![r].delta = delta]
                   /\ Goto(r, "reserveToken")
                \/ DbError /\ UNCHANGED <<s, pc>>
    /\ UNCHANGED req /\ Refunder

\* Reserve, reserveToken: on success the session's books move to the target.
ReserveToken(r) ==
    /\ pc[r] = "reserveToken"
    /\ \/ /\ \/ req[r].play /\ NoCall
             \/ /\ ~req[r].play
                /\ TokenUnlimited \/ token >= s[r].delta
                /\ DecreaseTokenQuota(r, s[r].delta)
          /\ s' = [s EXCEPT ![r].preConsumedQuota = @ + s[r].delta,
                            ![r].tokenConsumed = @ + s[r].delta,
                            ![r].extraReserved = @ + s[r].delta,
                            ![r].delta = 0]
          /\ Goto(r, "flight")
       \/ /\ ~req[r].play
          /\ \/ ~TokenUnlimited /\ token < s[r].delta /\ NoCall
             \/ DbError
          /\ UNCHANGED s /\ Goto(r, "unreserve")
    /\ UNCHANGED req /\ Refunder

\* rollbackFundingReserve: WalletFunding.consumed follows the database.
RollbackFundingReserve(r) ==
    /\ pc[r] = "unreserve"
    /\ \/ /\ s[r].funding = "wallet"
          /\ DecreaseUserQuota(r, - s[r].delta)
          /\ s' = [s EXCEPT ![r].consumed = @ - s[r].delta, ![r].delta = 0]
       \/ /\ s[r].funding = "subscription"
          /\ PostConsumeUserSubscriptionDelta(r, - s[r].delta)
          /\ s' = [s EXCEPT ![r].delta = 0]
       \/ DbError /\ s' = [s EXCEPT ![r].delta = 0]
    /\ Goto(r, "flight")
    /\ UNCHANGED req /\ Refunder

---------------------------------------------------------------------------
\* Settle, and PostConsumeQuota, its counterpart for a request without session: the
\* flags then only record how far PostConsumeQuota came.

\* Variant of Delta: the pre-consumed quota is forgotten.
WholeQuota(r) == req[r].actual

Delta(r) == req[r].actual - s[r].preConsumedQuota

\* Variant of SettleFunding: the session counts as settled before the token step.
SettleFundingMarks(r) ==
    /\ pc[r] = "settle"
    /\ \/ /\ s[r].funding # "subscription"
          /\ DecreaseUserQuota(r, Delta(r))
       \/ /\ s[r].funding = "subscription"
          /\ PostConsumeUserSubscriptionDelta(r, Delta(r))
    /\ s' = [s EXCEPT ![r].fundingSettled = TRUE, ![r].settled = TRUE]
    /\ Goto(r, "settleToken")
    /\ UNCHANGED req /\ Refunder

\* The funding step.  An error is only logged: the request ends unsettled.
SettleFunding(r) ==
    /\ pc[r] = "settle"
    /\ \/ /\ Delta(r) = 0
          /\ s' = [s EXCEPT ![r].settled = TRUE]
          /\ Goto(r, "done") /\ NoCall
       \/ /\ Delta(r) # 0
          /\ \/ /\ s[r].funding # "subscription"
                /\ DecreaseUserQuota(r, Delta(r))
             \/ /\ s[r].funding = "subscription"
                /\ PostConsumeUserSubscriptionDelta(r, Delta(r))
          /\ s' = [s EXCEPT ![r].fundingSettled = TRUE]
          /\ Goto(r, "settleToken")
       \/ /\ Delta(r) # 0
          /\ \/ s[r].funding = "subscription" /\ ~SubAccepts(Delta(r)) /\ NoCall
             \/ DbError
          /\ UNCHANGED s /\ Goto(r, "done")
    /\ UNCHANGED req /\ Refunder

\* The token step.  An error is logged and the session counts as settled.
SettleToken(r) ==
    /\ pc[r] = "settleToken"
    /\ IF req[r].play THEN NoCall
       ELSE DecreaseTokenQuota(r, Delta(r)) \/ DbError
    /\ s' = [s EXCEPT ![r].settled = TRUE]
    /\ Goto(r, "done")
    /\ UNCHANGED req /\ Refunder

---------------------------------------------------------------------------
\* Failure: the deferred function of the handler and the refund goroutine.

NeedsRefund(r) ==
    /\ s[r].funding # "none"
    /\ ~s[r].settled /\ ~s[r].refunded /\ ~s[r].fundingSettled
    /\ \/ s[r].tokenConsumed > 0
       \/ s[r].funding = "subscription" /\ s[r].consumed > 0

\* BillingSession.Refund marks the session and starts the goroutine; Relay then
\* goes on to the violation fee, RelayTask does not.
Refund(r) ==
    /\ pc[r] = "fail"
    /\ IF NeedsRefund(r)
       THEN /\ s' = [s EXCEPT ![r].refunded = TRUE]
            /\ rpc' = [rpc EXCEPT ![r] = "funding"]
       ELSE UNCHANGED <<s, rpc>>
    /\ Goto(r, IF req[r].task THEN "done" ELSE "fee")
    /\ UNCHANGED req /\ NoCall

\* ChargeViolationFeeIfNeeded: PostConsumeQuota from the session's source.
ChargeFee(r) ==
    /\ pc[r] = "fee"
    /\ \/ UNCHANGED req /\ Goto(r, "done") /\ NoCall
       \/ \E fee \in Fees \ {0} :
            \/ /\ \/ s[r].funding # "subscription" /\ DecreaseUserQuota(r, fee)
                  \/ s[r].funding = "subscription" /\ PostConsumeUserSubscriptionDelta(r, fee)
               /\ req' = [req EXCEPT ![r].fee = fee]
               /\ Goto(r, "feeToken")
            \/ /\ \/ s[r].funding = "subscription" /\ ~SubAccepts(fee) /\ NoCall
                  \/ DbError
               /\ UNCHANGED req /\ Goto(r, "done")
    /\ UNCHANGED s /\ Refunder

ChargeFeeToken(r) ==
    /\ pc[r] = "feeToken"
    /\ IF req[r].play THEN NoCall
       ELSE DecreaseTokenQuota(r, req[r].fee) \/ DbError
    /\ Goto(r, "done")
    /\ UNCHANGED <<s, req>> /\ Refunder

\* After the funding source comes the extra reserve of a subscription, then the token.
AfterFundingRefund(r) ==
    rpc' = [rpc EXCEPT ![r] =
              IF s[r].extraReserved > 0 /\ s[r].funding = "subscription" THEN "extra" ELSE "token"]

\* Variants of RefundWallet: only the first hold is given back; the call is retried
\* although an error does not say that nothing was committed.
RefundWalletAmount(r) ==
    /\ rpc[r] = "funding" /\ s[r].funding = "wallet"
    /\ \/ DecreaseUserQuota(r, - s[r].amount)
       \/ DbError
    /\ AfterFundingRefund(r)
    /\ UNCHANGED s /\ Handler

RefundWalletRetried(r) ==
    /\ rpc[r] = "funding" /\ s[r].funding = "wallet"
    /\ \/ DecreaseUserQuota(r, - s[r].consumed) /\ AfterFundingRefund(r)
       \/ /\ faults < MaxFaults /\ faults' = faults + 1
          /\ wallet' = wallet + s[r].consumed
          /\ charge' = [charge EXCEPT ![r].wallet = @ - s[r].consumed]
          /\ UNCHANGED <<token, used, active, rpc>>
    /\ UNCHANGED s /\ Handler

\* WalletFunding.Refund: one call, never retried.
RefundWallet(r) ==
    /\ rpc[r] = "funding" /\ s[r].funding = "wallet"
    /\ \/ DecreaseUserQuota(r, - s[r].consumed)
       \/ DbError
    /\ AfterFundingRefund(r)
    /\ UNCHANGED s /\ Handler

\* SubscriptionFunding.Refund: RefundSubscriptionPreConsume under refundWithRetry.
\* The quota is given back by a transaction of its own; if saving the record as
\* refunded fails afterwards, the next attempt gives it back again.
RefundSubscription(r) ==
    /\ rpc[r] = "funding" /\ s[r].funding = "subscription"
    /\ \/ /\ PostConsumeUserSubscriptionDelta(r, - s[r].consumed)
          /\ AfterFundingRefund(r) /\ UNCHANGED s
       \/ /\ faults < MaxFaults /\ faults' = faults + 1
          /\ \/ UNCHANGED <<used, charge>>
             \/ /\ used' = NewUsed(- s[r].consumed)
                /\ charge' = [charge EXCEPT ![r].sub = @ - s[r].consumed]
          /\ s' = [s EXCEPT ![r].attempts = @ + 1]
          /\ IF s[r].attempts + 1 < 3 THEN UNCHANGED rpc ELSE AfterFundingRefund(r)
          /\ UNCHANGED <<wallet, token, active>>
    /\ Handler

RefundExtra(r) ==
    /\ rpc[r] = "extra"
    /\ \/ PostConsumeUserSubscriptionDelta(r, - s[r].extraReserved)
       \/ DbError
    /\ rpc' = [rpc EXCEPT ![r] = "token"]
    /\ UNCHANGED s /\ Handler

RefundToken(r) ==
    /\ rpc[r] = "token"
    /\ IF s[r].tokenConsumed > 0 /\ ~req[r].play
       THEN DecreaseTokenQuota(r, - s[r].tokenConsumed) \/ DbError
       ELSE NoCall
    /\ rpc' = [rpc EXCEPT ![r] = "done"]
    /\ UNCHANGED s /\ Handler

---------------------------------------------------------------------------
\* The subscription ends: its end_time passes or an administrator cancels it.
SubscriptionEnds ==
    /\ active
    /\ active' = FALSE
    /\ UNCHANGED <<wallet, token, used, req, pc, rpc, s, charge, faults>>

PreConsume(r) ==
    \/ Choose(r) \/ CheckWallet(r) \/ CheckToken(r) \/ TakeToken(r)
    \/ PreConsumeWallet(r) \/ PreConsumeSubscription(r) \/ UndoToken(r) \/ Rejected(r)
Reserve(r) == ReserveToken(r) \/ RollbackFundingReserve(r)
Settle(r) == SettleFunding(r) \/ SettleToken(r)
Failure(r) == Refund(r) \/ ChargeFee(r) \/ ChargeFeeToken(r)
Refunding(r) == RefundWallet(r) \/ RefundSubscription(r) \/ RefundExtra(r) \/ RefundToken(r)
Upstream(r) == Retry(r) \/ Succeed(r) \/ Fail(r) \/ ReserveFunding(r)

\* The steps the server takes by itself, given processor time.
Server(r) == PreConsume(r) \/ Reserve(r) \/ Settle(r) \/ Failure(r)

Finished(r) == pc[r] = "done" /\ rpc[r] \in {"none", "done"}

AllFinished == (\A r \in Req : Finished(r)) /\ UNCHANGED vars

Next ==
    \/ \E r \in Req : Begin(r) \/ Upstream(r) \/ Server(r) \/ Refunding(r)
    \/ SubscriptionEnds
    \/ AllFinished

Spec == Init /\ [][Next]_vars

\* Neither clients nor upstreams are fair: a request may never be sent and an
\* upstream without RELAY_TIMEOUT may never answer.
FairSpec ==
    /\ Spec
    /\ \A r \in Req : WF_vars(Server(r)) /\ WF_vars(Refunding(r))
---------------------------------------------------------------------------
\* Properties.

\* Every variable has its type; only the balances may be negative.
TypeOK ==
    /\ wallet \in Int /\ token \in Int /\ used \in Nat /\ active \in BOOLEAN
    /\ req \in [Req -> ReqInfo]
    /\ pc \in [Req -> HandlerSteps]
    /\ rpc \in [Req -> RefundSteps]
    /\ s \in [Req -> Session]
    /\ charge \in [Req -> [wallet: Int, token: Int, sub: Int]]
    /\ faults \in 0..MaxFaults

\* What the session holds of its funding source, and of the token, by its own books.
Held(r) ==
    CASE rpc[r] \in {"none", "funding"} -> s[r].preConsumedQuota + s[r].delta
      [] rpc[r] = "extra"               -> s[r].extraReserved
      [] OTHER                          -> 0

HeldToken(r) == IF rpc[r] = "done" THEN 0 ELSE s[r].tokenConsumed

\* What the request ought to have cost so far: its holds until it is settled, its
\* actual quota afterwards, and the violation fee of a failed request.
Committed(r) == s[r].fundingSettled \/ s[r].settled

OwedFunding(r) ==
    (IF Committed(r) THEN req[r].actual ELSE Held(r)) + req[r].fee

OwedToken(r) ==
    IF req[r].play THEN 0
    ELSE (IF s[r].settled THEN req[r].actual ELSE HeldToken(r))
         + (IF pc[r] = "done" THEN req[r].fee ELSE 0)

\* The accounts agree with the books for one request.
TokenBalanced(r) == charge[r].token = OwedToken(r)

FundingBalanced(r) ==
    IF s[r].funding = "subscription"
    THEN charge[r].sub = OwedFunding(r) /\ charge[r].wallet = 0
    ELSE charge[r].wallet = OwedFunding(r) /\ charge[r].sub = 0

Balanced(r) == TokenBalanced(r) /\ FundingBalanced(r)

\* While no database call has failed, every request has taken from the wallet, the
\* subscription and the token exactly what its session's books say, at every step
\* between two database calls (Settle, Refund, Reserve, preConsume and its rollback).
BooksBalance ==
    faults = 0 => \A r \in Req : Balanced(r)

Sum(f, S) == MapThenSumSet(LAMBDA r : f[r], S)
OwedWallet(r) == IF s[r].funding = "subscription" THEN 0 ELSE OwedFunding(r)

\* While no database call has failed, the user's quota is what it was, less what all
\* requests together owe the wallet by their sessions' books, at every step between two
\* calls of theirs (WalletFunding, PostConsumeQuota).
WalletConserved ==
    faults = 0 => wallet = WalletInit - Sum([r \in Req |-> OwedWallet(r)], Req)

\* A finished request has paid its actual quota, or nothing but the violation fee when
\* it failed.  The one exception is a subscription that cannot cover the settlement:
\* SettleFunding is refused and only the pre-consumed quota stays paid.
PaysExactly ==
    \A r \in Req :
        Finished(r) /\ faults = 0 =>
            LET paid == charge[r].wallet + charge[r].sub
            IN \/ paid = req[r].actual + req[r].fee
               \/ /\ s[r].funding = "subscription" /\ ~s[r].settled
                  /\ paid = s[r].preConsumedQuota /\ paid < req[r].actual

\* Whatever calls fail, no request is ever given back more wallet or token quota than
\* it took: the wallet refund is not retried, a rolled back reserve leaves the
\* books right, and a settled session is not refunded.
NeverOverRefunded ==
    \A r \in Req : charge[r].wallet >= 0 /\ charge[r].token >= 0

\* RefundSubscriptionPreConsume "is idempotent" (model/subscription.go:1188): however
\* its calls fail and are retried, the subscription is not refunded twice.
SubscriptionNeverOverRefunded ==
    \A r \in Req : charge[r].sub >= 0

\* A session is settled or refunded, never both, although Settle does not look at
\* refunded and the refund runs in another goroutine.
SettledOrRefunded ==
    \A r \in Req :
        /\ s[r].refunded => ~s[r].settled /\ ~s[r].fundingSettled
        /\ rpc[r] # "none" => s[r].refunded

\* Once Settle has completed, nothing that happens later changes what the request paid.
SettledIsFinal ==
    [][\A r \in Req : s[r].settled => charge'[r] = charge[r]]_vars

\* A handler that has left the upstream (or not yet reached it) always comes to an
\* end, and so does the refund goroutine it started: a failed request is refunded.
Completes ==
    \A r \in Req :
        pc[r] \notin {"idle", "flight"} ~> (pc[r] = "flight" \/ Finished(r))
=============================================================================
