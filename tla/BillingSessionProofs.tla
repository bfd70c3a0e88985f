------------------------ MODULE BillingSessionProofs ------------------------
(***************************************************************************)
(* Proofs about BillingSession, for any number of requests, any amounts    *)
(* and any number of failing database calls, and about QuotaStore, where   *)
(* the quota it takes from the wallet is kept.                             *)
(***************************************************************************)
EXTENDS BillingSession, QuotaStore, FiniteSetTheorems, TLAPS

\* The inductive invariant behind the properties: where the handler stands decides
\* which parts of the session are in use, and what the request has taken so far.
\* Handler steps before a session is funded.
EarlySteps == {"idle", "choose", "wallet", "token", "take", "fund", "undo", "rejected"}
\* Handler steps of a live session.
LiveSteps == {"flight", "reserveToken", "unreserve", "settle", "fail"}

NoSession(r) == s[r].funding = "none"

StepInv(r) ==
    /\ pc[r] \in EarlySteps \cup LiveSteps \cup {"settleToken"} =>
          rpc[r] = "none" /\ ~s[r].settled /\ ~s[r].refunded /\ req[r].fee = 0
    /\ pc[r] \in (EarlySteps \cup LiveSteps) \ {"settle"} => req[r].actual = 0
    /\ pc[r] \in EarlySteps \cup LiveSteps \cup {"fee", "feeToken"} => ~s[r].fundingSettled
    /\ pc[r] = "settleToken" => s[r].fundingSettled
    /\ pc[r] \in {"fee", "feeToken"} => ~s[r].settled /\ req[r].actual = 0
    /\ pc[r] = "fee" => req[r].fee = 0
    /\ pc[r] = "done" => /\ s[r].fundingSettled => s[r].settled
                         /\ s[r].settled => ~s[r].refunded /\ req[r].fee = 0
                         /\ s[r].refunded => req[r].actual = 0
                         /\ req[r].fee > 0 => req[r].actual = 0
    /\ rpc[r] # "none" <=> s[r].refunded
    /\ rpc[r] = "none" => s[r].attempts = 0
    /\ rpc[r] = "funding" => s[r].attempts < 3
    /\ rpc[r] = "extra" => s[r].funding = "subscription"

SessionInv(r) ==
    /\ pc[r] \in {"idle", "choose", "wallet"} => NoSession(r)
    /\ pc[r] \in {"token", "take", "fund", "undo"} => ~NoSession(r)
    /\ pc[r] = "take" => ~req[r].play
    /\ pc[r] \in EarlySteps => /\ s[r].preConsumedQuota = 0 /\ s[r].consumed = 0
                                /\ s[r].extraReserved = 0
    /\ pc[r] \in EarlySteps \ {"fund", "undo"} => s[r].tokenConsumed = 0
    /\ pc[r] \in {"fund", "undo"} => s[r].tokenConsumed = s[r].amount
    /\ pc[r] \notin EarlySteps => s[r].tokenConsumed = s[r].preConsumedQuota
    /\ pc[r] \notin {"reserveToken", "unreserve"} => s[r].delta = 0
    /\ pc[r] \in {"reserveToken", "unreserve"} => ~NoSession(r)
    /\ NoSession(r) => /\ ~s[r].refunded
                       /\ s[r].preConsumedQuota = 0 /\ s[r].tokenConsumed = 0
    /\ s[r].funding = "wallet" => s[r].consumed >= s[r].preConsumedQuota + s[r].delta
    /\ s[r].funding = "subscription" =>
          s[r].consumed + s[r].extraReserved = s[r].preConsumedQuota
    /\ pc[r] \in {"fee", "feeToken"} /\ ~s[r].refunded => s[r].preConsumedQuota = 0
    /\ pc[r] = "done" /\ ~s[r].refunded /\ ~s[r].settled /\ req[r].fee > 0 =>
          s[r].preConsumedQuota = 0

TakenInv(r) ==
    /\ s[r].funding = "subscription" => charge[r].wallet = 0
    /\ NoSession(r) /\ pc[r] \in EarlySteps \cup LiveSteps \cup {"fee"} => charge[r].wallet = 0
    /\ s[r].funding = "wallet" /\ pc[r] \in EarlySteps \cup LiveSteps \cup {"fee"}
       /\ rpc[r] \in {"none", "funding"} =>
          charge[r].wallet = s[r].consumed
    /\ rpc[r] = "funding" /\ s[r].funding = "wallet" => charge[r].wallet >= s[r].consumed
    /\ pc[r] = "idle" \/ req[r].play => charge[r].token = 0
    /\ ~req[r].play /\ rpc[r] # "done" /\ ~s[r].settled => charge[r].token >= s[r].tokenConsumed
    /\ charge[r].wallet >= 0 /\ charge[r].token >= 0

\* Without a fault, the wallet's books are exact and a refused settlement is the only
\* way to finish unsettled.
FaultFreeInv(r) ==
    /\ s[r].funding = "wallet" => s[r].consumed = s[r].preConsumedQuota + s[r].delta
    /\ pc[r] = "done" /\ ~s[r].settled /\ ~s[r].refunded =>
          \/ req[r].actual = 0 /\ s[r].preConsumedQuota = 0
          \/ /\ s[r].funding = "subscription" /\ req[r].fee = 0
             /\ req[r].actual > s[r].preConsumedQuota
    /\ Balanced(r)

ReqInv(r) ==
    /\ StepInv(r) /\ SessionInv(r) /\ TakenInv(r)
    /\ faults = 0 => FaultFreeInv(r)

UsedInv == SubTotal > 0 => used <= SubTotal

IInv == TypeOK /\ UsedInv /\ \A r \in Req : ReqInv(r)

---------------------------------------------------------------------------
\* Facts about one request, for the proofs below.
Fields(r) ==
    /\ req[r].actual \in Nat /\ req[r].fee \in Nat /\ req[r].play \in BOOLEAN
    /\ s[r].funding \in Sources /\ s[r].amount \in Nat /\ s[r].attempts \in 0..3
    /\ s[r].preConsumedQuota \in Nat /\ s[r].tokenConsumed \in Nat
    /\ s[r].extraReserved \in Nat /\ s[r].consumed \in Nat /\ s[r].delta \in Nat
    /\ s[r].settled \in BOOLEAN /\ s[r].fundingSettled \in BOOLEAN /\ s[r].refunded \in BOOLEAN
    /\ charge[r].wallet \in Int /\ charge[r].token \in Int /\ charge[r].sub \in Int
    /\ pc[r] \in HandlerSteps /\ rpc[r] \in RefundSteps /\ faults \in Nat

KeepId(r) ==
    s'[r].funding = s[r].funding /\ s'[r].amount = s[r].amount /\ s'[r].attempts = s[r].attempts
KeepBooks(r) ==
    /\ s'[r].preConsumedQuota = s[r].preConsumedQuota
    /\ s'[r].tokenConsumed = s[r].tokenConsumed
    /\ s'[r].extraReserved = s[r].extraReserved
KeepHold(r) == s'[r].consumed = s[r].consumed /\ s'[r].delta = s[r].delta
KeepFlags(r) ==
    /\ s'[r].settled = s[r].settled
    /\ s'[r].fundingSettled = s[r].fundingSettled
    /\ s'[r].refunded = s[r].refunded

\* The session has just been made by NewBillingSession, or there is none.
Fresh(r) ==
    /\ s'[r].amount \in Nat /\ s'[r].attempts = 0
    /\ s'[r].preConsumedQuota = 0 /\ s'[r].tokenConsumed = 0 /\ s'[r].extraReserved = 0
    /\ s'[r].consumed = 0 /\ s'[r].delta = 0
    /\ ~s'[r].settled /\ ~s'[r].fundingSettled /\ ~s'[r].refunded

\* The fields of a request's records have the types TypeOK gives them.
LEMMA FieldTypes ==
    ASSUME TypeOK, NEW r \in Req
    PROVE  Fields(r)
  BY ConstantsAssumption DEF TypeOK, ReqInfo, Session, Fields

\* A step on behalf of request r.
Step(r) ==
    \/ Begin(r) \/ Choose(r) \/ CheckWallet(r)
    \/ CheckToken(r) \/ TakeToken(r) \/ PreConsumeWallet(r)
    \/ PreConsumeSubscription(r) \/ UndoToken(r) \/ Rejected(r)
    \/ Retry(r) \/ Succeed(r) \/ Fail(r)
    \/ ReserveFunding(r) \/ ReserveToken(r) \/ RollbackFundingReserve(r)
    \/ SettleFunding(r) \/ SettleToken(r) \/ Refund(r)
    \/ ChargeFee(r) \/ ChargeFeeToken(r) \/ RefundWallet(r)
    \/ RefundSubscription(r) \/ RefundExtra(r) \/ RefundToken(r)

\* A session made by NewBillingSession has the type of a session.
LEMMA OpenSessionTypes ==
    ASSUME NEW source \in Sources, NEW n \in Nat, NEW trust \in BOOLEAN
    PROVE  OpenSession(source, n, trust) \in Session
  BY DEF Session, OpenSession

\* The updates of one session that keep it a session.
LEMMA SessionFields ==
    ASSUME NEW v \in Session, NEW m \in Nat, NEW n \in Nat, NEW b \in BOOLEAN
    PROVE  /\ [v EXCEPT !.tokenConsumed = n] \in Session
           /\ [v EXCEPT !.preConsumedQuota = n, !.consumed = n] \in Session
           /\ [v EXCEPT !.delta = n] \in Session
           /\ [v EXCEPT !.delta = n, !.consumed = m] \in Session
           /\ [v EXCEPT !.consumed = m, !.delta = n] \in Session
           /\ [v EXCEPT !.insufficient = b] \in Session
           /\ n \in 0..3 => [v EXCEPT !.attempts = n] \in Session
  BY DEF Session

\* Setting a flag (settled, refunded, fundingSettled) keeps a session a session.
LEMMA FlagTypes ==
    ASSUME NEW v \in Session
    PROVE  /\ [v EXCEPT !.settled = TRUE] \in Session
           /\ [v EXCEPT !.refunded = TRUE] \in Session
           /\ [v EXCEPT !.fundingSettled = TRUE] \in Session
  BY DEF Session

\* Replacing the session of one request leaves the others alone.
LEMMA SessionUpdate ==
    ASSUME NEW r \in Req, NEW v \in Session, s \in [Req -> Session], s' = [s EXCEPT ![r] = v]
    PROVE  s' \in [Req -> Session] /\ \A q \in Req \ {r} : s'[q] = s[q]
  OBVIOUS

\* A step keeps the types and the subscription's limit, and leaves the other
\* requests alone: the accounts, the session, and the control state.
Money(r) ==
    /\ wallet' \in Int /\ token' \in Int /\ used' \in Nat /\ active' \in BOOLEAN
    /\ charge' \in [Req -> [wallet: Int, token: Int, sub: Int]]
    /\ faults' \in 0..MaxFaults /\ faults' \in {faults, faults + 1}
    /\ SubTotal > 0 => used' <= SubTotal
    /\ \A q \in Req \ {r} : charge'[q] = charge[q]
Books(r) ==
    /\ s' \in [Req -> Session]
    /\ \A q \in Req \ {r} : s'[q] = s[q]
Control(r) ==
    /\ req' \in [Req -> ReqInfo] /\ pc' \in [Req -> HandlerSteps] /\ rpc' \in [Req -> RefundSteps]
    /\ \A q \in Req \ {r} : req'[q] = req[q] /\ pc'[q] = pc[q] /\ rpc'[q] = rpc[q]
Effects(r) == Money(r) /\ Books(r) /\ Control(r)

\* A wallet call touches only the wallet and the caller's account of it.
LEMMA UserCall ==
    ASSUME TypeOK, UsedInv, NEW r \in Req, NEW n \in Int, DecreaseUserQuota(r, n)
    PROVE  Money(r)
  BY ConstantsAssumption DEF Money, TypeOK, UsedInv, DecreaseUserQuota

\* A token call touches only the token and the caller's account of it.
LEMMA TokenCall ==
    ASSUME TypeOK, UsedInv, NEW r \in Req, NEW n \in Int, DecreaseTokenQuota(r, n)
    PROVE  Money(r)
  BY ConstantsAssumption DEF Money, TypeOK, UsedInv, DecreaseTokenQuota

\* A subscription call keeps amount_used between 0 and AmountTotal.
LEMMA SubscriptionCall ==
    ASSUME TypeOK, UsedInv, NEW r \in Req, NEW n \in Int, PostConsumeUserSubscriptionDelta(r, n)
    PROVE  Money(r)
  BY ConstantsAssumption
  DEF Money, TypeOK, UsedInv, PostConsumeUserSubscriptionDelta, SubAccepts, NewUsed

\* A step without a database call moves no quota.
LEMMA NoCallMoney ==
    ASSUME TypeOK, UsedInv, NEW r \in Req, NoCall
    PROVE  Money(r)
  BY ConstantsAssumption DEF Money, TypeOK, UsedInv, NoCall, NoMoney

\* A failing database call moves no quota and counts as one fault.
LEMMA DbErrorMoney ==
    ASSUME TypeOK, UsedInv, NEW r \in Req, DbError
    PROVE  Money(r)
  BY ConstantsAssumption DEF Money, TypeOK, UsedInv, DbError, NoMoney

\* The updates of one request's record keep the type of req.
LEMMA RequestUpdate ==
    ASSUME NEW r \in Req, req \in [Req -> ReqInfo]
    PROVE  /\ \A v \in ReqInfo : [req EXCEPT ![r] = v] \in [Req -> ReqInfo]
           /\ \A n \in Nat : [req EXCEPT ![r].actual = n] \in [Req -> ReqInfo]
           /\ \A n \in Nat : [req EXCEPT ![r].fee = n] \in [Req -> ReqInfo]
           /\ req[r].retry < RetryTimes =>
                 [req EXCEPT ![r].retry = @ + 1] \in [Req -> ReqInfo]
  BY ConstantsAssumption DEF ReqInfo

\* A step of request r keeps the types and the subscription's limit, and leaves the
\* other requests alone.
LEMMA StepTypes ==
    ASSUME IInv, NEW r \in Req, Step(r)
    PROVE  Effects(r)
  <1>1. TypeOK /\ UsedInv /\ Fields(r)
    BY FieldTypes DEF IInv
  <1>2. /\ pc[r] = "unreserve" /\ s[r].funding = "wallet" => s[r].consumed >= s[r].delta
        /\ rpc[r] = "funding" => s[r].attempts < 3
    BY <1>1 DEF IInv, ReqInv, StepInv, SessionInv, Fields
  <1>3. CASE Begin(r)
    <2>1. Money(r)
      BY <1>1, <1>3, ConstantsAssumption
      DEF Begin, NoCall, NoMoney, Money, TypeOK, UsedInv, Fields
    <2>2. Books(r)
      BY <1>1, <1>2, <1>3, SessionUpdate
      DEF Begin, Books, TypeOK, Session, Sources, Fields
    <2>3. Control(r)
      <3>1. req' \in [Req -> ReqInfo] /\ \A q \in Req \ {r} : req'[q] = req[q]
        <4>1. PICK k \in Kinds[r] : req' = [req EXCEPT ![r] = NewRequest(k)]
          BY <1>3 DEF Begin
        <4>2. NewRequest(k) \in ReqInfo
          <5>1. (TokenUnlimited \/ token > TrustQuota) \in BOOLEAN
            OBVIOUS
          <5>2. /\ k.pref \in AllPrefs /\ k.quota \in Nat /\ k.play \in BOOLEAN
                /\ k.task \in BOOLEAN /\ k.free \in BOOLEAN
                /\ 0 \in 0..RetryTimes /\ 0 \in Nat
            BY ConstantsAssumption DEF Kind
          <5>. QED BY <5>1, <5>2, Zenon DEF NewRequest, NoReq, ReqInfo
        <4>. QED BY <1>1, <4>1, <4>2, RequestUpdate DEF TypeOK
      <3>2. /\ pc' \in [Req -> HandlerSteps] /\ rpc' \in [Req -> RefundSteps]
            /\ \A q \in Req \ {r} : pc'[q] = pc[q] /\ rpc'[q] = rpc[q]
        BY <1>1, <1>3 DEF Begin, Goto, Refunder, TypeOK, HandlerSteps, RefundSteps
      <3>. QED BY <3>1, <3>2 DEF Control
    <2>. QED BY <2>1, <2>2, <2>3 DEF Effects
  <1>4. CASE Choose(r)
    <2>1. Money(r)
      BY <1>1, <1>4, ConstantsAssumption
      DEF Choose, NoCall, NoMoney, DbError, Money, TypeOK, UsedInv, Fields
    <2>2. Books(r)
      <3>1. \/ s' = s
          \/ s' = [s EXCEPT ![r] =
                   OpenSession("subscription", IF req[r].quota = 0 THEN 1 ELSE req[r].quota, FALSE)]
        BY <1>1, <1>2, <1>4 DEF Choose, TrySubscription, TryWallet
      <3>2. /\ OpenSession("subscription", IF req[r].quota = 0 THEN 1 ELSE req[r].quota, FALSE)
                 \in Session
        BY <1>1, OpenSessionTypes DEF Sources, Fields, TypeOK, ReqInfo
      <3>. QED BY <1>1, <1>2, <3>1, <3>2, SessionUpdate DEF Books, TypeOK
    <2>3. Control(r)
      BY <1>1, <1>4, ConstantsAssumption
      DEF Choose, TrySubscription, TryWallet, Refunder, Goto, Control, TypeOK,
          ReqInfo, AllPrefs, HandlerSteps, RefundSteps
    <2>. QED BY <2>1, <2>2, <2>3 DEF Effects
  <1>5. CASE CheckWallet(r)
    <2>1. Money(r)
      BY <1>1, <1>5, ConstantsAssumption
      DEF CheckWallet, NoCall, NoMoney, DbError, Money, TypeOK, UsedInv, Fields
    <2>2. Books(r)
      <3>1. ShouldTrust(r) \in BOOLEAN
        BY DEF ShouldTrust
      <3>2. \/ s' = s
            \/ s' = [s EXCEPT ![r] = OpenSession("subscription",
                                        IF req[r].quota = 0 THEN 1 ELSE req[r].quota, FALSE)]
            \/ s' = [s EXCEPT ![r] = OpenSession("wallet",
                                        IF ShouldTrust(r) THEN 0 ELSE req[r].quota, ShouldTrust(r))]
        BY <1>5 DEF CheckWallet, TrySubscription, TryWallet
      <3>3. /\ OpenSession("subscription", IF req[r].quota = 0 THEN 1 ELSE req[r].quota, FALSE)
                 \in Session
            /\ OpenSession("wallet", IF ShouldTrust(r) THEN 0 ELSE req[r].quota, ShouldTrust(r))
                 \in Session
        BY <1>1, <3>1, OpenSessionTypes DEF Sources, TypeOK, ReqInfo
      <3>. QED BY <1>1, <3>2, <3>3, SessionUpdate DEF Books, TypeOK
    <2>3. Control(r)
      BY <1>1, <1>5, ConstantsAssumption
      DEF CheckWallet, TrySubscription, Refunder, Goto, Control, TypeOK, ReqInfo,
          AllPrefs, HandlerSteps, RefundSteps
    <2>. QED BY <2>1, <2>2, <2>3 DEF Effects
  <1>6. CASE CheckToken(r)
    <2>1. Money(r)
      BY <1>1, <1>6, ConstantsAssumption
      DEF CheckToken, NoCall, NoMoney, DbError, Money, TypeOK, UsedInv, Fields
    <2>2. Books(r)
      <3>1. \/ s' = s
          \/ s' = [s EXCEPT ![r] = [s[r] EXCEPT !.tokenConsumed = s[r].amount]]
        BY <1>1, <1>2, <1>6 DEF CheckToken
      <3>2. /\ [s[r] EXCEPT !.tokenConsumed = s[r].amount] \in Session
        BY <1>1, SessionFields DEF Fields, TypeOK
      <3>. QED BY <1>1, <1>2, <3>1, <3>2, SessionUpdate DEF Books, TypeOK
    <2>3. Control(r)
      BY <1>1, <1>6, ConstantsAssumption
      DEF CheckToken, Refunder, Goto, Control, TypeOK, ReqInfo, AllPrefs,
          HandlerSteps, RefundSteps
    <2>. QED BY <2>1, <2>2, <2>3 DEF Effects
  <1>7. CASE TakeToken(r)
    <2>1. Money(r)
      BY <1>1, <1>7, ConstantsAssumption
      DEF TakeToken, DecreaseTokenQuota, NoMoney, DbError, Money, TypeOK, UsedInv,
          Fields
    <2>2. Books(r)
      <3>1. \/ s' = s
          \/ s' = [s EXCEPT ![r] = [s[r] EXCEPT !.tokenConsumed = s[r].amount]]
        BY <1>1, <1>2, <1>7 DEF TakeToken
      <3>2. /\ [s[r] EXCEPT !.tokenConsumed = s[r].amount] \in Session
        BY <1>1, SessionFields DEF Fields, TypeOK
      <3>. QED BY <1>1, <1>2, <3>1, <3>2, SessionUpdate DEF Books, TypeOK
    <2>3. Control(r)
      BY <1>1, <1>7, ConstantsAssumption
      DEF TakeToken, Refunder, Goto, Control, TypeOK, ReqInfo, AllPrefs,
          HandlerSteps, RefundSteps
    <2>. QED BY <2>1, <2>2, <2>3 DEF Effects
  <1>8. CASE PreConsumeWallet(r)
    <2>1. Money(r)
      <3>1. DecreaseUserQuota(r, s[r].amount) \/ NoCall \/ DbError
        BY <1>8 DEF PreConsumeWallet
      <3>. QED BY <1>1, <3>1, UserCall, NoCallMoney, DbErrorMoney DEF Fields
    <2>2. Books(r)
      <3>1. \/ s' = s
          \/ s' = [s EXCEPT ![r] =
                   [s[r] EXCEPT !.preConsumedQuota = s[r].amount, !.consumed = s[r].amount]]
          \/ s' = [s EXCEPT ![r] = [s[r] EXCEPT !.insufficient = FALSE]]
        BY <1>1, <1>2, <1>8 DEF PreConsumeWallet, Funded, NotFunded
      <3>2. /\ [s[r] EXCEPT !.preConsumedQuota = s[r].amount, !.consumed = s[r].amount] \in Session
          /\ [s[r] EXCEPT !.insufficient = FALSE] \in Session
        BY <1>1, SessionFields DEF Fields, TypeOK
      <3>. QED BY <1>1, <1>2, <3>1, <3>2, SessionUpdate DEF Books, TypeOK
    <2>3. Control(r)
      BY <1>1, <1>8, ConstantsAssumption
      DEF PreConsumeWallet, Funded, NotFunded, Refunder, Goto, Control, TypeOK,
          ReqInfo, AllPrefs, HandlerSteps, RefundSteps
    <2>. QED BY <2>1, <2>2, <2>3 DEF Effects
  <1>9. CASE PreConsumeSubscription(r)
    <2>1. Money(r)
      <3>1. PostConsumeUserSubscriptionDelta(r, s[r].amount) \/ NoCall \/ DbError
        BY <1>9 DEF PreConsumeSubscription
      <3>. QED BY <1>1, <3>1, SubscriptionCall, NoCallMoney, DbErrorMoney DEF Fields
    <2>2. Books(r)
      <3>1. \/ s' = s
          \/ s' = [s EXCEPT ![r] =
                   [s[r] EXCEPT !.preConsumedQuota = s[r].amount, !.consumed = s[r].amount]]
          \/ s' = [s EXCEPT ![r] = [s[r] EXCEPT !.insufficient = TRUE]]
          \/ s' = [s EXCEPT ![r] = [s[r] EXCEPT !.insufficient = FALSE]]
        BY <1>1, <1>2, <1>9 DEF PreConsumeSubscription, Funded, NotFunded
      <3>2. /\ [s[r] EXCEPT !.preConsumedQuota = s[r].amount, !.consumed = s[r].amount] \in Session
          /\ [s[r] EXCEPT !.insufficient = TRUE] \in Session
          /\ [s[r] EXCEPT !.insufficient = FALSE] \in Session
        BY <1>1, SessionFields DEF Fields, TypeOK
      <3>. QED BY <1>1, <1>2, <3>1, <3>2, SessionUpdate DEF Books, TypeOK
    <2>3. Control(r)
      BY <1>1, <1>9, ConstantsAssumption
      DEF PreConsumeSubscription, Funded, NotFunded, Refunder, Goto, Control, TypeOK,
          ReqInfo, AllPrefs, HandlerSteps, RefundSteps
    <2>. QED BY <2>1, <2>2, <2>3 DEF Effects
  <1>10. CASE UndoToken(r)
    <2>1. Money(r)
      BY <1>1, <1>10, ConstantsAssumption
      DEF UndoToken, DecreaseTokenQuota, NoCall, NoMoney, DbError, Money, TypeOK,
          UsedInv, Fields
    <2>2. Books(r)
      BY <1>1, <1>2, <1>10, SessionUpdate, OpenSessionTypes
      DEF UndoToken, NewSession, Books, TypeOK, Sources, Fields
    <2>3. Control(r)
      BY <1>1, <1>10, ConstantsAssumption
      DEF UndoToken, Refunder, Goto, Control, TypeOK, ReqInfo, AllPrefs,
          HandlerSteps, RefundSteps
    <2>. QED BY <2>1, <2>2, <2>3 DEF Effects
  <1>11. CASE Rejected(r)
    <2>1. Money(r)
      BY <1>1, <1>11, ConstantsAssumption
      DEF Rejected, NoCall, NoMoney, Money, TypeOK, UsedInv, Fields
    <2>2. Books(r)
      BY <1>1, <1>2, <1>11, SessionUpdate, OpenSessionTypes
      DEF Rejected, NewSession, Books, TypeOK, Sources, Fields
    <2>3. Control(r)
      <3>1. req' \in [Req -> ReqInfo] /\ \A q \in Req \ {r} : req'[q] = req[q]
        BY <1>1, <1>11, RequestUpdate, ConstantsAssumption DEF Rejected, Refunder, TypeOK
      <3>2. /\ pc' \in [Req -> HandlerSteps] /\ rpc' \in [Req -> RefundSteps]
            /\ \A q \in Req \ {r} : pc'[q] = pc[q] /\ rpc'[q] = rpc[q]
        BY <1>1, <1>11 DEF Rejected, Goto, Refunder, TypeOK, HandlerSteps, RefundSteps
      <3>. QED BY <3>1, <3>2 DEF Control
    <2>. QED BY <2>1, <2>2, <2>3 DEF Effects
  <1>12. CASE Retry(r)
    <2>1. Money(r)
      BY <1>1, <1>12, ConstantsAssumption
      DEF Retry, NoCall, NoMoney, Money, TypeOK, UsedInv, Fields
    <2>2. Books(r)
      BY <1>1, <1>2, <1>12, SessionUpdate
      DEF Retry, Books, TypeOK, Session, Sources, Fields
    <2>3. Control(r)
      <3>1. req' \in [Req -> ReqInfo] /\ \A q \in Req \ {r} : req'[q] = req[q]
        BY <1>1, <1>12, RequestUpdate DEF Retry, TypeOK
      <3>2. /\ pc' \in [Req -> HandlerSteps] /\ rpc' \in [Req -> RefundSteps]
            /\ \A q \in Req \ {r} : pc'[q] = pc[q] /\ rpc'[q] = rpc[q]
        BY <1>1, <1>12 DEF Retry, Refunder, TypeOK
      <3>. QED BY <3>1, <3>2 DEF Control
    <2>. QED BY <2>1, <2>2, <2>3 DEF Effects
  <1>13. CASE Succeed(r)
    <2>1. Money(r)
      BY <1>1, <1>13, ConstantsAssumption
      DEF Succeed, NoCall, NoMoney, Money, TypeOK, UsedInv, Fields
    <2>2. Books(r)
      BY <1>1, <1>2, <1>13, SessionUpdate
      DEF Succeed, Books, TypeOK, Session, Sources, Fields
    <2>3. Control(r)
      <3>1. req' \in [Req -> ReqInfo] /\ \A q \in Req \ {r} : req'[q] = req[q]
        <4>1. PICK a \in ActualQuotas : req' = [req EXCEPT ![r].actual = a]
          BY <1>13 DEF Succeed
        <4>. QED BY <1>1, <4>1, RequestUpdate, ConstantsAssumption DEF TypeOK
      <3>2. /\ pc' \in [Req -> HandlerSteps] /\ rpc' \in [Req -> RefundSteps]
            /\ \A q \in Req \ {r} : pc'[q] = pc[q] /\ rpc'[q] = rpc[q]
        BY <1>1, <1>13 DEF Succeed, Goto, Refunder, TypeOK, HandlerSteps, RefundSteps
      <3>. QED BY <3>1, <3>2 DEF Control
    <2>. QED BY <2>1, <2>2, <2>3 DEF Effects
  <1>14. CASE Fail(r)
    <2>1. Money(r)
      BY <1>1, <1>14, ConstantsAssumption
      DEF Fail, NoCall, NoMoney, Money, TypeOK, UsedInv, Fields
    <2>2. Books(r)
      BY <1>1, <1>2, <1>14, SessionUpdate
      DEF Fail, Books, TypeOK, Session, Sources, Fields
    <2>3. Control(r)
      BY <1>1, <1>14, ConstantsAssumption
      DEF Fail, Refunder, Goto, Control, TypeOK, ReqInfo, AllPrefs, HandlerSteps,
          RefundSteps
    <2>. QED BY <2>1, <2>2, <2>3 DEF Effects
  <1>15. CASE ReserveFunding(r)
    <2>1. Money(r)
      <3>1. PICK target \in Reserves :
              LET delta == target - s[r].preConsumedQuota
              IN \/ DecreaseUserQuota(r, delta)
                 \/ PostConsumeUserSubscriptionDelta(r, delta)
                 \/ DbError
        BY <1>15 DEF ReserveFunding
      <3>2. target - s[r].preConsumedQuota \in Int
        BY <1>1, ConstantsAssumption DEF Fields
      <3>. QED BY <1>1, <3>1, <3>2, UserCall, SubscriptionCall, DbErrorMoney
    <2>2. Books(r)
      <3>1. s' = s \/ \E target \in Reserves :
               LET delta == target - s[r].preConsumedQuota
               IN /\ delta > 0
                  /\ \/ s' = [s EXCEPT ![r] = [s[r] EXCEPT !.delta = delta]]
                     \/ s' = [s EXCEPT ![r] = [s[r] EXCEPT !.delta = delta,
                                                          !.consumed = s[r].consumed + delta]]
        BY <1>15 DEF ReserveFunding
      <3>2. ASSUME NEW target \in Reserves, target - s[r].preConsumedQuota > 0
            PROVE  /\ target - s[r].preConsumedQuota \in Nat
                   /\ s[r].consumed + (target - s[r].preConsumedQuota) \in Nat
        BY <1>1, <3>2, ConstantsAssumption DEF Fields
      <3>3. s[r] \in Session
        BY <1>1 DEF TypeOK
      <3>. QED BY <1>1, <3>1, <3>2, <3>3, SessionFields, SessionUpdate DEF Books, TypeOK
    <2>3. Control(r)
      BY <1>1, <1>15, ConstantsAssumption
      DEF ReserveFunding, Refunder, Goto, Control, TypeOK, ReqInfo, AllPrefs,
          HandlerSteps, RefundSteps
    <2>. QED BY <2>1, <2>2, <2>3 DEF Effects
  <1>16. CASE ReserveToken(r)
    <2>1. Money(r)
      BY <1>1, <1>16, UserCall, TokenCall, SubscriptionCall, NoCallMoney, DbErrorMoney
      DEF ReserveToken, Fields
    <2>2. Books(r)
      BY <1>1, <1>2, <1>16, SessionUpdate
      DEF ReserveToken, Books, TypeOK, Session, Sources, Fields
    <2>3. Control(r)
      BY <1>1, <1>16, ConstantsAssumption
      DEF ReserveToken, Refunder, Goto, Control, TypeOK, ReqInfo, AllPrefs,
          HandlerSteps, RefundSteps
    <2>. QED BY <2>1, <2>2, <2>3 DEF Effects
  <1>17. CASE RollbackFundingReserve(r)
    <2>1. Money(r)
      BY <1>1, <1>17, ConstantsAssumption
      DEF RollbackFundingReserve, DecreaseUserQuota,
          PostConsumeUserSubscriptionDelta, SubAccepts, NewUsed, NoMoney, DbError,
          Money, TypeOK, UsedInv, Fields
    <2>2. Books(r)
      <3>1. \/ s[r].funding = "wallet" /\ s' = [s EXCEPT ![r] =
                 [s[r] EXCEPT !.consumed = s[r].consumed - s[r].delta, !.delta = 0]]
            \/ s' = [s EXCEPT ![r] = [s[r] EXCEPT !.delta = 0]]
        BY <1>17 DEF RollbackFundingReserve
      <3>2. pc[r] = "unreserve" /\ (s[r].funding = "wallet" => s[r].consumed - s[r].delta \in Nat)
        BY <1>1, <1>2, <1>17 DEF RollbackFundingReserve, Fields
      <3>3. s[r] \in Session
        BY <1>1 DEF TypeOK
      <3>. QED BY <1>1, <3>1, <3>2, <3>3, SessionFields, SessionUpdate DEF Books, TypeOK
    <2>3. Control(r)
      BY <1>1, <1>17, ConstantsAssumption
      DEF RollbackFundingReserve, Refunder, Goto, Control, TypeOK, ReqInfo, AllPrefs,
          HandlerSteps, RefundSteps
    <2>. QED BY <2>1, <2>2, <2>3 DEF Effects
  <1>18. CASE SettleFunding(r)
    <2>1. Money(r)
      BY <1>1, <1>18, ConstantsAssumption
      DEF SettleFunding, DecreaseUserQuota, PostConsumeUserSubscriptionDelta,
          SubAccepts, NewUsed, NoCall, NoMoney, DbError, Delta, Money, TypeOK,
          UsedInv, Fields
    <2>2. Books(r)
      BY <1>1, <1>2, <1>18, SessionUpdate, FlagTypes
      DEF SettleFunding, Delta, Books, TypeOK, Sources, Fields
    <2>3. Control(r)
      BY <1>1, <1>18, ConstantsAssumption
      DEF SettleFunding, Refunder, Goto, Control, TypeOK, ReqInfo, AllPrefs,
          HandlerSteps, RefundSteps
    <2>. QED BY <2>1, <2>2, <2>3 DEF Effects
  <1>19. CASE SettleToken(r)
    <2>1. Money(r)
      BY <1>1, <1>19, ConstantsAssumption
      DEF SettleToken, DecreaseTokenQuota, NoCall, NoMoney, DbError, Delta, Money,
          TypeOK, UsedInv, Fields
    <2>2. Books(r)
      BY <1>1, <1>2, <1>19, SessionUpdate, FlagTypes
      DEF SettleToken, Delta, Books, TypeOK, Sources, Fields
    <2>3. Control(r)
      BY <1>1, <1>19, ConstantsAssumption
      DEF SettleToken, Refunder, Goto, Control, TypeOK, ReqInfo, AllPrefs,
          HandlerSteps, RefundSteps
    <2>. QED BY <2>1, <2>2, <2>3 DEF Effects
  <1>20. CASE Refund(r)
    <2>1. Money(r)
      BY <1>1, <1>20, ConstantsAssumption
      DEF Refund, NoCall, NoMoney, Money, TypeOK, UsedInv, Fields
    <2>2. Books(r)
      BY <1>1, <1>2, <1>20, SessionUpdate, FlagTypes
      DEF Refund, Books, TypeOK, Sources, Fields
    <2>3. Control(r)
      BY <1>1, <1>20, ConstantsAssumption
      DEF Refund, Goto, Control, TypeOK, ReqInfo, AllPrefs, HandlerSteps,
          RefundSteps
    <2>. QED BY <2>1, <2>2, <2>3 DEF Effects
  <1>21. CASE ChargeFee(r)
    <2>1. Money(r)
      BY <1>1, <1>21, ConstantsAssumption
      DEF ChargeFee, DecreaseUserQuota, PostConsumeUserSubscriptionDelta, SubAccepts,
          NewUsed, NoCall, NoMoney, DbError, Money, TypeOK, UsedInv, Fields
    <2>2. Books(r)
      BY <1>1, <1>2, <1>21, SessionUpdate
      DEF ChargeFee, Books, TypeOK, Session, Sources, Fields
    <2>3. Control(r)
      <3>1. req' \in [Req -> ReqInfo] /\ \A q \in Req \ {r} : req'[q] = req[q]
        <4>1. req' = req \/ \E fee \in Fees : req' = [req EXCEPT ![r].fee = fee]
          BY <1>21 DEF ChargeFee
        <4>2. CASE req' = req
          BY <1>1, <4>2 DEF TypeOK
        <4>3. CASE \E fee \in Fees : req' = [req EXCEPT ![r].fee = fee]
          <5>1. PICK fee \in Fees : req' = [req EXCEPT ![r].fee = fee]
            BY <4>3
          <5>. QED BY <1>1, <5>1, RequestUpdate, ConstantsAssumption DEF TypeOK
        <4>. QED BY <4>1, <4>2, <4>3
      <3>2. /\ pc' \in [Req -> HandlerSteps] /\ rpc' \in [Req -> RefundSteps]
            /\ \A q \in Req \ {r} : pc'[q] = pc[q] /\ rpc'[q] = rpc[q]
        BY <1>1, <1>21 DEF ChargeFee, Goto, Refunder, TypeOK, HandlerSteps, RefundSteps
      <3>. QED BY <3>1, <3>2 DEF Control
    <2>. QED BY <2>1, <2>2, <2>3 DEF Effects
  <1>22. CASE ChargeFeeToken(r)
    <2>1. Money(r)
      BY <1>1, <1>22, UserCall, TokenCall, SubscriptionCall, NoCallMoney, DbErrorMoney
      DEF ChargeFeeToken, Fields
    <2>2. Books(r)
      BY <1>1, <1>2, <1>22, SessionUpdate
      DEF ChargeFeeToken, Books, TypeOK, Session, Sources, Fields
    <2>3. Control(r)
      BY <1>1, <1>22, ConstantsAssumption
      DEF ChargeFeeToken, Refunder, Goto, Control, TypeOK, ReqInfo, AllPrefs,
          HandlerSteps, RefundSteps
    <2>. QED BY <2>1, <2>2, <2>3 DEF Effects
  <1>23. CASE RefundWallet(r)
    <2>1. Money(r)
      BY <1>1, <1>23, ConstantsAssumption
      DEF RefundWallet, DecreaseUserQuota, NoMoney, DbError, Money, TypeOK, UsedInv,
          Fields
    <2>2. Books(r)
      BY <1>1, <1>2, <1>23, SessionUpdate
      DEF RefundWallet, Books, TypeOK, Session, Sources, Fields
    <2>3. Control(r)
      BY <1>1, <1>23, ConstantsAssumption
      DEF RefundWallet, AfterFundingRefund, Handler, Control, TypeOK, ReqInfo,
          AllPrefs, HandlerSteps, RefundSteps
    <2>. QED BY <2>1, <2>2, <2>3 DEF Effects
  <1>24. CASE RefundSubscription(r)
    <2>1. Money(r)
      BY <1>1, <1>24, ConstantsAssumption
      DEF RefundSubscription, PostConsumeUserSubscriptionDelta, SubAccepts, NewUsed,
          Money, TypeOK, UsedInv, Fields
    <2>2. Books(r)
      <3>1. s' = s \/ s' = [s EXCEPT ![r] = [s[r] EXCEPT !.attempts = s[r].attempts + 1]]
        BY <1>24 DEF RefundSubscription
      <3>2. s[r].attempts + 1 \in 0..3 /\ s[r].attempts + 1 \in Nat
        BY <1>1, <1>2, <1>24 DEF RefundSubscription, Fields
      <3>3. s[r] \in Session
        BY <1>1 DEF TypeOK
      <3>. QED BY <1>1, <3>1, <3>2, <3>3, SessionFields, SessionUpdate DEF Books, TypeOK
    <2>3. Control(r)
      BY <1>1, <1>24, ConstantsAssumption
      DEF RefundSubscription, AfterFundingRefund, Handler, Control, TypeOK, ReqInfo,
          AllPrefs, HandlerSteps, RefundSteps
    <2>. QED BY <2>1, <2>2, <2>3 DEF Effects
  <1>25. CASE RefundExtra(r)
    <2>1. Money(r)
      BY <1>1, <1>25, ConstantsAssumption
      DEF RefundExtra, PostConsumeUserSubscriptionDelta, SubAccepts, NewUsed,
          NoMoney, DbError, Money, TypeOK, UsedInv, Fields
    <2>2. Books(r)
      BY <1>1, <1>2, <1>25, SessionUpdate
      DEF RefundExtra, Books, TypeOK, Session, Sources, Fields
    <2>3. Control(r)
      BY <1>1, <1>25, ConstantsAssumption
      DEF RefundExtra, Handler, Control, TypeOK, ReqInfo, AllPrefs, HandlerSteps,
          RefundSteps
    <2>. QED BY <2>1, <2>2, <2>3 DEF Effects
  <1>26. CASE RefundToken(r)
    <2>1. Money(r)
      BY <1>1, <1>26, ConstantsAssumption
      DEF RefundToken, DecreaseTokenQuota, NoCall, NoMoney, DbError, Money, TypeOK,
          UsedInv, Fields
    <2>2. Books(r)
      BY <1>1, <1>2, <1>26, SessionUpdate
      DEF RefundToken, Books, TypeOK, Session, Sources, Fields
    <2>3. Control(r)
      BY <1>1, <1>26, ConstantsAssumption
      DEF RefundToken, Handler, Control, TypeOK, ReqInfo, AllPrefs, HandlerSteps,
          RefundSteps
    <2>. QED BY <2>1, <2>2, <2>3 DEF Effects
  <1>. QED BY <1>3, <1>4, <1>5, <1>6, <1>7, <1>8, <1>9, <1>10, <1>11, <1>12, <1>13,
             <1>14, <1>15, <1>16, <1>17, <1>18, <1>19, <1>20, <1>21, <1>22, <1>23,
             <1>24, <1>25, <1>26 DEF Step

---------------------------------------------------------------------------
\* Each action keeps the invariant of the request that takes it.  In each lemma
\* B1, B2, ... are the branches of the action, described by their effect on r.

\* Begin keeps the invariant of its request.
LEMMA BeginInv ==
    ASSUME IInv, NEW r \in Req, Begin(r)
    PROVE  ReqInv(r)'
  <1> DEFINE B1 ==
             /\ pc'[r] = "flight" /\ rpc'[r] = rpc[r] /\ s'[r] = s[r]
             /\ req'[r].actual = 0 /\ req'[r].fee = 0 /\ charge'[r] = charge[r]
             /\ faults' = faults
  <1> DEFINE B2 ==
             /\ pc'[r] = "choose" /\ rpc'[r] = rpc[r] /\ s'[r] = s[r]
             /\ req'[r].actual = 0 /\ req'[r].fee = 0 /\ charge'[r] = charge[r]
             /\ faults' = faults
  <1>1. Fields(r) /\ ReqInv(r)
    BY FieldTypes DEF IInv
  <1>2. /\ pc[r] = "idle"
        /\ B1 \/ B2
    BY <1>1, ConstantsAssumption
    DEF Begin, NewRequest, NoReq, Goto, NoCall, NoMoney, DbError, Refunder, IInv,
        TypeOK, ReqInfo, Session, Sources, NoSession
  <1>. USE DEF ReqInv, StepInv, SessionInv, NoSession, Fields, Sources, HandlerSteps,
              RefundSteps, EarlySteps, LiveSteps
  <1>3. StepInv(r)'
    BY <1>1, <1>2
  <1>4. SessionInv(r)'
    BY <1>1, <1>2
  <1>5. TakenInv(r)'
    BY <1>1, <1>2 DEF TakenInv
  <1>6. (faults = 0 => FaultFreeInv(r))'
    BY <1>1, <1>2
    DEF TakenInv, FaultFreeInv, Balanced, TokenBalanced, FundingBalanced, OwedToken,
        OwedFunding, Held, HeldToken, Committed
  <1>. QED BY <1>3, <1>4, <1>5, <1>6

\* Choose keeps the invariant of its request.
LEMMA ChooseInv ==
    ASSUME IInv, NEW r \in Req, Choose(r)
    PROVE  ReqInv(r)'
  <1> DEFINE B1 ==
             /\ pc'[r] = "wallet" /\ rpc'[r] = rpc[r] /\ s'[r] = s[r] /\ req'[r] = req[r]
             /\ charge'[r] = charge[r] /\ faults' = faults
  <1> DEFINE B2 ==
             /\ pc'[r] = "token" /\ rpc'[r] = rpc[r] /\ Fresh(r)
             /\ s'[r].funding = "subscription"
             /\ req'[r] = req[r] /\ charge'[r] = charge[r] /\ faults' = faults
  <1> DEFINE B3 ==
             /\ pc'[r] = "rejected" /\ rpc'[r] = rpc[r] /\ s'[r] = s[r] /\ req'[r] = req[r]
             /\ charge'[r] = charge[r] /\ faults' = faults + 1
  <1>1. Fields(r) /\ ReqInv(r)
    BY FieldTypes DEF IInv
  <1>2. /\ pc[r] = "choose"
        /\ B1 \/ B2 \/ B3
    BY <1>1, ConstantsAssumption
    DEF Choose, TrySubscription, TryWallet, NewSession, OpenSession, Goto, NoCall,
        NoMoney, DbError, Refunder, IInv, TypeOK, ReqInfo, Session, Sources, NoSession,
        Fresh
  <1>. USE DEF ReqInv, StepInv, SessionInv, NoSession, Fields, Sources, HandlerSteps,
              RefundSteps, EarlySteps, LiveSteps, Fresh
  <1>3. StepInv(r)'
    BY <1>1, <1>2
  <1>4. SessionInv(r)'
    BY <1>1, <1>2
  <1>5. TakenInv(r)'
    BY <1>1, <1>2 DEF TakenInv
  <1>6. (faults = 0 => FaultFreeInv(r))'
    BY <1>1, <1>2
    DEF TakenInv, FaultFreeInv, Balanced, TokenBalanced, FundingBalanced, OwedToken,
        OwedFunding, Held, HeldToken, Committed
  <1>. QED BY <1>3, <1>4, <1>5, <1>6

\* CheckWallet keeps the invariant of its request.
LEMMA CheckWalletInv ==
    ASSUME IInv, NEW r \in Req, CheckWallet(r)
    PROVE  ReqInv(r)'
  <1> DEFINE B1 ==
             /\ pc'[r] = "token" /\ rpc'[r] = rpc[r] /\ Fresh(r)
             /\ s'[r].funding = "subscription"
             /\ req'[r] = req[r] /\ charge'[r] = charge[r] /\ faults' = faults
  <1> DEFINE B2 ==
             /\ pc'[r] = "rejected" /\ rpc'[r] = rpc[r] /\ s'[r] = s[r] /\ req'[r] = req[r]
             /\ charge'[r] = charge[r] /\ faults' = faults
  <1> DEFINE B3 ==
             /\ pc'[r] = "token" /\ rpc'[r] = rpc[r] /\ Fresh(r) /\ s'[r].funding = "wallet"
             /\ req'[r] = req[r] /\ charge'[r] = charge[r] /\ faults' = faults
  <1> DEFINE B4 ==
             /\ pc'[r] = "fund" /\ rpc'[r] = rpc[r]
             /\ Fresh(r) /\ s'[r].funding = "wallet" /\ s'[r].amount = 0 /\ req'[r] = req[r]
             /\ charge'[r] = charge[r] /\ faults' = faults
  <1> DEFINE B5 ==
             /\ pc'[r] = "rejected" /\ rpc'[r] = rpc[r] /\ s'[r] = s[r] /\ req'[r] = req[r]
             /\ charge'[r] = charge[r] /\ faults' = faults + 1
  <1>1. Fields(r) /\ ReqInv(r)
    BY FieldTypes DEF IInv
  <1>2. /\ pc[r] = "wallet"
        /\ B1 \/ B2 \/ B3 \/ B4 \/ B5
    BY <1>1, ConstantsAssumption
    DEF CheckWallet, TrySubscription, OpenSession, ShouldTrust, Goto, NoCall, NoMoney,
        DbError, Refunder, IInv, TypeOK, ReqInfo, Session, Sources, NoSession, Fresh
  <1>. USE DEF ReqInv, StepInv, SessionInv, NoSession, Fields, Sources, HandlerSteps,
              RefundSteps, EarlySteps, LiveSteps, Fresh
  <1>3. StepInv(r)'
    BY <1>1, <1>2
  <1>4. SessionInv(r)'
    BY <1>1, <1>2
  <1>5. TakenInv(r)'
    BY <1>1, <1>2 DEF TakenInv
  <1>6. (faults = 0 => FaultFreeInv(r))'
    BY <1>1, <1>2
    DEF TakenInv, FaultFreeInv, Balanced, TokenBalanced, FundingBalanced, OwedToken,
        OwedFunding, Held, HeldToken, Committed
  <1>. QED BY <1>3, <1>4, <1>5, <1>6

\* CheckToken keeps the invariant of its request.
LEMMA CheckTokenInv ==
    ASSUME IInv, NEW r \in Req, CheckToken(r)
    PROVE  ReqInv(r)'
  <1> DEFINE B1 ==
             /\ req[r].play /\ pc'[r] = "fund" /\ rpc'[r] = rpc[r] /\ KeepId(r)
             /\ s'[r].preConsumedQuota = s[r].preConsumedQuota
             /\ s'[r].tokenConsumed = s[r].amount
             /\ s'[r].extraReserved = s[r].extraReserved
             /\ KeepHold(r) /\ KeepFlags(r) /\ req'[r] = req[r] /\ charge'[r] = charge[r]
             /\ faults' = faults
  <1> DEFINE B2 ==
             /\ ~req[r].play /\ pc'[r] = "take" /\ rpc'[r] = rpc[r] /\ s'[r] = s[r]
             /\ req'[r] = req[r] /\ charge'[r] = charge[r] /\ faults' = faults
  <1> DEFINE B3 ==
             /\ pc'[r] = "rejected" /\ rpc'[r] = rpc[r] /\ s'[r] = s[r] /\ req'[r] = req[r]
             /\ charge'[r] = charge[r] /\ faults' = faults
  <1> DEFINE B4 ==
             /\ pc'[r] = "rejected" /\ rpc'[r] = rpc[r] /\ s'[r] = s[r] /\ req'[r] = req[r]
             /\ charge'[r] = charge[r] /\ faults' = faults + 1
  <1>1. Fields(r) /\ ReqInv(r)
    BY FieldTypes DEF IInv
  <1>2. /\ pc[r] = "token"
        /\ B1 \/ B2 \/ B3 \/ B4
    BY <1>1, ConstantsAssumption
    DEF CheckToken, Goto, NoCall, NoMoney, DbError, Refunder, IInv, TypeOK, ReqInfo,
        Session, Sources, NoSession, KeepId, KeepHold, KeepFlags
  <1>. USE DEF ReqInv, StepInv, SessionInv, NoSession, Fields, Sources, HandlerSteps,
              RefundSteps, EarlySteps, LiveSteps, KeepId, KeepHold, KeepFlags
  <1>3. StepInv(r)'
    BY <1>1, <1>2
  <1>4. SessionInv(r)'
    BY <1>1, <1>2
  <1>5. TakenInv(r)'
    BY <1>1, <1>2 DEF TakenInv
  <1>6. (faults = 0 => FaultFreeInv(r))'
    BY <1>1, <1>2
    DEF TakenInv, FaultFreeInv, Balanced, TokenBalanced, FundingBalanced, OwedToken,
        OwedFunding, Held, HeldToken, Committed
  <1>. QED BY <1>3, <1>4, <1>5, <1>6

\* TakeToken keeps the invariant of its request.
LEMMA TakeTokenInv ==
    ASSUME IInv, NEW r \in Req, TakeToken(r)
    PROVE  ReqInv(r)'
  <1> DEFINE B1 ==
             /\ pc'[r] = "fund" /\ rpc'[r] = rpc[r] /\ KeepId(r)
             /\ s'[r].preConsumedQuota = s[r].preConsumedQuota
             /\ s'[r].tokenConsumed = s[r].amount
             /\ s'[r].extraReserved = s[r].extraReserved
             /\ KeepHold(r) /\ KeepFlags(r) /\ req'[r] = req[r]
             /\ charge'[r].wallet = charge[r].wallet
             /\ charge'[r].token = charge[r].token + s[r].amount
             /\ charge'[r].sub = charge[r].sub
             /\ faults' = faults
  <1> DEFINE B2 ==
             /\ pc'[r] = "rejected" /\ rpc'[r] = rpc[r] /\ s'[r] = s[r] /\ req'[r] = req[r]
             /\ charge'[r] = charge[r] /\ faults' = faults + 1
  <1>1. Fields(r) /\ ReqInv(r)
    BY FieldTypes DEF IInv
  <1>2. /\ pc[r] = "take" /\ ~req[r].play
        /\ B1 \/ B2
    BY <1>1, ConstantsAssumption
    DEF TakeToken, DecreaseTokenQuota, ReqInv, SessionInv, Goto, NoCall, NoMoney,
        DbError, Refunder, IInv, TypeOK, ReqInfo, Session, Sources, NoSession, KeepId,
        KeepHold, KeepFlags
  <1>. USE DEF ReqInv, StepInv, SessionInv, NoSession, Fields, Sources, HandlerSteps,
              RefundSteps, EarlySteps, LiveSteps, KeepId, KeepHold, KeepFlags
  <1>3. StepInv(r)'
    BY <1>1, <1>2
  <1>4. SessionInv(r)'
    BY <1>1, <1>2
  <1>5. TakenInv(r)'
    BY <1>1, <1>2 DEF TakenInv
  <1>6. (faults = 0 => FaultFreeInv(r))'
    BY <1>1, <1>2
    DEF TakenInv, FaultFreeInv, Balanced, TokenBalanced, FundingBalanced, OwedToken,
        OwedFunding, Held, HeldToken, Committed
  <1>. QED BY <1>3, <1>4, <1>5, <1>6

\* PreConsumeWallet keeps the invariant of its request.
LEMMA PreConsumeWalletInv ==
    ASSUME IInv, NEW r \in Req, PreConsumeWallet(r)
    PROVE  ReqInv(r)'
  <1> DEFINE B1 ==
             /\ pc'[r] = "flight" /\ rpc'[r] = rpc[r] /\ KeepId(r)
             /\ s'[r].preConsumedQuota = s[r].amount
             /\ s'[r].tokenConsumed = s[r].tokenConsumed
             /\ s'[r].extraReserved = s[r].extraReserved
             /\ s'[r].consumed = s[r].amount /\ s'[r].delta = s[r].delta /\ KeepFlags(r)
             /\ req'[r] = req[r]
             /\ charge'[r].wallet = charge[r].wallet + s[r].amount
             /\ charge'[r].token = charge[r].token /\ charge'[r].sub = charge[r].sub
             /\ faults' = faults
  <1> DEFINE B2 ==
             /\ s[r].amount = 0 /\ pc'[r] = "flight" /\ rpc'[r] = rpc[r] /\ KeepId(r)
             /\ s'[r].preConsumedQuota = s[r].amount
             /\ s'[r].tokenConsumed = s[r].tokenConsumed
             /\ s'[r].extraReserved = s[r].extraReserved
             /\ s'[r].consumed = s[r].amount /\ s'[r].delta = s[r].delta /\ KeepFlags(r)
             /\ req'[r] = req[r] /\ charge'[r] = charge[r] /\ faults' = faults
  <1> DEFINE B3 ==
             /\ pc'[r] = "undo" /\ rpc'[r] = rpc[r] /\ KeepId(r) /\ KeepBooks(r)
             /\ KeepHold(r)
             /\ s'[r].settled = s[r].settled /\ s'[r].fundingSettled = s[r].fundingSettled
             /\ s'[r].refunded = s[r].refunded
             /\ req'[r] = req[r] /\ charge'[r] = charge[r] /\ faults' = faults + 1
  <1>1. Fields(r) /\ ReqInv(r)
    BY FieldTypes DEF IInv
  <1>2. /\ pc[r] = "fund" /\ s[r].funding = "wallet"
        /\ B1 \/ B2 \/ B3
    BY <1>1, ConstantsAssumption
    DEF PreConsumeWallet, Funded, NotFunded, DecreaseUserQuota, Goto, NoCall, NoMoney,
        DbError, Refunder, IInv, TypeOK, ReqInfo, Session, Sources, NoSession, KeepId,
        KeepBooks, KeepHold, KeepFlags
  <1>. USE DEF ReqInv, StepInv, SessionInv, NoSession, Fields, Sources, HandlerSteps,
              RefundSteps, EarlySteps, LiveSteps, KeepId, KeepBooks, KeepHold,
              KeepFlags
  <1>3. StepInv(r)'
    BY <1>1, <1>2
  <1>4. SessionInv(r)'
    <2>1. CASE B1
      BY <1>1, <1>2, <2>1
    <2>2. CASE B2
      BY <1>1, <1>2, <2>2
    <2>3. CASE B3
      BY <1>1, <1>2, <2>3
    <2>. QED BY <1>2, <2>1, <2>2, <2>3
  <1>5. TakenInv(r)'
    BY <1>1, <1>2 DEF TakenInv
  <1>6. (faults = 0 => FaultFreeInv(r))'
    BY <1>1, <1>2
    DEF TakenInv, FaultFreeInv, Balanced, TokenBalanced, FundingBalanced, OwedToken,
        OwedFunding, Held, HeldToken, Committed
  <1>. QED BY <1>3, <1>4, <1>5, <1>6

\* PreConsumeSubscription keeps the invariant of its request.
LEMMA PreConsumeSubscriptionInv ==
    ASSUME IInv, NEW r \in Req, PreConsumeSubscription(r)
    PROVE  ReqInv(r)'
  <1> DEFINE B1 ==
             /\ pc'[r] = "flight" /\ rpc'[r] = rpc[r] /\ KeepId(r)
             /\ s'[r].preConsumedQuota = s[r].amount
             /\ s'[r].tokenConsumed = s[r].tokenConsumed
             /\ s'[r].extraReserved = s[r].extraReserved
             /\ s'[r].consumed = s[r].amount /\ s'[r].delta = s[r].delta /\ KeepFlags(r)
             /\ req'[r] = req[r]
             /\ charge'[r].wallet = charge[r].wallet /\ charge'[r].token = charge[r].token
             /\ charge'[r].sub = charge[r].sub + s[r].amount
             /\ faults' = faults
  <1> DEFINE B2 ==
             /\ pc'[r] = "undo" /\ rpc'[r] = rpc[r] /\ KeepId(r) /\ KeepBooks(r)
             /\ KeepHold(r)
             /\ s'[r].settled = s[r].settled /\ s'[r].fundingSettled = s[r].fundingSettled
             /\ s'[r].refunded = s[r].refunded
             /\ req'[r] = req[r] /\ charge'[r] = charge[r] /\ faults' = faults
  <1> DEFINE B3 ==
             /\ pc'[r] = "undo" /\ rpc'[r] = rpc[r] /\ KeepId(r) /\ KeepBooks(r)
             /\ KeepHold(r)
             /\ s'[r].settled = s[r].settled /\ s'[r].fundingSettled = s[r].fundingSettled
             /\ s'[r].refunded = s[r].refunded
             /\ req'[r] = req[r] /\ charge'[r] = charge[r] /\ faults' = faults + 1
  <1>1. Fields(r) /\ ReqInv(r)
    BY FieldTypes DEF IInv
  <1>2. /\ pc[r] = "fund" /\ s[r].funding = "subscription"
        /\ B1 \/ B2 \/ B3
    BY <1>1, ConstantsAssumption
    DEF PreConsumeSubscription, Funded, NotFunded, PostConsumeUserSubscriptionDelta,
        Goto, NoCall, NoMoney, DbError, Refunder, IInv, TypeOK, ReqInfo, Session,
        Sources, NoSession, KeepId, KeepBooks, KeepHold, KeepFlags
  <1>. USE DEF ReqInv, StepInv, SessionInv, NoSession, Fields, Sources, HandlerSteps,
              RefundSteps, EarlySteps, LiveSteps, KeepId, KeepBooks, KeepHold,
              KeepFlags
  <1>3. StepInv(r)'
    BY <1>1, <1>2
  <1>4. SessionInv(r)'
    BY <1>1, <1>2
  <1>5. TakenInv(r)'
    BY <1>1, <1>2 DEF TakenInv
  <1>6. (faults = 0 => FaultFreeInv(r))'
    <2>. USE DEF TakenInv, FaultFreeInv, Balanced, TokenBalanced, FundingBalanced,
                OwedToken, OwedFunding, Held, HeldToken, Committed
    <2>1. CASE B1
      BY <1>1, <1>2, <2>1
    <2>2. CASE B2
      BY <1>1, <1>2, <2>2
    <2>3. CASE B3       \* a database call failed
      BY <1>1, <2>3
    <2>. QED BY <1>2, <2>1, <2>2, <2>3
  <1>. QED BY <1>3, <1>4, <1>5, <1>6

\* UndoToken keeps the invariant of its request.
LEMMA UndoTokenInv ==
    ASSUME IInv, NEW r \in Req, UndoToken(r)
    PROVE  ReqInv(r)'
  <1> DEFINE B1 ==
             /\ ~req[r].play /\ rpc'[r] = rpc[r] /\ Fresh(r) /\ s'[r].funding = "none"
             /\ req'[r] = req[r]
             /\ charge'[r].wallet = charge[r].wallet /\ charge'[r].token \in Int
             /\ charge'[r].token + s[r].tokenConsumed = charge[r].token
             /\ charge'[r].sub = charge[r].sub
             /\ faults' = faults
  <1> DEFINE B2 ==
             /\ rpc'[r] = rpc[r] /\ Fresh(r) /\ s'[r].funding = "none" /\ req'[r] = req[r]
             /\ charge'[r] = charge[r] /\ faults' = faults + 1
  <1> DEFINE B3 ==
             /\ (s[r].tokenConsumed = 0 \/ req[r].play) /\ rpc'[r] = rpc[r]
             /\ Fresh(r) /\ s'[r].funding = "none" /\ req'[r] = req[r]
             /\ charge'[r] = charge[r]
             /\ faults' = faults
  <1>1. Fields(r) /\ ReqInv(r)
    BY FieldTypes DEF IInv
  <1>2. /\ pc[r] = "undo" /\ pc'[r] \in {"wallet", "rejected"}
        /\ B1 \/ B2 \/ B3
    BY <1>1, ConstantsAssumption
    DEF UndoToken, DecreaseTokenQuota, NewSession, OpenSession, Goto, NoCall, NoMoney,
        DbError, Refunder, IInv, TypeOK, ReqInfo, Session, Sources, NoSession, Fresh
  <1>. USE DEF ReqInv, StepInv, SessionInv, NoSession, Fields, Sources, HandlerSteps,
              RefundSteps, EarlySteps, LiveSteps, Fresh
  <1>3. StepInv(r)'
    BY <1>1, <1>2
  <1>4. SessionInv(r)'
    BY <1>1, <1>2
  <1>5. TakenInv(r)'
    BY <1>1, <1>2 DEF TakenInv
  <1>6. (faults = 0 => FaultFreeInv(r))'
    <2>1. CASE B1
      <3>. SUFFICES ASSUME faults' = 0 PROVE FaultFreeInv(r)' OBVIOUS
      <3>0. FaultFreeInv(r) BY <1>1, <2>1
      <3>1. TokenBalanced(r)'
        BY <1>1, <1>2, <2>1, <3>0
        DEF FaultFreeInv, Balanced, TokenBalanced, OwedToken, HeldToken
      <3>2. FundingBalanced(r)'
        BY <1>1, <1>2, <2>1, <3>0
        DEF FaultFreeInv, Balanced, FundingBalanced, OwedFunding, Held, Committed
      <3>. QED BY <1>1, <1>2, <2>1, <3>0, <3>1, <3>2 DEF FaultFreeInv, Balanced
    <2>2. CASE B2       \* a database call failed
      BY <1>1, <2>2
    <2>3. CASE B3
      BY <1>1, <1>2, <2>3
      DEF TakenInv, FaultFreeInv, Balanced, TokenBalanced, FundingBalanced, OwedToken,
          OwedFunding, Held, HeldToken, Committed
    <2>. QED BY <1>2, <2>1, <2>2, <2>3
  <1>. QED BY <1>3, <1>4, <1>5, <1>6

\* Rejected keeps the invariant of its request.
LEMMA RejectedInv ==
    ASSUME IInv, NEW r \in Req, Rejected(r)
    PROVE  ReqInv(r)'
  <1> DEFINE B1 ==
             /\ pc'[r] = "done" /\ rpc'[r] = rpc[r] /\ Fresh(r) /\ s'[r].funding = "none"
             /\ req'[r] = req[r] /\ charge'[r] = charge[r] /\ faults' = faults
  <1> DEFINE B2 ==
             /\ pc'[r] = "choose" /\ rpc'[r] = rpc[r] /\ Fresh(r) /\ s'[r].funding = "none"
             /\ req'[r].play = req[r].play /\ req'[r].actual = req[r].actual
             /\ req'[r].fee = req[r].fee
             /\ charge'[r] = charge[r] /\ faults' = faults
  <1>1. Fields(r) /\ ReqInv(r)
    BY FieldTypes DEF IInv
  <1>2. /\ pc[r] = "rejected"
        /\ B1 \/ B2
    BY <1>1, ConstantsAssumption
    DEF Rejected, NewSession, OpenSession, Goto, NoCall, NoMoney, DbError, Refunder,
        IInv, TypeOK, ReqInfo, Session, Sources, NoSession, Fresh
  <1>. USE DEF ReqInv, StepInv, SessionInv, NoSession, Fields, Sources, HandlerSteps,
              RefundSteps, EarlySteps, LiveSteps, Fresh
  <1>3. StepInv(r)'
    BY <1>1, <1>2
  <1>4. SessionInv(r)'
    BY <1>1, <1>2
  <1>5. TakenInv(r)'
    BY <1>1, <1>2 DEF TakenInv
  <1>6. (faults = 0 => FaultFreeInv(r))'
    BY <1>1, <1>2
    DEF TakenInv, FaultFreeInv, Balanced, TokenBalanced, FundingBalanced, OwedToken,
        OwedFunding, Held, HeldToken, Committed
  <1>. QED BY <1>3, <1>4, <1>5, <1>6

\* Retry keeps the invariant of its request.
LEMMA RetryInv ==
    ASSUME IInv, NEW r \in Req, Retry(r)
    PROVE  ReqInv(r)'
  <1> DEFINE B1 ==
             /\ pc'[r] = "flight" /\ rpc'[r] = rpc[r] /\ s'[r] = s[r]
             /\ req'[r].play = req[r].play /\ req'[r].actual = req[r].actual
             /\ req'[r].fee = req[r].fee
             /\ charge'[r] = charge[r] /\ faults' = faults
  <1>1. Fields(r) /\ ReqInv(r)
    BY FieldTypes DEF IInv
  <1>2. /\ pc[r] = "flight"
        /\ B1
    BY <1>1, ConstantsAssumption
    DEF Retry, Goto, NoCall, NoMoney, DbError, Refunder, IInv, TypeOK, ReqInfo,
        Session, Sources, NoSession
  <1>. USE DEF ReqInv, StepInv, SessionInv, NoSession, Fields, Sources, HandlerSteps,
              RefundSteps, EarlySteps, LiveSteps
  <1>3. StepInv(r)'
    BY <1>1, <1>2
  <1>4. SessionInv(r)'
    BY <1>1, <1>2
  <1>5. TakenInv(r)'
    BY <1>1, <1>2 DEF TakenInv
  <1>6. (faults = 0 => FaultFreeInv(r))'
    BY <1>1, <1>2
    DEF TakenInv, FaultFreeInv, Balanced, TokenBalanced, FundingBalanced, OwedToken,
        OwedFunding, Held, HeldToken, Committed
  <1>. QED BY <1>3, <1>4, <1>5, <1>6

\* Succeed keeps the invariant of its request.
LEMMA SucceedInv ==
    ASSUME IInv, NEW r \in Req, Succeed(r)
    PROVE  ReqInv(r)'
  <1> DEFINE B1 ==
             /\ pc'[r] = "settle" /\ rpc'[r] = rpc[r] /\ s'[r] = s[r]
             /\ req'[r].play = req[r].play /\ req'[r].actual = req'[r].actual
             /\ req'[r].fee = req[r].fee
             /\ charge'[r] = charge[r] /\ faults' = faults
  <1>1. Fields(r) /\ ReqInv(r)
    BY FieldTypes DEF IInv
  <1>2. /\ pc[r] = "flight" /\ req'[r].actual \in Nat
        /\ B1
    BY <1>1, ConstantsAssumption
    DEF Succeed, Goto, NoCall, NoMoney, DbError, Refunder, IInv, TypeOK, ReqInfo,
        Session, Sources, NoSession
  <1>. USE DEF ReqInv, StepInv, SessionInv, NoSession, Fields, Sources, HandlerSteps,
              RefundSteps, EarlySteps, LiveSteps
  <1>3. StepInv(r)'
    BY <1>1, <1>2
  <1>4. SessionInv(r)'
    BY <1>1, <1>2
  <1>5. TakenInv(r)'
    BY <1>1, <1>2 DEF TakenInv
  <1>6. (faults = 0 => FaultFreeInv(r))'
    BY <1>1, <1>2
    DEF TakenInv, FaultFreeInv, Balanced, TokenBalanced, FundingBalanced, OwedToken,
        OwedFunding, Held, HeldToken, Committed
  <1>. QED BY <1>3, <1>4, <1>5, <1>6

\* Fail keeps the invariant of its request.
LEMMA FailInv ==
    ASSUME IInv, NEW r \in Req, Fail(r)
    PROVE  ReqInv(r)'
  <1> DEFINE B1 ==
             /\ pc'[r] = "fail" /\ rpc'[r] = rpc[r] /\ s'[r] = s[r] /\ req'[r] = req[r]
             /\ charge'[r] = charge[r] /\ faults' = faults
  <1>1. Fields(r) /\ ReqInv(r)
    BY FieldTypes DEF IInv
  <1>2. /\ pc[r] = "flight"
        /\ B1
    BY <1>1, ConstantsAssumption
    DEF Fail, Goto, NoCall, NoMoney, DbError, Refunder, IInv, TypeOK, ReqInfo, Session,
        Sources, NoSession
  <1>. USE DEF ReqInv, StepInv, SessionInv, NoSession, Fields, Sources, HandlerSteps,
              RefundSteps, EarlySteps, LiveSteps
  <1>3. StepInv(r)'
    BY <1>1, <1>2
  <1>4. SessionInv(r)'
    BY <1>1, <1>2
  <1>5. TakenInv(r)'
    BY <1>1, <1>2 DEF TakenInv
  <1>6. (faults = 0 => FaultFreeInv(r))'
    BY <1>1, <1>2
    DEF TakenInv, FaultFreeInv, Balanced, TokenBalanced, FundingBalanced, OwedToken,
        OwedFunding, Held, HeldToken, Committed
  <1>. QED BY <1>3, <1>4, <1>5, <1>6

\* ReserveFunding keeps the invariant of its request.
LEMMA ReserveFundingInv ==
    ASSUME IInv, NEW r \in Req, ReserveFunding(r)
    PROVE  ReqInv(r)'
  <1> DEFINE B1 ==
             /\ s[r].funding = "wallet" /\ pc'[r] = "reserveToken" /\ rpc'[r] = rpc[r]
             /\ KeepId(r)
             /\ KeepBooks(r)
             /\ s'[r].consumed = s[r].consumed + s'[r].delta /\ s'[r].delta = s'[r].delta
             /\ KeepFlags(r) /\ req'[r] = req[r]
             /\ charge'[r].wallet = charge[r].wallet + s'[r].delta
             /\ charge'[r].token = charge[r].token /\ charge'[r].sub = charge[r].sub
             /\ faults' = faults
  <1> DEFINE B2 ==
             /\ s[r].funding = "subscription" /\ pc'[r] = "reserveToken" /\ rpc'[r] = rpc[r]
             /\ KeepId(r) /\ KeepBooks(r)
             /\ s'[r].consumed = s[r].consumed /\ s'[r].delta = s'[r].delta /\ KeepFlags(r)
             /\ req'[r] = req[r]
             /\ charge'[r].wallet = charge[r].wallet /\ charge'[r].token = charge[r].token
             /\ charge'[r].sub = charge[r].sub + s'[r].delta
             /\ faults' = faults
  <1> DEFINE B3 ==
             /\ pc'[r] = "flight" /\ rpc'[r] = rpc[r] /\ s'[r] = s[r] /\ req'[r] = req[r]
             /\ charge'[r] = charge[r] /\ faults' = faults + 1
  <1>1. Fields(r) /\ ReqInv(r)
    BY FieldTypes DEF IInv
  <1>2. /\ pc[r] = "flight" /\ s[r].funding # "none" /\ s'[r].delta \in Nat
        /\ B1 \/ B2 \/ B3
    BY <1>1, ConstantsAssumption
    DEF ReserveFunding, DecreaseUserQuota, PostConsumeUserSubscriptionDelta, Goto,
        NoCall, NoMoney, DbError, Refunder, IInv, TypeOK, ReqInfo, Session, Sources,
        NoSession, KeepId, KeepBooks, KeepFlags
  <1>. USE DEF ReqInv, StepInv, SessionInv, NoSession, Fields, Sources, HandlerSteps,
              RefundSteps, EarlySteps, LiveSteps, KeepId, KeepBooks, KeepFlags
  <1>3. StepInv(r)'
    BY <1>1, <1>2
  <1>4. SessionInv(r)'
    BY <1>1, <1>2
  <1>5. TakenInv(r)'
    BY <1>1, <1>2 DEF TakenInv
  <1>6. (faults = 0 => FaultFreeInv(r))'
    <2>. USE DEF TakenInv, FaultFreeInv, Balanced, TokenBalanced, FundingBalanced,
                OwedToken, OwedFunding, Held, HeldToken, Committed
    <2>1. CASE B1
      BY <1>1, <1>2, <2>1
    <2>2. CASE B2
      BY <1>1, <1>2, <2>2
    <2>3. CASE B3       \* a database call failed
      BY <1>1, <2>3
    <2>. QED BY <1>2, <2>1, <2>2, <2>3
  <1>. QED BY <1>3, <1>4, <1>5, <1>6

\* ReserveToken keeps the invariant of its request.
LEMMA ReserveTokenInv ==
    ASSUME IInv, NEW r \in Req, ReserveToken(r)
    PROVE  ReqInv(r)'
  <1> DEFINE B1 ==
             /\ req[r].play /\ pc'[r] = "flight" /\ rpc'[r] = rpc[r] /\ KeepId(r)
             /\ s'[r].preConsumedQuota = s[r].preConsumedQuota + s[r].delta
             /\ s'[r].tokenConsumed = s[r].tokenConsumed + s[r].delta
             /\ s'[r].extraReserved = s[r].extraReserved + s[r].delta
             /\ s'[r].consumed = s[r].consumed /\ s'[r].delta = 0 /\ KeepFlags(r)
             /\ req'[r] = req[r] /\ charge'[r] = charge[r] /\ faults' = faults
  <1> DEFINE B2 ==
             /\ ~req[r].play /\ pc'[r] = "flight" /\ rpc'[r] = rpc[r] /\ KeepId(r)
             /\ s'[r].preConsumedQuota = s[r].preConsumedQuota + s[r].delta
             /\ s'[r].tokenConsumed = s[r].tokenConsumed + s[r].delta
             /\ s'[r].extraReserved = s[r].extraReserved + s[r].delta
             /\ s'[r].consumed = s[r].consumed /\ s'[r].delta = 0 /\ KeepFlags(r)
             /\ req'[r] = req[r]
             /\ charge'[r].wallet = charge[r].wallet
             /\ charge'[r].token = charge[r].token + s[r].delta
             /\ charge'[r].sub = charge[r].sub
             /\ faults' = faults
  <1> DEFINE B3 ==
             /\ pc'[r] = "unreserve" /\ rpc'[r] = rpc[r] /\ s'[r] = s[r] /\ req'[r] = req[r]
             /\ charge'[r] = charge[r] /\ faults' = faults
  <1> DEFINE B4 ==
             /\ pc'[r] = "unreserve" /\ rpc'[r] = rpc[r] /\ s'[r] = s[r] /\ req'[r] = req[r]
             /\ charge'[r] = charge[r] /\ faults' = faults + 1
  <1>1. Fields(r) /\ ReqInv(r)
    BY FieldTypes DEF IInv
  <1>2. /\ pc[r] = "reserveToken"
        /\ B1 \/ B2 \/ B3 \/ B4
    BY <1>1, ConstantsAssumption
    DEF ReserveToken, DecreaseTokenQuota, Goto, NoCall, NoMoney, DbError, Refunder,
        IInv, TypeOK, ReqInfo, Session, Sources, NoSession, KeepId, KeepFlags
  <1>. USE DEF ReqInv, StepInv, SessionInv, NoSession, Fields, Sources, HandlerSteps,
              RefundSteps, EarlySteps, LiveSteps, KeepId, KeepFlags
  <1>3. StepInv(r)'
    BY <1>1, <1>2
  <1>4. SessionInv(r)'
    <2>1. CASE B1
      BY <1>1, <1>2, <2>1
    <2>2. CASE B2
      BY <1>1, <1>2, <2>2
    <2>3. CASE B3
      BY <1>1, <1>2, <2>3
    <2>4. CASE B4
      BY <1>1, <1>2, <2>4
    <2>. QED BY <1>2, <2>1, <2>2, <2>3, <2>4
  <1>5. TakenInv(r)'
    BY <1>1, <1>2 DEF TakenInv
  <1>6. (faults = 0 => FaultFreeInv(r))'
    <2>1. CASE B1
      <3>. SUFFICES ASSUME faults' = 0 PROVE FaultFreeInv(r)' OBVIOUS
      <3>0. FaultFreeInv(r) BY <1>1, <2>1
      <3>1. TokenBalanced(r)'
        BY <1>1, <1>2, <2>1, <3>0
        DEF FaultFreeInv, Balanced, TokenBalanced, OwedToken, HeldToken
      <3>2. FundingBalanced(r)'
        BY <1>1, <1>2, <2>1, <3>0
        DEF FaultFreeInv, Balanced, FundingBalanced, OwedFunding, Held, Committed
      <3>. QED BY <1>1, <1>2, <2>1, <3>0, <3>1, <3>2 DEF FaultFreeInv, Balanced
    <2>2. CASE B2
      <3>. SUFFICES ASSUME faults' = 0 PROVE FaultFreeInv(r)' OBVIOUS
      <3>0. FaultFreeInv(r) BY <1>1, <2>2
      <3>1. TokenBalanced(r)'
        BY <1>1, <1>2, <2>2, <3>0
        DEF FaultFreeInv, Balanced, TokenBalanced, OwedToken, HeldToken
      <3>2. FundingBalanced(r)'
        BY <1>1, <1>2, <2>2, <3>0
        DEF FaultFreeInv, Balanced, FundingBalanced, OwedFunding, Held, Committed
      <3>. QED BY <1>1, <1>2, <2>2, <3>0, <3>1, <3>2 DEF FaultFreeInv, Balanced
    <2>3. CASE B3
      BY <1>1, <1>2, <2>3
      DEF TakenInv, FaultFreeInv, Balanced, TokenBalanced, FundingBalanced, OwedToken,
          OwedFunding, Held, HeldToken, Committed
    <2>4. CASE B4       \* a database call failed
      BY <1>1, <2>4
    <2>. QED BY <1>2, <2>1, <2>2, <2>3, <2>4
  <1>. QED BY <1>3, <1>4, <1>5, <1>6

\* RollbackFundingReserve keeps the invariant of its request.
LEMMA RollbackFundingReserveInv ==
    ASSUME IInv, NEW r \in Req, RollbackFundingReserve(r)
    PROVE  ReqInv(r)'
  <1> DEFINE B1 ==
             /\ s[r].funding = "wallet"
             /\ s'[r].consumed \in Int /\ s'[r].consumed + s[r].delta = s[r].consumed
             /\ pc'[r] = "flight" /\ rpc'[r] = rpc[r] /\ KeepId(r) /\ KeepBooks(r)
             /\ s'[r].consumed = s'[r].consumed /\ s'[r].delta = 0 /\ KeepFlags(r)
             /\ req'[r] = req[r]
             /\ charge'[r].wallet \in Int
             /\ charge'[r].wallet + s[r].delta = charge[r].wallet
             /\ charge'[r].token = charge[r].token /\ charge'[r].sub = charge[r].sub
             /\ faults' = faults
  <1> DEFINE B2 ==
             /\ s[r].funding = "subscription" /\ pc'[r] = "flight" /\ rpc'[r] = rpc[r]
             /\ KeepId(r)
             /\ KeepBooks(r) /\ s'[r].consumed = s[r].consumed /\ s'[r].delta = 0
             /\ KeepFlags(r)
             /\ req'[r] = req[r]
             /\ charge'[r].wallet = charge[r].wallet /\ charge'[r].token = charge[r].token
             /\ charge'[r].sub \in Int /\ charge'[r].sub + s[r].delta = charge[r].sub
             /\ faults' = faults
  <1> DEFINE B3 ==
             /\ pc'[r] = "flight" /\ rpc'[r] = rpc[r] /\ KeepId(r) /\ KeepBooks(r)
             /\ s'[r].consumed = s[r].consumed /\ s'[r].delta = 0 /\ KeepFlags(r)
             /\ req'[r] = req[r] /\ charge'[r] = charge[r] /\ faults' = faults + 1
  <1>1. Fields(r) /\ ReqInv(r)
    BY FieldTypes DEF IInv
  <1>2. /\ pc[r] = "unreserve"
        /\ B1 \/ B2 \/ B3
    BY <1>1, ConstantsAssumption
    DEF RollbackFundingReserve, DecreaseUserQuota, PostConsumeUserSubscriptionDelta,
        Goto, NoCall, NoMoney, DbError, Refunder, IInv, TypeOK, ReqInfo, Session,
        Sources, NoSession, KeepId, KeepBooks, KeepFlags
  <1>. USE DEF ReqInv, StepInv, SessionInv, NoSession, Fields, Sources, HandlerSteps,
              RefundSteps, EarlySteps, LiveSteps, KeepId, KeepBooks, KeepFlags
  <1>3. StepInv(r)'
    BY <1>1, <1>2
  <1>4. SessionInv(r)'
    BY <1>1, <1>2
  <1>5. TakenInv(r)'
    BY <1>1, <1>2 DEF TakenInv
  <1>6. (faults = 0 => FaultFreeInv(r))'
    <2>1. CASE B1
      <3>. SUFFICES ASSUME faults' = 0 PROVE FaultFreeInv(r)' OBVIOUS
      <3>0. FaultFreeInv(r) BY <1>1, <2>1
      <3>1. TokenBalanced(r)'
        BY <1>1, <1>2, <2>1, <3>0
        DEF FaultFreeInv, Balanced, TokenBalanced, OwedToken, HeldToken
      <3>2. FundingBalanced(r)'
        BY <1>1, <1>2, <2>1, <3>0
        DEF FaultFreeInv, Balanced, FundingBalanced, OwedFunding, Held, Committed
      <3>. QED BY <1>1, <1>2, <2>1, <3>0, <3>1, <3>2 DEF FaultFreeInv, Balanced
    <2>2. CASE B2
      <3>. SUFFICES ASSUME faults' = 0 PROVE FaultFreeInv(r)' OBVIOUS
      <3>0. FaultFreeInv(r) BY <1>1, <2>2
      <3>1. TokenBalanced(r)'
        BY <1>1, <1>2, <2>2, <3>0
        DEF FaultFreeInv, Balanced, TokenBalanced, OwedToken, HeldToken
      <3>2. FundingBalanced(r)'
        BY <1>1, <1>2, <2>2, <3>0
        DEF FaultFreeInv, Balanced, FundingBalanced, OwedFunding, Held, Committed
      <3>. QED BY <1>1, <1>2, <2>2, <3>0, <3>1, <3>2 DEF FaultFreeInv, Balanced
    <2>3. CASE B3       \* a database call failed
      BY <1>1, <2>3
    <2>. QED BY <1>2, <2>1, <2>2, <2>3
  <1>. QED BY <1>3, <1>4, <1>5, <1>6

\* SettleFunding keeps the invariant of its request.
LEMMA SettleFundingInv ==
    ASSUME IInv, NEW r \in Req, SettleFunding(r)
    PROVE  ReqInv(r)'
  <1> DEFINE B1 ==
             /\ req[r].actual = s[r].preConsumedQuota /\ pc'[r] = "done" /\ rpc'[r] = rpc[r]
             /\ KeepId(r) /\ KeepBooks(r) /\ KeepHold(r)
             /\ s'[r].settled /\ s'[r].fundingSettled = s[r].fundingSettled
             /\ s'[r].refunded = s[r].refunded
             /\ req'[r] = req[r] /\ charge'[r] = charge[r] /\ faults' = faults
  <1> DEFINE B2 ==
             /\ s[r].funding # "subscription" /\ pc'[r] = "settleToken" /\ rpc'[r] = rpc[r]
             /\ KeepId(r) /\ KeepBooks(r) /\ KeepHold(r)
             /\ s'[r].settled = s[r].settled /\ s'[r].fundingSettled
             /\ s'[r].refunded = s[r].refunded
             /\ req'[r] = req[r]
             /\ charge'[r].wallet \in Int
             /\ charge'[r].wallet + s[r].preConsumedQuota = charge[r].wallet + req[r].actual
             /\ charge'[r].token = charge[r].token /\ charge'[r].sub = charge[r].sub
             /\ faults' = faults
  <1> DEFINE B3 ==
             /\ s[r].funding = "subscription" /\ pc'[r] = "settleToken" /\ rpc'[r] = rpc[r]
             /\ KeepId(r) /\ KeepBooks(r) /\ KeepHold(r)
             /\ s'[r].settled = s[r].settled /\ s'[r].fundingSettled
             /\ s'[r].refunded = s[r].refunded
             /\ req'[r] = req[r]
             /\ charge'[r].wallet = charge[r].wallet /\ charge'[r].token = charge[r].token
             /\ charge'[r].sub \in Int
             /\ charge'[r].sub + s[r].preConsumedQuota = charge[r].sub + req[r].actual
             /\ faults' = faults
  <1> DEFINE B4 ==
             /\ s[r].funding = "subscription" /\ req[r].actual > s[r].preConsumedQuota
             /\ pc'[r] = "done" /\ rpc'[r] = rpc[r] /\ s'[r] = s[r] /\ req'[r] = req[r]
             /\ charge'[r] = charge[r] /\ faults' = faults
  <1> DEFINE B5 ==
             /\ pc'[r] = "done" /\ rpc'[r] = rpc[r] /\ s'[r] = s[r] /\ req'[r] = req[r]
             /\ charge'[r] = charge[r] /\ faults' = faults + 1
  <1>1. Fields(r) /\ ReqInv(r)
    BY FieldTypes DEF IInv
  <1>refused. ~SubAccepts(Delta(r)) => req[r].actual > s[r].preConsumedQuota
    BY <1>1, ConstantsAssumption DEF SubAccepts, NewUsed, Delta, UsedInv, IInv, TypeOK, Fields
  <1>exact. Delta(r) = 0 => req[r].actual = s[r].preConsumedQuota
    BY <1>1 DEF Delta, Fields
  <1>2. /\ pc[r] = "settle"
        /\ B1 \/ B2 \/ B3 \/ B4 \/ B5
    <2>1. CASE Delta(r) = 0
      BY <1>1, <1>refused, <1>exact, <2>1, ConstantsAssumption
    DEF SettleFunding, DecreaseUserQuota, PostConsumeUserSubscriptionDelta, Goto,
        NoCall, NoMoney, DbError, Refunder, IInv, TypeOK, ReqInfo, Session, Sources,
        NoSession, KeepId, KeepBooks, KeepHold
    <2>2. CASE Delta(r) # 0
      BY <1>1, <1>refused, <1>exact, <2>2, ConstantsAssumption
    DEF SettleFunding, Delta, Fields, DecreaseUserQuota,
        PostConsumeUserSubscriptionDelta, Goto, NoCall, NoMoney, DbError, Refunder,
        IInv, TypeOK, ReqInfo, Session, Sources, NoSession, KeepId, KeepBooks,
        KeepHold
    <2>. QED BY <1>1, <2>1, <2>2 DEF Fields, Sources
  <1>. USE DEF ReqInv, StepInv, SessionInv, NoSession, Fields, Sources, HandlerSteps,
              RefundSteps, EarlySteps, LiveSteps, KeepId, KeepBooks, KeepHold
  <1>3. StepInv(r)'
    BY <1>1, <1>2
  <1>4. SessionInv(r)'
    BY <1>1, <1>2
  <1>5. TakenInv(r)'
    <2>1. CASE B1
      BY <1>1, <1>2, <2>1 DEF TakenInv
    <2>2. CASE B2
      BY <1>1, <1>2, <2>2 DEF TakenInv
    <2>3. CASE B3
      BY <1>1, <1>2, <2>3 DEF TakenInv
    <2>4. CASE B4
      BY <1>1, <1>2, <2>4 DEF TakenInv
    <2>5. CASE B5
      BY <1>1, <1>2, <2>5 DEF TakenInv
    <2>. QED BY <1>2, <2>1, <2>2, <2>3, <2>4, <2>5
  <1>6. (faults = 0 => FaultFreeInv(r))'
    <2>1. CASE B1
      BY <1>1, <1>2, <2>1
      DEF TakenInv, FaultFreeInv, Balanced, TokenBalanced, FundingBalanced, OwedToken,
          OwedFunding, Held, HeldToken, Committed
    <2>2. CASE B2
      <3>. SUFFICES ASSUME faults' = 0 PROVE FaultFreeInv(r)' OBVIOUS
      <3>0. FaultFreeInv(r) BY <1>1, <2>2
      <3>1. TokenBalanced(r)'
        BY <1>1, <1>2, <2>2, <3>0
        DEF FaultFreeInv, Balanced, TokenBalanced, OwedToken, HeldToken
      <3>2. FundingBalanced(r)'
        BY <1>1, <1>2, <2>2, <3>0
        DEF FaultFreeInv, Balanced, FundingBalanced, OwedFunding, Held, Committed
      <3>. QED BY <1>1, <1>2, <2>2, <3>0, <3>1, <3>2 DEF FaultFreeInv, Balanced
    <2>3. CASE B3
      <3>. SUFFICES ASSUME faults' = 0 PROVE FaultFreeInv(r)' OBVIOUS
      <3>0. FaultFreeInv(r) BY <1>1, <2>3
      <3>1. TokenBalanced(r)'
        BY <1>1, <1>2, <2>3, <3>0
        DEF FaultFreeInv, Balanced, TokenBalanced, OwedToken, HeldToken
      <3>2. FundingBalanced(r)'
        BY <1>1, <1>2, <2>3, <3>0
        DEF FaultFreeInv, Balanced, FundingBalanced, OwedFunding, Held, Committed
      <3>. QED BY <1>1, <1>2, <2>3, <3>0, <3>1, <3>2 DEF FaultFreeInv, Balanced
    <2>4. CASE B4
      BY <1>1, <1>2, <2>4
      DEF TakenInv, FaultFreeInv, Balanced, TokenBalanced, FundingBalanced, OwedToken,
          OwedFunding, Held, HeldToken, Committed
    <2>5. CASE B5       \* a database call failed
      BY <1>1, <2>5
    <2>. QED BY <1>2, <2>1, <2>2, <2>3, <2>4, <2>5
  <1>. QED BY <1>3, <1>4, <1>5, <1>6

\* SettleToken keeps the invariant of its request.
LEMMA SettleTokenInv ==
    ASSUME IInv, NEW r \in Req, SettleToken(r)
    PROVE  ReqInv(r)'
  <1> DEFINE B1 ==
             /\ req[r].play /\ pc'[r] = "done" /\ rpc'[r] = rpc[r] /\ KeepId(r)
             /\ KeepBooks(r)
             /\ KeepHold(r)
             /\ s'[r].settled /\ s'[r].fundingSettled = s[r].fundingSettled
             /\ s'[r].refunded = s[r].refunded
             /\ req'[r] = req[r] /\ charge'[r] = charge[r] /\ faults' = faults
  <1> DEFINE B2 ==
             /\ ~req[r].play /\ pc'[r] = "done" /\ rpc'[r] = rpc[r] /\ KeepId(r)
             /\ KeepBooks(r)
             /\ KeepHold(r)
             /\ s'[r].settled /\ s'[r].fundingSettled = s[r].fundingSettled
             /\ s'[r].refunded = s[r].refunded
             /\ req'[r] = req[r]
             /\ charge'[r].wallet = charge[r].wallet /\ charge'[r].token \in Int
             /\ charge'[r].token + s[r].preConsumedQuota = charge[r].token + req[r].actual
             /\ charge'[r].sub = charge[r].sub
             /\ faults' = faults
  <1> DEFINE B3 ==
             /\ ~req[r].play /\ pc'[r] = "done" /\ rpc'[r] = rpc[r] /\ KeepId(r)
             /\ KeepBooks(r)
             /\ KeepHold(r)
             /\ s'[r].settled /\ s'[r].fundingSettled = s[r].fundingSettled
             /\ s'[r].refunded = s[r].refunded
             /\ req'[r] = req[r] /\ charge'[r] = charge[r] /\ faults' = faults + 1
  <1>1. Fields(r) /\ ReqInv(r)
    BY FieldTypes DEF IInv
  <1>2. /\ pc[r] = "settleToken"
        /\ B1 \/ B2 \/ B3
    BY <1>1, ConstantsAssumption
    DEF SettleToken, Delta, DecreaseTokenQuota, Goto, NoCall, NoMoney, DbError,
        Refunder, IInv, TypeOK, ReqInfo, Session, Sources, NoSession, KeepId,
        KeepBooks, KeepHold
  <1>. USE DEF ReqInv, StepInv, SessionInv, NoSession, Fields, Sources, HandlerSteps,
              RefundSteps, EarlySteps, LiveSteps, KeepId, KeepBooks, KeepHold
  <1>3. StepInv(r)'
    BY <1>1, <1>2
  <1>4. SessionInv(r)'
    BY <1>1, <1>2
  <1>5. TakenInv(r)'
    BY <1>1, <1>2 DEF TakenInv
  <1>6. (faults = 0 => FaultFreeInv(r))'
    BY <1>1, <1>2
    DEF TakenInv, FaultFreeInv, Balanced, TokenBalanced, FundingBalanced, OwedToken,
        OwedFunding, Held, HeldToken, Committed
  <1>. QED BY <1>3, <1>4, <1>5, <1>6

\* Refund keeps the invariant of its request.
LEMMA RefundInv ==
    ASSUME IInv, NEW r \in Req, Refund(r)
    PROVE  ReqInv(r)'
  <1> DEFINE B1 ==
             /\ NeedsRefund(r) /\ rpc'[r] = "funding" /\ KeepId(r) /\ KeepBooks(r)
             /\ KeepHold(r)
             /\ s'[r].settled = s[r].settled /\ s'[r].fundingSettled = s[r].fundingSettled
             /\ s'[r].refunded
             /\ req'[r] = req[r] /\ charge'[r] = charge[r] /\ faults' = faults
  <1> DEFINE B2 ==
             /\ ~NeedsRefund(r) /\ rpc'[r] = rpc[r] /\ s'[r] = s[r] /\ req'[r] = req[r]
             /\ charge'[r] = charge[r] /\ faults' = faults
  <1>1. Fields(r) /\ ReqInv(r)
    BY FieldTypes DEF IInv
  <1>0. ~NeedsRefund(r) => s[r].preConsumedQuota = 0
    BY <1>1
    DEF Refund, NeedsRefund, ReqInv, StepInv, SessionInv, NoSession, Fields,
        EarlySteps, LiveSteps
  <1>2. /\ pc[r] = "fail" /\ pc'[r] \in {"done", "fee"}
        /\ B1 \/ B2
    BY <1>1, <1>0, ConstantsAssumption
    DEF Refund, NeedsRefund, Goto, NoCall, NoMoney, DbError, Refunder, IInv, TypeOK,
        ReqInfo, Session, Sources, NoSession, KeepId, KeepBooks, KeepHold
  <1>. USE DEF ReqInv, StepInv, SessionInv, NoSession, Fields, Sources, HandlerSteps,
              RefundSteps, EarlySteps, LiveSteps, KeepId, KeepBooks, KeepHold
  <1>3. StepInv(r)'
    BY <1>1, <1>2 DEF NeedsRefund
  <1>4. SessionInv(r)'
    <2>1. CASE B1
      BY <1>1, <1>0, <1>2, <2>1 DEF NeedsRefund
    <2>2. CASE B2
      BY <1>1, <1>0, <1>2, <2>2 DEF NeedsRefund
    <2>. QED BY <1>2, <2>1, <2>2
  <1>5. TakenInv(r)'
    BY <1>1, <1>2 DEF NeedsRefund, TakenInv
  <1>6. (faults = 0 => FaultFreeInv(r))'
    <2>. USE DEF TakenInv, FaultFreeInv, Balanced, TokenBalanced, FundingBalanced,
                OwedToken, OwedFunding, Held, HeldToken, Committed
    <2>1. CASE B1
      BY <1>1, <1>0, <1>2, <2>1
      DEF NeedsRefund, TakenInv, FaultFreeInv, Balanced, TokenBalanced,
          FundingBalanced, OwedToken, OwedFunding, Held, HeldToken, Committed
    <2>2. CASE B2
      BY <1>1, <1>0, <1>2, <2>2
      DEF NeedsRefund, TakenInv, FaultFreeInv, Balanced, TokenBalanced,
          FundingBalanced, OwedToken, OwedFunding, Held, HeldToken, Committed
    <2>. QED BY <1>2, <2>1, <2>2
  <1>. QED BY <1>3, <1>4, <1>5, <1>6

\* ChargeFee keeps the invariant of its request.
LEMMA ChargeFeeInv ==
    ASSUME IInv, NEW r \in Req, ChargeFee(r)
    PROVE  ReqInv(r)'
  <1> DEFINE B1 ==
             /\ pc'[r] = "done" /\ rpc'[r] = rpc[r] /\ s'[r] = s[r] /\ req'[r] = req[r]
             /\ charge'[r] = charge[r] /\ faults' = faults
  <1> DEFINE B2 ==
             /\ s[r].funding # "subscription" /\ req'[r].fee \in Nat /\ pc'[r] = "feeToken"
             /\ rpc'[r] = rpc[r] /\ s'[r] = s[r]
             /\ req'[r].play = req[r].play /\ req'[r].actual = req[r].actual
             /\ req'[r].fee = req'[r].fee
             /\ charge'[r].wallet = charge[r].wallet + req'[r].fee
             /\ charge'[r].token = charge[r].token /\ charge'[r].sub = charge[r].sub
             /\ faults' = faults
  <1> DEFINE B3 ==
             /\ s[r].funding = "subscription" /\ req'[r].fee \in Nat /\ pc'[r] = "feeToken"
             /\ rpc'[r] = rpc[r] /\ s'[r] = s[r]
             /\ req'[r].play = req[r].play /\ req'[r].actual = req[r].actual
             /\ req'[r].fee = req'[r].fee
             /\ charge'[r].wallet = charge[r].wallet /\ charge'[r].token = charge[r].token
             /\ charge'[r].sub = charge[r].sub + req'[r].fee
             /\ faults' = faults
  <1> DEFINE B4 ==
             /\ pc'[r] = "done" /\ rpc'[r] = rpc[r] /\ s'[r] = s[r] /\ req'[r] = req[r]
             /\ charge'[r] = charge[r] /\ faults' = faults + 1
  <1>1. Fields(r) /\ ReqInv(r)
    BY FieldTypes DEF IInv
  <1>2. /\ pc[r] = "fee"
        /\ B1 \/ B2 \/ B3 \/ B4
    BY <1>1, ConstantsAssumption
    DEF ChargeFee, DecreaseUserQuota, PostConsumeUserSubscriptionDelta, Goto, NoCall,
        NoMoney, DbError, Refunder, IInv, TypeOK, ReqInfo, Session, Sources, NoSession
  <1>. USE DEF ReqInv, StepInv, SessionInv, NoSession, Fields, Sources, HandlerSteps,
              RefundSteps, EarlySteps, LiveSteps
  <1>3. StepInv(r)'
    BY <1>1, <1>2
  <1>4. SessionInv(r)'
    BY <1>1, <1>2
  <1>5. TakenInv(r)'
    BY <1>1, <1>2 DEF TakenInv
  <1>6. (faults = 0 => FaultFreeInv(r))'
    <2>1. CASE B1
      BY <1>1, <1>2, <2>1
      DEF TakenInv, FaultFreeInv, Balanced, TokenBalanced, FundingBalanced, OwedToken,
          OwedFunding, Held, HeldToken, Committed
    <2>2. CASE B2
      <3>. SUFFICES ASSUME faults' = 0 PROVE FaultFreeInv(r)' OBVIOUS
      <3>0. FaultFreeInv(r) BY <1>1, <2>2
      <3>1. TokenBalanced(r)'
        BY <1>1, <1>2, <2>2, <3>0
        DEF FaultFreeInv, Balanced, TokenBalanced, OwedToken, HeldToken
      <3>2. FundingBalanced(r)'
        BY <1>1, <1>2, <2>2, <3>0
        DEF FaultFreeInv, Balanced, FundingBalanced, OwedFunding, Held, Committed
      <3>. QED BY <1>1, <1>2, <2>2, <3>0, <3>1, <3>2 DEF FaultFreeInv, Balanced
    <2>3. CASE B3
      <3>. SUFFICES ASSUME faults' = 0 PROVE FaultFreeInv(r)' OBVIOUS
      <3>0. FaultFreeInv(r) BY <1>1, <2>3
      <3>1. TokenBalanced(r)'
        BY <1>1, <1>2, <2>3, <3>0
        DEF FaultFreeInv, Balanced, TokenBalanced, OwedToken, HeldToken
      <3>2. FundingBalanced(r)'
        BY <1>1, <1>2, <2>3, <3>0
        DEF FaultFreeInv, Balanced, FundingBalanced, OwedFunding, Held, Committed
      <3>. QED BY <1>1, <1>2, <2>3, <3>0, <3>1, <3>2 DEF FaultFreeInv, Balanced
    <2>4. CASE B4       \* a database call failed
      BY <1>1, <2>4
    <2>. QED BY <1>2, <2>1, <2>2, <2>3, <2>4
  <1>. QED BY <1>3, <1>4, <1>5, <1>6

\* ChargeFeeToken keeps the invariant of its request.
LEMMA ChargeFeeTokenInv ==
    ASSUME IInv, NEW r \in Req, ChargeFeeToken(r)
    PROVE  ReqInv(r)'
  <1> DEFINE B1 ==
             /\ req[r].play /\ pc'[r] = "done" /\ rpc'[r] = rpc[r] /\ s'[r] = s[r]
             /\ req'[r] = req[r] /\ charge'[r] = charge[r] /\ faults' = faults
  <1> DEFINE B2 ==
             /\ ~req[r].play /\ pc'[r] = "done" /\ rpc'[r] = rpc[r] /\ s'[r] = s[r]
             /\ req'[r] = req[r]
             /\ charge'[r].wallet = charge[r].wallet
             /\ charge'[r].token = charge[r].token + req[r].fee
             /\ charge'[r].sub = charge[r].sub
             /\ faults' = faults
  <1> DEFINE B3 ==
             /\ pc'[r] = "done" /\ rpc'[r] = rpc[r] /\ s'[r] = s[r] /\ req'[r] = req[r]
             /\ charge'[r] = charge[r] /\ faults' = faults + 1
  <1>1. Fields(r) /\ ReqInv(r)
    BY FieldTypes DEF IInv
  <1>2. /\ pc[r] = "feeToken"
        /\ B1 \/ B2 \/ B3
    BY <1>1, ConstantsAssumption
    DEF ChargeFeeToken, DecreaseTokenQuota, Goto, NoCall, NoMoney, DbError, Refunder,
        IInv, TypeOK, ReqInfo, Session, Sources, NoSession
  <1>. USE DEF ReqInv, StepInv, SessionInv, NoSession, Fields, Sources, HandlerSteps,
              RefundSteps, EarlySteps, LiveSteps
  <1>3. StepInv(r)'
    BY <1>1, <1>2
  <1>4. SessionInv(r)'
    BY <1>1, <1>2
  <1>5. TakenInv(r)'
    BY <1>1, <1>2 DEF TakenInv
  <1>6. (faults = 0 => FaultFreeInv(r))'
    <2>. USE DEF TakenInv, FaultFreeInv, Balanced, TokenBalanced, FundingBalanced,
                OwedToken, OwedFunding, Held, HeldToken, Committed
    <2>1. CASE B1
      BY <1>1, <1>2, <2>1
    <2>2. CASE B2
      BY <1>1, <1>2, <2>2
    <2>3. CASE B3       \* a database call failed
      BY <1>1, <2>3
    <2>. QED BY <1>2, <2>1, <2>2, <2>3
  <1>. QED BY <1>3, <1>4, <1>5, <1>6

\* RefundWallet keeps the invariant of its request.
LEMMA RefundWalletInv ==
    ASSUME IInv, NEW r \in Req, RefundWallet(r)
    PROVE  ReqInv(r)'
  <1> DEFINE B1 ==
             /\ pc'[r] = pc[r] /\ rpc'[r] = "token" /\ s'[r] = s[r] /\ req'[r] = req[r]
             /\ charge'[r].wallet \in Int
             /\ charge'[r].wallet + s[r].consumed = charge[r].wallet
             /\ charge'[r].token = charge[r].token /\ charge'[r].sub = charge[r].sub
             /\ faults' = faults
  <1> DEFINE B2 ==
             /\ pc'[r] = pc[r] /\ rpc'[r] = "token" /\ s'[r] = s[r] /\ req'[r] = req[r]
             /\ charge'[r] = charge[r] /\ faults' = faults + 1
  <1>1. Fields(r) /\ ReqInv(r)
    BY FieldTypes DEF IInv
  <1>2. /\ rpc[r] = "funding" /\ s[r].funding = "wallet"
        /\ B1 \/ B2
    BY <1>1, ConstantsAssumption
    DEF RefundWallet, AfterFundingRefund, DecreaseUserQuota, Handler, Goto, NoCall,
        NoMoney, DbError, Refunder, IInv, TypeOK, ReqInfo, Session, Sources, NoSession
  <1>. USE DEF ReqInv, StepInv, SessionInv, NoSession, Fields, Sources, HandlerSteps,
              RefundSteps, EarlySteps, LiveSteps
  <1>3. StepInv(r)'
    BY <1>1, <1>2
  <1>4. SessionInv(r)'
    BY <1>1, <1>2
  <1>5. TakenInv(r)'
    BY <1>1, <1>2 DEF TakenInv
  <1>6. (faults = 0 => FaultFreeInv(r))'
    <2>. USE DEF TakenInv, FaultFreeInv, Balanced, TokenBalanced, FundingBalanced,
                OwedToken, OwedFunding, Held, HeldToken, Committed
    <2>1. CASE B1
      BY <1>1, <1>2, <2>1
    <2>2. CASE B2       \* a database call failed
      BY <1>1, <2>2
    <2>. QED BY <1>2, <2>1, <2>2
  <1>. QED BY <1>3, <1>4, <1>5, <1>6

\* RefundSubscription keeps the invariant of its request.
LEMMA RefundSubscriptionInv ==
    ASSUME IInv, NEW r \in Req, RefundSubscription(r)
    PROVE  ReqInv(r)'
  <1> DEFINE B1 ==
             /\ rpc'[r] = IF s[r].extraReserved > 0 /\ s[r].funding = "subscription" THEN "extra" ELSE "token"
             /\ pc'[r] = pc[r] /\ s'[r] = s[r] /\ req'[r] = req[r]
             /\ charge'[r].wallet = charge[r].wallet /\ charge'[r].token = charge[r].token
             /\ charge'[r].sub \in Int /\ charge'[r].sub + s[r].consumed = charge[r].sub
             /\ faults' = faults
  <1> DEFINE B2 ==
             /\ (rpc'[r] = "funding" => s[r].attempts + 1 < 3)
             /\ rpc'[r] \in {"funding", "extra", "token"}
             /\ charge'[r].wallet = charge[r].wallet /\ charge'[r].token = charge[r].token
             /\ pc'[r] = pc[r]
             /\ s'[r].funding = s[r].funding /\ s'[r].amount = s[r].amount
             /\ s'[r].attempts = s[r].attempts + 1
             /\ KeepBooks(r) /\ KeepHold(r) /\ KeepFlags(r) /\ req'[r] = req[r]
             /\ faults' = faults + 1
  <1>1. Fields(r) /\ ReqInv(r)
    BY FieldTypes DEF IInv
  <1>2. /\ rpc[r] = "funding" /\ s[r].funding = "subscription"
        /\ B1 \/ B2
    BY <1>1, ConstantsAssumption
    DEF RefundSubscription, AfterFundingRefund, PostConsumeUserSubscriptionDelta,
        Handler, Goto, NoCall, NoMoney, DbError, Refunder, IInv, TypeOK, ReqInfo,
        Session, Sources, NoSession, KeepBooks, KeepHold, KeepFlags
  <1>. USE DEF ReqInv, StepInv, SessionInv, NoSession, Fields, Sources, HandlerSteps,
              RefundSteps, EarlySteps, LiveSteps, KeepBooks, KeepHold, KeepFlags
  <1>3. StepInv(r)'
    BY <1>1, <1>2
  <1>4. SessionInv(r)'
    BY <1>1, <1>2
  <1>5. TakenInv(r)'
    BY <1>1, <1>2 DEF TakenInv
  <1>6. (faults = 0 => FaultFreeInv(r))'
    <2>. USE DEF TakenInv, FaultFreeInv, Balanced, TokenBalanced, FundingBalanced,
                OwedToken, OwedFunding, Held, HeldToken, Committed
    <2>1. CASE B1
      BY <1>1, <1>2, <2>1
    <2>2. CASE B2       \* a database call failed
      BY <1>1, <2>2
    <2>. QED BY <1>2, <2>1, <2>2
  <1>. QED BY <1>3, <1>4, <1>5, <1>6

\* RefundExtra keeps the invariant of its request.
LEMMA RefundExtraInv ==
    ASSUME IInv, NEW r \in Req, RefundExtra(r)
    PROVE  ReqInv(r)'
  <1> DEFINE B1 ==
             /\ pc'[r] = pc[r] /\ rpc'[r] = "token" /\ s'[r] = s[r] /\ req'[r] = req[r]
             /\ charge'[r].wallet = charge[r].wallet /\ charge'[r].token = charge[r].token
             /\ charge'[r].sub \in Int
             /\ charge'[r].sub + s[r].extraReserved = charge[r].sub
             /\ faults' = faults
  <1> DEFINE B2 ==
             /\ pc'[r] = pc[r] /\ rpc'[r] = "token" /\ s'[r] = s[r] /\ req'[r] = req[r]
             /\ charge'[r] = charge[r] /\ faults' = faults + 1
  <1>1. Fields(r) /\ ReqInv(r)
    BY FieldTypes DEF IInv
  <1>2. /\ rpc[r] = "extra"
        /\ B1 \/ B2
    BY <1>1, ConstantsAssumption
    DEF RefundExtra, PostConsumeUserSubscriptionDelta, Handler, Goto, NoCall, NoMoney,
        DbError, Refunder, IInv, TypeOK, ReqInfo, Session, Sources, NoSession
  <1>. USE DEF ReqInv, StepInv, SessionInv, NoSession, Fields, Sources, HandlerSteps,
              RefundSteps, EarlySteps, LiveSteps
  <1>3. StepInv(r)'
    BY <1>1, <1>2
  <1>4. SessionInv(r)'
    BY <1>1, <1>2
  <1>5. TakenInv(r)'
    BY <1>1, <1>2 DEF TakenInv
  <1>6. (faults = 0 => FaultFreeInv(r))'
    <2>. USE DEF TakenInv, FaultFreeInv, Balanced, TokenBalanced, FundingBalanced,
                OwedToken, OwedFunding, Held, HeldToken, Committed
    <2>1. CASE B1
      BY <1>1, <1>2, <2>1
    <2>2. CASE B2       \* a database call failed
      BY <1>1, <2>2
    <2>. QED BY <1>2, <2>1, <2>2
  <1>. QED BY <1>3, <1>4, <1>5, <1>6

\* RefundToken keeps the invariant of its request.
LEMMA RefundTokenInv ==
    ASSUME IInv, NEW r \in Req, RefundToken(r)
    PROVE  ReqInv(r)'
  <1> DEFINE B1 ==
             /\ ~req[r].play /\ pc'[r] = pc[r] /\ rpc'[r] = "done" /\ s'[r] = s[r]
             /\ req'[r] = req[r]
             /\ charge'[r].wallet = charge[r].wallet /\ charge'[r].token \in Int
             /\ charge'[r].token + s[r].tokenConsumed = charge[r].token
             /\ charge'[r].sub = charge[r].sub
             /\ faults' = faults
  <1> DEFINE B2 ==
             /\ (s[r].tokenConsumed = 0 \/ req[r].play) /\ pc'[r] = pc[r]
             /\ rpc'[r] = "done"
             /\ s'[r] = s[r] /\ req'[r] = req[r] /\ charge'[r] = charge[r]
             /\ faults' = faults
  <1> DEFINE B3 ==
             /\ pc'[r] = pc[r] /\ rpc'[r] = "done" /\ s'[r] = s[r] /\ req'[r] = req[r]
             /\ charge'[r] = charge[r] /\ faults' = faults + 1
  <1>1. Fields(r) /\ ReqInv(r)
    BY FieldTypes DEF IInv
  <1>2. /\ rpc[r] = "token"
        /\ B1 \/ B2 \/ B3
    BY <1>1, ConstantsAssumption
    DEF RefundToken, DecreaseTokenQuota, Handler, Goto, NoCall, NoMoney, DbError,
        Refunder, IInv, TypeOK, ReqInfo, Session, Sources, NoSession
  <1>. USE DEF ReqInv, StepInv, SessionInv, NoSession, Fields, Sources, HandlerSteps,
              RefundSteps, EarlySteps, LiveSteps
  <1>3. StepInv(r)'
    BY <1>1, <1>2
  <1>4. SessionInv(r)'
    BY <1>1, <1>2
  <1>5. TakenInv(r)'
    <2>1. CASE B1
      BY <1>1, <1>2, <2>1 DEF TakenInv
    <2>2. CASE B2
      BY <1>1, <1>2, <2>2 DEF TakenInv
    <2>3. CASE B3
      BY <1>1, <1>2, <2>3 DEF TakenInv
    <2>. QED BY <1>2, <2>1, <2>2, <2>3
  <1>6. (faults = 0 => FaultFreeInv(r))'
    <2>. USE DEF TakenInv, FaultFreeInv, Balanced, TokenBalanced, FundingBalanced,
                OwedToken, OwedFunding, Held, HeldToken, Committed
    <2>1. CASE B1
      BY <1>1, <1>2, <2>1
    <2>2. CASE B2
      BY <1>1, <1>2, <2>2
    <2>3. CASE B3       \* a database call failed
      BY <1>1, <2>3
    <2>. QED BY <1>2, <2>1, <2>2, <2>3
  <1>. QED BY <1>3, <1>4, <1>5, <1>6
---------------------------------------------------------------------------
\* The inductive invariant is preserved.

\* Every step keeps the invariant of the request that takes it.
LEMMA StepOwn ==
    ASSUME IInv, NEW r \in Req, Step(r)
    PROVE  ReqInv(r)'
  BY BeginInv, ChooseInv, CheckWalletInv, CheckTokenInv, TakeTokenInv, PreConsumeWalletInv,
     PreConsumeSubscriptionInv, UndoTokenInv, RejectedInv, RetryInv, SucceedInv, FailInv,
     ReserveFundingInv, ReserveTokenInv, RollbackFundingReserveInv, SettleFundingInv,
     SettleTokenInv, RefundInv, ChargeFeeInv, ChargeFeeTokenInv, RefundWalletInv,
     RefundSubscriptionInv, RefundExtraInv, RefundTokenInv DEF Step

\* A request whose own state does not change keeps its invariant.
LEMMA Untouched ==
    ASSUME NEW q \in Req, ReqInv(q), faults \in Nat, faults' \in {faults, faults + 1},
           req'[q] = req[q], pc'[q] = pc[q], rpc'[q] = rpc[q], s'[q] = s[q],
           charge'[q] = charge[q]
    PROVE  ReqInv(q)'
  <1>1. StepInv(q)' /\ SessionInv(q)' /\ TakenInv(q)'
    BY DEF ReqInv, StepInv, SessionInv, TakenInv, NoSession
  <1>2. faults' = 0 => faults = 0
    OBVIOUS
  <1>3. (faults = 0 => FaultFreeInv(q))'
    BY <1>2 DEF ReqInv, FaultFreeInv, Balanced, TokenBalanced, FundingBalanced, OwedToken,
       OwedFunding, Held, HeldToken, Committed
  <1>. QED BY <1>1, <1>3 DEF ReqInv

\* Every step of a request keeps the whole invariant: its own part by the lemmas above,
\* the other requests' parts because it does not touch them.
LEMMA StepInvariant ==
    ASSUME IInv, NEW r \in Req, Step(r)
    PROVE  IInv'
  <1>1. Effects(r)
    BY StepTypes
  <1>2. TypeOK' /\ UsedInv'
    BY <1>1 DEF Effects, Money, Books, Control, TypeOK, UsedInv
  <1>3. ReqInv(r)'
    BY StepOwn
  <1>4. ASSUME NEW q \in Req \ {r}
        PROVE  ReqInv(q)'
    <2>1. faults \in Nat /\ faults' \in {faults, faults + 1}
      BY <1>1, ConstantsAssumption DEF Effects, Money, IInv, TypeOK
    <2>2. /\ req'[q] = req[q] /\ pc'[q] = pc[q] /\ rpc'[q] = rpc[q]
          /\ s'[q] = s[q] /\ charge'[q] = charge[q]
      BY <1>1 DEF Effects, Money, Books, Control
    <2>. QED BY <2>1, <2>2, Untouched DEF IInv
  <1>. QED BY <1>2, <1>3, <1>4 DEF IInv

\* Steps that change no request.
LEMMA StillInvariant ==
    ASSUME IInv, UNCHANGED <<wallet, token, used, req, pc, rpc, s, charge, faults>>,
           active' \in BOOLEAN
    PROVE  IInv'
  <1>1. TypeOK' /\ UsedInv'
    BY DEF IInv, TypeOK, UsedInv
  <1>2. ASSUME NEW q \in Req PROVE ReqInv(q)'
    BY Untouched, ConstantsAssumption DEF IInv, TypeOK
  <1>. QED BY <1>1, <1>2 DEF IInv

\* Init establishes the invariant.
LEMMA InitInvariant == Init => IInv
  <1>. SUFFICES ASSUME Init PROVE IInv
    OBVIOUS
  <1>1. NewSession \in Session
    BY OpenSessionTypes DEF NewSession, Sources
  <1>2. NoReq \in ReqInfo
    BY ConstantsAssumption DEF NoReq, ReqInfo, AllPrefs
  <1>3. TypeOK /\ UsedInv
    BY <1>1, <1>2, ConstantsAssumption
    DEF Init, TypeOK, UsedInv, NoCharge, HandlerSteps, RefundSteps
  <1>4. ASSUME NEW r \in Req PROVE ReqInv(r)
    <2>1. /\ pc[r] = "idle" /\ rpc[r] = "none" /\ req[r].actual = 0 /\ req[r].fee = 0
          /\ s[r].funding = "none" /\ s[r].preConsumedQuota = 0 /\ s[r].tokenConsumed = 0
          /\ s[r].extraReserved = 0 /\ s[r].consumed = 0 /\ s[r].delta = 0 /\ s[r].attempts = 0
          /\ ~s[r].settled /\ ~s[r].refunded /\ ~s[r].fundingSettled
          /\ charge[r].wallet = 0 /\ charge[r].token = 0 /\ charge[r].sub = 0
      BY DEF Init, NewSession, OpenSession, NoReq, NoCharge
    <2>. QED BY <2>1 DEF ReqInv, StepInv, SessionInv, TakenInv, FaultFreeInv, NoSession,
            EarlySteps, LiveSteps, Balanced, TokenBalanced, FundingBalanced, OwedToken,
            OwedFunding, Held, HeldToken, Committed
  <1>. QED BY <1>3, <1>4 DEF IInv

\* The invariant is inductive.
LEMMA NextInvariant == IInv /\ [Next]_vars => IInv'
  <1>. SUFFICES ASSUME IInv, [Next]_vars PROVE IInv'
    OBVIOUS
  <1>1. CASE \E r \in Req : Begin(r) \/ Upstream(r) \/ Server(r) \/ Refunding(r)
    <2>1. PICK r \in Req : Begin(r) \/ Upstream(r) \/ Server(r) \/ Refunding(r)
      BY <1>1
    <2>2. Step(r)
      BY <2>1 DEF Step, Upstream, Server, Refunding, PreConsume, Reserve, Settle, Failure
    <2>. QED BY <2>2, StepInvariant
  <1>2. CASE SubscriptionEnds
    BY <1>2, StillInvariant DEF SubscriptionEnds
  <1>3. CASE AllFinished \/ UNCHANGED vars
    BY <1>3, StillInvariant DEF AllFinished, vars, IInv, TypeOK
  <1>. QED BY <1>1, <1>2, <1>3 DEF Next

\* The inductive invariant holds in every reachable state, for any number of requests,
\* amounts and failing database calls.
THEOREM Invariance == Spec => []IInv
  BY InitInvariant, NextInvariant, PTL DEF Spec

\* Every variable keeps its type: sessions, accounts and control (BillingSession).
THEOREM TypeCorrect == Spec => []TypeOK
  <1>1. IInv => TypeOK
    BY DEF IInv
  <1>. QED BY <1>1, Invariance, PTL

\* A billing session is settled or refunded, never both, whatever calls fail
\* (billing_session.go Settle and Refund and the goroutine Refund starts).
THEOREM ExclusiveOutcome == Spec => []SettledOrRefunded
  <1>1. IInv => SettledOrRefunded
    <2>. SUFFICES ASSUME IInv, NEW r \in Req
                  PROVE  /\ s[r].refunded => ~s[r].settled /\ ~s[r].fundingSettled
                         /\ rpc[r] # "none" => s[r].refunded
      BY DEF SettledOrRefunded
    <2>1. Fields(r) /\ ReqInv(r)
      BY FieldTypes DEF IInv
    <2>. QED BY <2>1 DEF Fields, ReqInv, StepInv, HandlerSteps, EarlySteps, LiveSteps
  <1>. QED BY <1>1, Invariance, PTL

\* No request is ever given back more wallet or token quota than it took, whatever
\* calls fail (Refund, rollbackFundingReserve, the rollback in preConsume).
THEOREM NoOverRefund == Spec => []NeverOverRefunded
  <1>1. IInv => NeverOverRefunded
    BY DEF IInv, ReqInv, TakenInv, NeverOverRefunded
  <1>. QED BY <1>1, Invariance, PTL

\* While no database call has failed, what a request took from each account is what
\* its session's books say, between any two database calls.
THEOREM Balance == Spec => []BooksBalance
  <1>1. IInv => BooksBalance
    BY DEF IInv, ReqInv, FaultFreeInv, BooksBalance
  <1>. QED BY <1>1, Invariance, PTL

\* A finished request has paid its actual quota and fee, or the pre-consumed quota when
\* the subscription refused the settlement (billing.go SettleBilling, Settle, Refund).
THEOREM ExactPayment == Spec => []PaysExactly
  <1>1. IInv => PaysExactly
    <2>. SUFFICES ASSUME IInv, NEW r \in Req, Finished(r), faults = 0
                  PROVE  LET paid == charge[r].wallet + charge[r].sub
                         IN \/ paid = req[r].actual + req[r].fee
                            \/ /\ s[r].funding = "subscription" /\ ~s[r].settled
                               /\ paid = s[r].preConsumedQuota /\ paid < req[r].actual
      BY DEF PaysExactly
    <2>1. Fields(r) /\ StepInv(r) /\ SessionInv(r) /\ FaultFreeInv(r) /\ FundingBalanced(r)
      BY FieldTypes DEF IInv, ReqInv, FaultFreeInv, Balanced
    <2>2. CASE s[r].settled
      BY <2>1, <2>2 DEF Fields, StepInv, Finished, FundingBalanced, OwedFunding, Committed
    <2>3. CASE s[r].refunded
      BY <2>1, <2>3 DEF Fields, StepInv, Finished, FundingBalanced, OwedFunding, Committed, Held
    <2>4. CASE ~s[r].settled /\ ~s[r].refunded
      <3>1. /\ pc[r] = "done" /\ rpc[r] = "none" /\ s[r].delta = 0 /\ ~s[r].fundingSettled
            /\ \/ req[r].actual = 0 /\ s[r].preConsumedQuota = 0
               \/ s[r].funding = "subscription" /\ req[r].fee = 0 /\ req[r].actual > s[r].preConsumedQuota
        BY <2>1, <2>4 DEF Fields, StepInv, SessionInv, FaultFreeInv, Finished
      <3>2. charge[r].wallet + charge[r].sub = s[r].preConsumedQuota + req[r].fee
        <4>1. OwedFunding(r) = s[r].preConsumedQuota + req[r].fee
          BY <2>1, <2>4, <3>1 DEF Fields, OwedFunding, Committed, Held
        <4>. QED BY <2>1, <4>1 DEF Fields, FundingBalanced
      <3>. QED BY <2>1, <2>4, <3>1, <3>2 DEF Fields
    <2>. QED BY <2>1, <2>2, <2>3, <2>4 DEF Fields
  <1>. QED BY <1>1, Invariance, PTL

\* Once Settle has completed, no later step changes what the request paid.
THEOREM SettlementFinal == Spec => SettledIsFinal
  <1>1. ASSUME IInv, NEW r \in Req, s[r].settled
        PROVE  ~Step(r)
    <2>1. Fields(r) /\ StepInv(r)
      BY <1>1, FieldTypes DEF IInv, ReqInv
    <2>2. pc[r] = "done" /\ rpc[r] = "none"
      BY <1>1, <2>1 DEF Fields, StepInv, HandlerSteps, EarlySteps, LiveSteps
    <2>. QED BY <2>2 DEF Step, Begin, Choose, CheckWallet, CheckToken, TakeToken, PreConsumeWallet,
            PreConsumeSubscription, UndoToken, Rejected, Retry, Succeed, Fail, ReserveFunding,
            ReserveToken, RollbackFundingReserve, SettleFunding, SettleToken, Refund, ChargeFee,
            ChargeFeeToken, RefundWallet, RefundSubscription, RefundExtra, RefundToken
  <1>2. ASSUME IInv, [Next]_vars, NEW r \in Req, s[r].settled
        PROVE  charge'[r] = charge[r]
    <2>1. CASE \E q \in Req : Begin(q) \/ Upstream(q) \/ Server(q) \/ Refunding(q)
      <3>1. PICK q \in Req : Begin(q) \/ Upstream(q) \/ Server(q) \/ Refunding(q)
        BY <2>1
      <3>2. Step(q)
        BY <3>1 DEF Step, Upstream, Server, Refunding, PreConsume, Reserve, Settle, Failure
      <3>3. q # r
        BY <1>1, <1>2, <3>2
      <3>. QED BY <1>2, <3>2, <3>3, StepTypes DEF Effects, Money
    <2>2. CASE SubscriptionEnds \/ AllFinished \/ UNCHANGED vars
      BY <2>2 DEF SubscriptionEnds, AllFinished, vars
    <2>. QED BY <1>2, <2>1, <2>2 DEF Next
  <1>3. IInv /\ [Next]_vars => [\A r \in Req : s[r].settled => charge'[r] = charge[r]]_vars
    BY <1>2
  <1>. QED BY <1>3, Invariance, PTL DEF Spec, SettledIsFinal

---------------------------------------------------------------------------
\* Sums over finite sets, as in SubscriptionProofs.

\* g is the sum of f over every subset of S.
Adds(g, f, S) ==
    /\ g \in [SUBSET S -> Int] /\ g[{}] = 0
    /\ \A U \in SUBSET S : \A x \in U : g[U] = f[x] + g[U \ {x}]

\* Induction on the subsets of a finite set: a family of them that is not empty has a member
\* from which no element can be taken without leaving the family.
LEMMA Smallest ==
    ASSUME NEW S, IsFiniteSet(S), NEW Bad \in SUBSET (SUBSET S), Bad # {}
    PROVE  \E T \in Bad : \A x \in T : T \ {x} \notin Bad
  <1>1. FiniteSubsetsOf(S) = SUBSET S
    BY FS_Subset DEF FiniteSubsetsOf
  <1>2. IsWellFoundedOn(StrictSubsetOrdering(S), SUBSET S)
    BY <1>1, FS_StrictSubsetOrderingWellFounded
  <1>3. PICK T \in Bad : \A U \in Bad : ~(<<U, T>> \in StrictSubsetOrdering(S))
    BY <1>2, WFMin
  <1>4. ASSUME NEW x \in T, T \ {x} \in Bad PROVE FALSE
    <2>1. <<T \ {x}, T>> \in StrictSubsetOrdering(S)
      BY <1>4 DEF StrictSubsetOrdering
    <2> QED BY <1>3, <1>4, <2>1
  <1> QED BY <1>4

\* Every finite set has a sum.
LEMMA SumExists ==
    ASSUME NEW S, IsFiniteSet(S), NEW f, \A x \in S : f[x] \in Int
    PROVE  \E g : Adds(g, f, S)
  <1> DEFINE Bad == { T \in SUBSET S : ~ \E g : Adds(g, f, T) }
  <1>1. SUFFICES ASSUME Bad # {} PROVE FALSE
    OBVIOUS
  <1>2. PICK T \in Bad : \A x \in T : T \ {x} \notin Bad
    BY <1>1, Smallest
  <1>3. CASE T = {}
    <2> DEFINE g == [U \in SUBSET T |-> 0]
    <2>1. Adds(g, f, T) BY <1>3 DEF Adds
    <2> QED BY <2>1
  <1>4. CASE T # {}
    <2>1. PICK a \in T : TRUE BY <1>4
    <2>2. PICK h : Adds(h, f, T \ {a}) BY <1>2, <2>1
    <2> DEFINE g == [U \in SUBSET T |-> IF a \in U THEN f[a] + h[U \ {a}] ELSE h[U]]
    <2>3. \A U \in SUBSET T : /\ U \ {a} \in SUBSET (T \ {a})
                              /\ a \notin U => U \in SUBSET (T \ {a})
      OBVIOUS
    <2>4. f[a] \in Int BY <2>1
    <2>5. g \in [SUBSET T -> Int] BY <2>2, <2>3, <2>4 DEF Adds
    <2>6. g[{}] = 0 BY <2>2 DEF Adds
    <2>7. ASSUME NEW U \in SUBSET T, NEW x \in U PROVE g[U] = f[x] + g[U \ {x}]
      <3>0. U \ {x} \in SUBSET T /\ f[x] \in Int BY <2>7
      <3>1. CASE x = a
        <4>1. g[U] = f[a] + h[U \ {a}] BY <3>1
        <4>2. g[U \ {x}] = h[U \ {a}] BY <3>0, <3>1
        <4> QED BY <3>1, <4>1, <4>2
      <3>2. CASE x # a /\ a \in U
        <4>1. g[U] = f[a] + h[U \ {a}] BY <3>2
        <4>2. g[U \ {x}] = f[a] + h[(U \ {x}) \ {a}] BY <3>0, <3>2
        <4>3. (U \ {x}) \ {a} = (U \ {a}) \ {x} OBVIOUS
        <4>7. g[U \ {x}] = f[a] + h[(U \ {a}) \ {x}] BY <4>2, <4>3, Zenon
        <4>4. x \in U \ {a} /\ U \ {a} \in SUBSET (T \ {a}) BY <3>2
        <4>5. h[U \ {a}] = f[x] + h[(U \ {a}) \ {x}] BY <2>2, <4>4 DEF Adds
        <4>6. h[(U \ {a}) \ {x}] \in Int BY <2>2, <4>4 DEF Adds
        <4> HIDE DEF g
        <4>8. \A i, j, k \in Int : i + (j + k) = j + (i + k) OBVIOUS
        <4> QED BY <2>4, <3>0, <4>1, <4>5, <4>6, <4>7, <4>8
      <3>3. CASE a \notin U
        <4>1. g[U] = h[U] /\ g[U \ {x}] = h[U \ {x}] BY <3>0, <3>3
        <4>2. U \in SUBSET (T \ {a}) BY <3>3
        <4> QED BY <2>2, <4>1, <4>2 DEF Adds
      <3> QED BY <3>1, <3>2, <3>3
    <2>8. Adds(g, f, T) BY <2>5, <2>6, <2>7 DEF Adds
    <2> QED BY <2>8
  <1> QED BY <1>3, <1>4

\* The sum of the library: a function that takes the elements out in some order.
LEMMA FoldIs ==
    ASSUME NEW S, NEW f
    PROVE Sum(f, S) = (CHOOSE g : g = [V \in SUBSET S |-> IF V = {} THEN 0
                         ELSE f[CHOOSE x \in V : TRUE] + g[V \ {CHOOSE x \in V : TRUE}]])[S]
  BY DEF Sum, MapThenSumSet, MapThenFoldSet

\* It is the sum, whatever the order.
LEMMA SumIs ==
    ASSUME NEW S, IsFiniteSet(S), NEW f, NEW g, Adds(g, f, S), NEW T \in SUBSET S
    PROVE  Sum(f, T) = g[T]
  <1> DEFINE pick(V) == CHOOSE x \in V : TRUE
             rec(i) == [V \in SUBSET T |-> IF V = {} THEN 0 ELSE f[pick(V)] + i[V \ {pick(V)}]]
             h == [V \in SUBSET T |-> g[V]]
             iter == CHOOSE i : i = rec(i)
  <1>1. \A V : V # {} => pick(V) \in V OBVIOUS
  <1>2. h = rec(h)
    <2> SUFFICES ASSUME NEW V \in SUBSET T
                 PROVE  g[V] = IF V = {} THEN 0 ELSE f[pick(V)] + g[V \ {pick(V)}]
      OBVIOUS
    <2> HIDE DEF pick
    <2> QED BY <1>1 DEF Adds
  <1>3. iter = rec(iter) BY <1>2
  <1>4. Sum(f, T) = iter[T] BY FoldIs
  <1> DEFINE Bad == { V \in SUBSET T : iter[V] # g[V] }
  <1>5. Bad = {}
    <2> SUFFICES ASSUME Bad # {} PROVE FALSE OBVIOUS
    <2>0. IsFiniteSet(T) BY FS_Subset
    <2>1. PICK V \in Bad : \A x \in V : V \ {x} \notin Bad
      <3> HIDE DEF iter
      <3> QED BY <2>0, Smallest
    <2>2. iter[V] = IF V = {} THEN 0 ELSE f[pick(V)] + iter[V \ {pick(V)}]
      <3> HIDE DEF iter
      <3> QED BY <1>3
    <2> HIDE DEF iter, pick
    <2>3. CASE V = {} BY <2>1, <2>2, <2>3 DEF Adds
    <2>4. CASE V # {}
      <3>1. pick(V) \in V BY <1>1, <2>4
      <3>2. V \ {pick(V)} \in SUBSET T /\ V \in SUBSET S BY <3>1
      <3>3. iter[V \ {pick(V)}] = g[V \ {pick(V)}] BY <2>1, <3>1, <3>2
      <3>4. g[V] = f[pick(V)] + g[V \ {pick(V)}] BY <3>1, <3>2 DEF Adds
      <3> QED BY <2>1, <2>2, <2>4, <3>3, <3>4
    <2> QED BY <2>3, <2>4
  <1> HIDE DEF iter
  <1>6. iter[T] = g[T] BY <1>5
  <1> QED BY <1>4, <1>6

\* A sum is a number; one of its terms may be taken out.
LEMMA SumType ==
    ASSUME NEW S, IsFiniteSet(S), NEW f, \A x \in S : f[x] \in Int
    PROVE  /\ Sum(f, S) \in Int
           /\ \A x \in S : Sum(f, S) = f[x] + Sum(f, S \ {x})
           /\ Sum(f, {}) = 0
  <1>1. PICK g : Adds(g, f, S) BY SumExists
  <1>2. \A T \in SUBSET S : Sum(f, T) = g[T] BY <1>1, SumIs
  <1>3. S \in SUBSET S /\ {} \in SUBSET S OBVIOUS
  <1> QED BY <1>1, <1>2, <1>3 DEF Adds

\* Equal terms have equal sums.
LEMMA SumSame ==
    ASSUME NEW S, IsFiniteSet(S), NEW f, NEW h, \A x \in S : f[x] \in Int /\ h[x] = f[x]
    PROVE  Sum(h, S) = Sum(f, S)
  <1>1. PICK g : Adds(g, f, S) BY SumExists
  <1>2. Adds(g, h, S) BY <1>1 DEF Adds
  <1>3. S \in SUBSET S OBVIOUS
  <1> QED BY <1>1, <1>2, <1>3, SumIs

\* A sum changes by what one of its terms changes.
LEMMA SumChange ==
    ASSUME NEW S, IsFiniteSet(S), NEW f, NEW h, NEW a \in S,
           \A x \in S : f[x] \in Int /\ h[x] \in Int,
           \A x \in S \ {a} : h[x] = f[x]
    PROVE  Sum(h, S) = Sum(f, S) + (h[a] - f[a])
  <1>1. IsFiniteSet(S \ {a}) BY FS_RemoveElement
  <1>2. Sum(h, S \ {a}) = Sum(f, S \ {a}) /\ Sum(f, S \ {a}) \in Int
    BY <1>1, SumSame, SumType
  <1>3. Sum(f, S) = f[a] + Sum(f, S \ {a}) /\ Sum(h, S) = h[a] + Sum(h, S \ {a})
    BY SumType
  <1>4. \A i, j, k \in Int : j + k = (i + k) + (j - i) OBVIOUS
  <1> QED BY <1>2, <1>3, <1>4

\* A sum of zeros.
LEMMA SumZero ==
    ASSUME NEW S, IsFiniteSet(S), NEW f, \A x \in S : f[x] = 0
    PROVE  Sum(f, S) = 0
  <1> DEFINE g == [U \in SUBSET S |-> 0]
  <1>1. Adds(g, f, S) BY DEF Adds
  <1>2. S \in SUBSET S OBVIOUS
  <1>3. Sum(f, S) = g[S] BY <1>1, <1>2, SumIs
  <1> QED BY <1>3

---------------------------------------------------------------------------
\* The wallet and what all requests have taken from it.

\* What the wallet loses in a step the request has taken.
Paired(r) == wallet' = wallet - (charge'[r].wallet - charge[r].wallet)

\* A call on the user's quota.
LEMMA UserPaired ==
    ASSUME TypeOK, NEW r \in Req, NEW n \in Int, DecreaseUserQuota(r, n)
    PROVE  Paired(r)
  <1>1. wallet \in Int /\ charge[r].wallet \in Int BY DEF TypeOK
  <1>2. wallet' = wallet - n /\ charge'[r].wallet = charge[r].wallet + n
    BY DEF DecreaseUserQuota, TypeOK
  <1>. QED BY <1>1, <1>2 DEF Paired

\* A step with another call or none.
LEMMA OtherPaired ==
    ASSUME TypeOK, NEW r \in Req, wallet' = wallet, charge'[r].wallet = charge[r].wallet
    PROVE  Paired(r)
  <1>1. wallet \in Int /\ charge[r].wallet \in Int BY DEF TypeOK
  <1>. QED BY <1>1 DEF Paired

\* The calls that leave the user's quota alone.
LEMMA CallsPaired ==
    ASSUME TypeOK, NEW r \in Req,
           \/ NoCall \/ DbError \/ NoMoney
           \/ \E n \in Int : DecreaseTokenQuota(r, n)
           \/ \E n \in Int : PostConsumeUserSubscriptionDelta(r, n)
    PROVE  Paired(r)
  <1>1. wallet' = wallet BY DEF NoCall, DbError, NoMoney, DecreaseTokenQuota,
                                PostConsumeUserSubscriptionDelta
  <1>2. charge'[r].wallet = charge[r].wallet
    BY DEF NoCall, DbError, NoMoney, DecreaseTokenQuota, PostConsumeUserSubscriptionDelta, TypeOK
  <1>. QED BY <1>1, <1>2, OtherPaired

\* Every step of a request is paired.
LEMMA StepPaired ==
    ASSUME IInv, NEW r \in Req, Step(r)
    PROVE  Paired(r)
  <1>1. TypeOK /\ Fields(r) BY FieldTypes DEF IInv
  <1>2. CASE \/ Begin(r) \/ Choose(r) \/ CheckWallet(r) \/ CheckToken(r) \/ Rejected(r) \/ Retry(r)
             \/ Succeed(r) \/ Fail(r) \/ Refund(r)
    <2>1. NoCall \/ DbError
      BY <1>2 DEF Begin, Choose, CheckWallet, CheckToken, Rejected, Retry, Succeed, Fail, Refund
    <2>. QED BY <1>1, <2>1, CallsPaired
  <1>3. CASE TakeToken(r) \/ UndoToken(r) \/ ReserveToken(r) \/ SettleToken(r) \/ ChargeFeeToken(r)
             \/ RefundToken(r)
    <2>1. NoCall \/ DbError \/ \E n \in Int : DecreaseTokenQuota(r, n)
      <3>1. /\ s[r].amount \in Int /\ s[r].tokenConsumed \in Int /\ - s[r].tokenConsumed \in Int
            /\ s[r].delta \in Int /\ Delta(r) \in Int /\ req[r].fee \in Int
        BY <1>1 DEF Fields, Delta
      <3>. QED BY <1>3, <3>1 DEF TakeToken, UndoToken, ReserveToken, SettleToken, ChargeFeeToken,
                                 RefundToken
    <2>. QED BY <1>1, <2>1, CallsPaired
  <1>4. CASE PreConsumeWallet(r)
    <2>1. NoCall \/ DbError \/ DecreaseUserQuota(r, s[r].amount) BY <1>4 DEF PreConsumeWallet
    <2>2. s[r].amount \in Int BY <1>1 DEF Fields
    <2>. QED BY <1>1, <2>1, <2>2, CallsPaired, UserPaired
  <1>5. CASE PreConsumeSubscription(r)
    <2>1. NoCall \/ DbError \/ PostConsumeUserSubscriptionDelta(r, s[r].amount)
      BY <1>5 DEF PreConsumeSubscription
    <2>2. s[r].amount \in Int BY <1>1 DEF Fields
    <2>. QED BY <1>1, <2>1, <2>2, CallsPaired
  <1>6. CASE ReserveFunding(r)
    <2>1. PICK target \in Reserves :
            \/ DecreaseUserQuota(r, target - s[r].preConsumedQuota)
            \/ PostConsumeUserSubscriptionDelta(r, target - s[r].preConsumedQuota)
            \/ DbError
      BY <1>6 DEF ReserveFunding
    <2>2. target - s[r].preConsumedQuota \in Int BY <1>1, ConstantsAssumption DEF Fields
    <2>. QED BY <1>1, <2>1, <2>2, CallsPaired, UserPaired
  <1>7. CASE RollbackFundingReserve(r)
    <2>1. \/ DecreaseUserQuota(r, - s[r].delta) \/ PostConsumeUserSubscriptionDelta(r, - s[r].delta)
          \/ DbError
      BY <1>7 DEF RollbackFundingReserve
    <2>2. - s[r].delta \in Int BY <1>1 DEF Fields
    <2>. QED BY <1>1, <2>1, <2>2, CallsPaired, UserPaired
  <1>8. CASE SettleFunding(r)
    <2>1. \/ NoCall \/ DbError \/ DecreaseUserQuota(r, Delta(r))
          \/ PostConsumeUserSubscriptionDelta(r, Delta(r))
      BY <1>8 DEF SettleFunding
    <2>2. Delta(r) \in Int BY <1>1 DEF Fields, Delta
    <2>. QED BY <1>1, <2>1, <2>2, CallsPaired, UserPaired
  <1>9. CASE ChargeFee(r)
    <2>1. \/ NoCall \/ DbError
          \/ \E fee \in Fees : DecreaseUserQuota(r, fee) \/ PostConsumeUserSubscriptionDelta(r, fee)
      BY <1>9 DEF ChargeFee
    <2>2. \A fee \in Fees : fee \in Int
      <3>1. Fees \subseteq Nat BY ConstantsAssumption
      <3>. QED BY <3>1
    <2>. QED BY <1>1, <2>1, <2>2, CallsPaired, UserPaired
  <1>10. CASE RefundWallet(r)
    <2>1. DecreaseUserQuota(r, - s[r].consumed) \/ DbError BY <1>10 DEF RefundWallet
    <2>2. - s[r].consumed \in Int BY <1>1 DEF Fields
    <2>. QED BY <1>1, <2>1, <2>2, CallsPaired, UserPaired
  <1>11. CASE RefundSubscription(r)
    <2>1. wallet' = wallet
      BY <1>11 DEF RefundSubscription, PostConsumeUserSubscriptionDelta
    <2>2. charge'[r].wallet = charge[r].wallet
      BY <1>1, <1>11 DEF RefundSubscription, PostConsumeUserSubscriptionDelta, TypeOK
    <2>. QED BY <1>1, <2>1, <2>2, OtherPaired
  <1>12. CASE RefundExtra(r)
    <2>1. PostConsumeUserSubscriptionDelta(r, - s[r].extraReserved) \/ DbError
      BY <1>12 DEF RefundExtra
    <2>2. - s[r].extraReserved \in Int BY <1>1 DEF Fields
    <2>. QED BY <1>1, <2>1, <2>2, CallsPaired
  <1>. QED BY <1>2, <1>3, <1>4, <1>5, <1>6, <1>7, <1>8, <1>9, <1>10, <1>11, <1>12 DEF Step

\* What each request has taken from the wallet.
Taken == [r \in Req |-> charge[r].wallet]

\* With or without failed calls, the wallet has lost what the requests have taken.
WInv == IInv /\ wallet = WalletInit - Sum(Taken, Req)

\* At first nothing is taken.
LEMMA InitWInv == Init => WInv
  <1>. SUFFICES ASSUME Init PROVE WInv OBVIOUS
  <1>1. \A r \in Req : Taken[r] = 0 BY DEF Init, NoCharge, Taken
  <1>2. Sum(Taken, Req) = 0 BY <1>1, SumZero, ConstantsAssumption
  <1>3. wallet = WalletInit - 0 BY ConstantsAssumption DEF Init
  <1>. QED BY <1>2, <1>3, InitInvariant DEF WInv

\* WInv is inductive.
LEMMA NextWInv == WInv /\ [Next]_vars => WInv'
  <1>. SUFFICES ASSUME WInv, [Next]_vars PROVE WInv' OBVIOUS
  <1>1. IInv /\ IInv' /\ wallet = WalletInit - Sum(Taken, Req) BY NextInvariant DEF WInv
  <1>2. \A r \in Req : Taken[r] = charge[r].wallet /\ Taken'[r] = charge'[r].wallet
                       /\ Taken[r] \in Int /\ Taken'[r] \in Int
    BY <1>1 DEF IInv, TypeOK, Taken
  <1>3. Sum(Taken, Req) \in Int /\ WalletInit \in Int /\ IsFiniteSet(Req)
    BY <1>2, SumType, ConstantsAssumption
  <1>4. CASE \E r \in Req : Begin(r) \/ Upstream(r) \/ Server(r) \/ Refunding(r)
    <2>1. PICK r \in Req : Begin(r) \/ Upstream(r) \/ Server(r) \/ Refunding(r)
      BY <1>4
    <2>2. Step(r)
      BY <2>1 DEF Step, Upstream, Server, Refunding, PreConsume, Reserve, Settle, Failure
    <2>3. Paired(r) /\ \A q \in Req \ {r} : charge'[q] = charge[q]
      BY <1>1, <2>2, StepPaired, StepTypes DEF Effects, Money
    <2>4. \A q \in Req \ {r} : Taken'[q] = Taken[q] BY <1>2, <2>3
    <2>5. Sum(Taken', Req) = Sum(Taken, Req) + (Taken'[r] - Taken[r])
      BY <1>2, <1>3, <2>4, SumChange
    <2>6. wallet' = wallet - (Taken'[r] - Taken[r]) BY <1>2, <2>3 DEF Paired
    <2>7. \A i, j, k \in Int : (i - j) - k = i - (j + k) OBVIOUS
    <2>8. Taken'[r] - Taken[r] \in Int BY <1>2
    <2>9. wallet' = WalletInit - Sum(Taken', Req) BY <1>1, <1>3, <2>5, <2>6, <2>7, <2>8
    <2>. QED BY <1>1, <2>9 DEF WInv
  <1>5. CASE SubscriptionEnds \/ AllFinished \/ UNCHANGED vars
    <2>1. wallet' = wallet /\ charge' = charge
      BY <1>5 DEF SubscriptionEnds, AllFinished, vars
    <2>2. Taken' = Taken BY <2>1 DEF Taken
    <2>. QED BY <1>1, <2>1, <2>2 DEF WInv
  <1>. QED BY <1>4, <1>5 DEF Next

\* While no database call has failed, the user's quota is what it was less what all requests owe
\* by their books, for any number of concurrent requests (WalletFunding, PostConsumeQuota).
THEOREM WalletBalance == Spec => []WalletConserved
  <1>1. WInv => WalletConserved
    <2>. SUFFICES ASSUME WInv, faults = 0
                  PROVE  wallet = WalletInit - Sum([r \in Req |-> OwedWallet(r)], Req)
      BY DEF WalletConserved
    <2>. DEFINE books == [r \in Req |-> OwedWallet(r)]
    <2>1. \A r \in Req : Taken[r] \in Int /\ books[r] = Taken[r]
      <3>. SUFFICES ASSUME NEW r \in Req PROVE Taken[r] \in Int /\ books[r] = Taken[r] OBVIOUS
      <3>1. Fields(r) /\ FundingBalanced(r)
        BY FieldTypes DEF WInv, IInv, ReqInv, FaultFreeInv, Balanced
      <3>. QED BY <3>1 DEF Fields, FundingBalanced, OwedWallet, Taken
    <2>2. IsFiniteSet(Req) BY ConstantsAssumption
    <2>. HIDE DEF books
    <2>3. Sum(books, Req) = Sum(Taken, Req) BY <2>1, <2>2, SumSame
    <2>. QED BY <2>3 DEF WInv, books
  <1>. QED BY <1>1, InitWInv, NextWInv, PTL DEF Spec

-----------------------------------------------------------------------------
\* Where the wallet is kept: QuotaStore, for any quota, changes and number of goroutines, failing
\* updates and crashes.

LEMMA InitStore == StoreInit => StoreTypeOK
  <1> SUFFICES ASSUME StoreInit PROVE StoreTypeOK
    OBVIOUS
  <1>1. /\ db \in Int /\ store \in Int /\ taken \in Int /\ truth \in Int
        /\ changes \in 0..MaxChanges /\ lost \in 0..MaxLost /\ crashes \in 0..MaxCrashes
    BY QuotaStoreAssumption DEF StoreInit
  <1>2. cache \in [there: BOOLEAN, complete: BOOLEAN, quota: Int]
    BY DEF StoreInit, Absent
  <1>3. job \in [Jobs -> [kind: {"none", "incr", "field", "obj"}, value: Int,
                          checked: BOOLEAN]]
    BY DEF StoreInit, NoJob
  <1> QED
    BY <1>1, <1>2, <1>3 DEF StoreInit, StoreTypeOK

\* gopool.Go fills one slot.
LEMMA GoStore ==
    ASSUME StoreTypeOK, NEW kind \in {"incr", "field", "obj"}, NEW value \in Int, Go(kind, value)
    PROVE  job' \in [Jobs -> [kind: {"none", "incr", "field", "obj"}, value: Int,
                              checked: BOOLEAN]]
  <1>1. PICK j \in Jobs :
          job' = [job EXCEPT ![j] = [kind |-> kind, value |-> value, checked |-> FALSE]]
    BY DEF Go
  <1> QED
    BY <1>1 DEF StoreTypeOK

LEMMA NextStore == StoreTypeOK /\ [StoreNext]_storeVars => StoreTypeOK'
  <1> SUFFICES ASSUME StoreTypeOK, [StoreNext]_storeVars PROVE StoreTypeOK'
    OBVIOUS
  <1>1. CASE UNCHANGED storeVars
    BY <1>1 DEF storeVars, StoreTypeOK
  <1>2. ASSUME NEW delta \in Deltas, NEW direct \in BOOLEAN, Change(delta, direct)
        PROVE  StoreTypeOK'
    <2>1. delta \in Int
      BY QuotaStoreAssumption
    <2>2. job' \in [Jobs -> [kind: {"none", "incr", "field", "obj"}, value: Int,
                             checked: BOOLEAN]]
      BY <1>2, <2>1, GoStore DEF Change
    <2>3. changes' \in 0..MaxChanges
      BY <1>2, QuotaStoreAssumption DEF Change, StoreTypeOK
    <2> QED
      BY <1>2, <2>1, <2>2, <2>3 DEF Change, AddNewRecord, StoreTypeOK
  <1>3. CASE TakeStore
    BY <1>3 DEF TakeStore, StoreTypeOK
  <1>4. CASE WriteTaken
    <2>1. db' \in Int /\ taken' = 0 /\ lost' \in 0..MaxLost
      BY <1>4, QuotaStoreAssumption DEF WriteTaken, StoreTypeOK
    <2>2. updating' = FALSE /\ UNCHANGED <<store, cache, job, truth, changes, crashes>>
      BY <1>4 DEF WriteTaken
    <2>3. taken' \in Int
      BY <2>1
    <2> QED
      BY <2>1, <2>2, <2>3, Zenon DEF StoreTypeOK
  <1>5. CASE ReadUser
    <2>1. job' \in [Jobs -> [kind: {"none", "incr", "field", "obj"}, value: Int,
                             checked: BOOLEAN]]
      BY <1>5, GoStore DEF ReadUser, StoreTypeOK
    <2> QED
      BY <1>5, <2>1 DEF ReadUser, StoreTypeOK
  <1>6. CASE ReadQuota
    <2>1. job' \in [Jobs -> [kind: {"none", "incr", "field", "obj"}, value: Int,
                             checked: BOOLEAN]]
      BY <1>6, GoStore DEF ReadQuota, StoreTypeOK
    <2> QED
      BY <1>6, <2>1 DEF ReadQuota, StoreTypeOK
  <1>7. CASE Expire
    <2>1. cache' \in [there: BOOLEAN, complete: BOOLEAN, quota: Int]
      BY <1>7 DEF Expire, Absent
    <2> QED
      BY <1>7, <2>1 DEF Expire, StoreTypeOK
  <1>8. CASE Crash
    <2>1. store' \in Int /\ taken' = 0 /\ crashes' \in 0..MaxCrashes
      BY <1>8, QuotaStoreAssumption DEF Crash, StoreTypeOK
    <2>2. job' \in [Jobs -> [kind: {"none", "incr", "field", "obj"}, value: Int,
                             checked: BOOLEAN]]
      BY <1>8 DEF Crash, NoJob
    <2> QED
      BY <1>8, <2>1, <2>2 DEF Crash, StoreTypeOK
  <1>9. ASSUME NEW j \in Jobs, CheckKey(j)
        PROVE  StoreTypeOK'
    <2>1. job' \in [Jobs -> [kind: {"none", "incr", "field", "obj"}, value: Int,
                             checked: BOOLEAN]]
      <3>1. NoJob \in [kind: {"none", "incr", "field", "obj"}, value: Int, checked: BOOLEAN]
        BY DEF NoJob
      <3>2. [job[j] EXCEPT !.checked = TRUE] \in
              [kind: {"none", "incr", "field", "obj"}, value: Int, checked: BOOLEAN]
        BY DEF StoreTypeOK
      <3> QED
        BY <1>9, <3>1, <3>2 DEF CheckKey, StoreTypeOK
    <2> QED
      BY <1>9, <2>1 DEF CheckKey, StoreTypeOK
  <1>10. ASSUME NEW j \in Jobs, WriteKey(j)
         PROVE  StoreTypeOK'
    BY <1>10 DEF WriteKey, StoreTypeOK, NoJob
  <1> QED
    BY <1>1, <1>2, <1>3, <1>4, <1>5, <1>6, <1>7, <1>8, <1>9, <1>10 DEF StoreNext

\* The variables keep their types, a finished batch update has nothing left to write and a
\* missing hash has no fields.
THEOREM StoreTyped == StoreSpec => []StoreTypeOK
  BY InitStore, NextStore, PTL DEF StoreSpec

LEMMA NextConserved == StoreTypeOK /\ Conserved /\ [StoreNext]_storeVars => Conserved'
  <1> SUFFICES ASSUME StoreTypeOK, Conserved, [StoreNext]_storeVars, (lost = 0 /\ crashes = 0)'
               PROVE  (db + store + taken = truth)'
    BY DEF Conserved
  <1> USE QuotaStoreAssumption DEF StoreTypeOK, Conserved
  <1>1. CASE UNCHANGED storeVars
    BY <1>1 DEF storeVars
  <1>2. ASSUME NEW delta \in Deltas, NEW direct \in BOOLEAN, Change(delta, direct)
        PROVE  (db + store + taken = truth)'
    BY <1>2 DEF Change, AddNewRecord
  <1>3. CASE TakeStore
    BY <1>3 DEF TakeStore
  <1>4. CASE WriteTaken
    BY <1>4 DEF WriteTaken
  <1>5. CASE ReadUser \/ ReadQuota \/ Expire \/ \E j \in Jobs : CheckKey(j) \/ WriteKey(j)
    BY <1>5 DEF ReadUser, ReadQuota, Expire, CheckKey, WriteKey
  <1>6. CASE Crash
    BY <1>6 DEF Crash
  <1> QED
    BY <1>1, <1>2, <1>3, <1>4, <1>5, <1>6 DEF StoreNext

\* No change is lost or counted twice on its way to the database unless the process dies or
\* a batch update fails.
THEOREM QuotaConserved == StoreSpec => []Conserved
  <1>1. StoreInit => Conserved
    BY QuotaStoreAssumption DEF StoreInit, Conserved
  <1> QED
    BY <1>1, NextConserved, StoreTyped, PTL DEF StoreSpec
=============================================================================
