# The TinyToken gateway in TLA+

TinyToken is a gateway in front of language-model and media APIs: a request
passes token authentication, is priced, pre-charged to the user's wallet or
subscription and to the API token, relayed to one of several upstream channels
(with retries) and then settled or refunded. Requests that start a long-running
task (video, music) are settled at submission and billed once more by a polling
loop when the task ends; a realtime session is billed turn by turn. Money comes
in through top-up orders, subscription orders and redemption codes. A web front
end shows all of it, has a chat playground and edits the prices.

Money moves in many small database calls which concurrent requests, goroutines,
pollers, payment call-backs and administrators interleave, each of which may
fail. This directory models that part of the program, and the two parts of the
front end that keep concurrent state of their own; it checks them with TLC on small
instances and proves, with TLAPS, every invariant and action property of the runs for
all values of the constants.

Paths below are relative to `src/`.

## Inventory

| Component | State | Operations | Correct when |
|---|---|---|---|
| Billing session (`service/billing_session.go`, `service/funding_source.go`, `service/billing.go`) | `preConsumedQuota`, `tokenConsumed`, `extraReserved`, `settled`, `fundingSettled`, `refunded`; per source `consumed`/`preConsumed` | `NewBillingSession`, `preConsume`, `Reserve`, `Settle`, `Refund` | the accounts agree with the books, a request pays once or nothing, never a refund larger than the charge |
| Relay handlers (`controller/relay.go`) | retry index, error, deferred refund | `Relay`, `RelayTask`, `shouldRetry` | every answered request ends, with settlement or refund |
| Post-consume and violation fee (`service/quota.go`, `service/violation_fee.go`) | none of its own | `PreConsumeTokenQuota`, `PostConsumeQuota`, `ChargeViolationFeeIfNeeded` | the fee is charged besides the refund, not instead of it |
| Task table, polling and billing (`model/task.go`, `service/task_polling.go`, `service/task_billing.go`) | status, progress, quota of a row; the copies of a round | insert, compare-and-swap, bulk update, sweep, fetch, refund, recalculation | a task is billed once, for the outcome its row shows; a finished row stays; a timed-out task ends |
| Task queries (`relay/relay_task.go`) | a copy of one row | `tryRealtimeFetch` | a query changes no bill |
| Realtime relay (`relay/websocket.go`, `relay/channel/openai/relay_realtime.go`) | `usage`, `localUsage`, `sumUsage`, shared by three goroutines | read, charge a turn, settle | usage is counted once and settled; the session ends |
| Orders (`model/topup.go`, `controller/topup*.go`, `model/promptpay_auto.go`, `CompleteSubscriptionOrder`), redemption codes (`model/redemption.go`) | order status, approvals | create, notify, complete, reject, approve, redeem | an order is granted once, shown as what it is, and at last |
| Order lock (`controller/topup.go`) | map of counted mutexes | `LockOrder`, `UnlockOrder` | one mutex for each order, no leak, no starvation |
| User and token quota store (`model/user.go`, `model/*_cache.go`, `model/utils.go`, `common/redis.go`) | database column, batched deltas, Redis hash | increase, decrease, read, flush | no delta is lost or applied twice; the copy comes to agree |
| Subscriptions (`model/subscription.go`, `service/subscription_reset_task.go`) | usage, status, reset and end times, records; the user's group | pre-consume, settle, refund, reset, expire, cancel, delete, buy | usage is what requests consumed; nothing that ended comes back; the group follows the subscriptions |
| Playground (`web/default/src/features/playground`) | messages, streams, timer, history in IndexedDB | send, stop, regenerate, edit, delete, switch, save | replies hold their own answer, streams can be stopped, the history is kept |
| Tiered pricing editor (`web/default/src/features/system-settings/models`, `features/pricing/lib`) | an expression in three forms | edits, presets, modes, effects, save | what is saved is what is shown; nothing untouched changes |
| Channel selection, Midjourney, rate limits, pricing, adaptors, authentication, options, logs, other pages of the front ends | | | see *Not modelled* |

Interaction. The relay handlers own a session and call it directly; a refund runs
in a goroutine of its own; sessions, fees, pollers and orders share the accounts only
through database calls. A task row carries the bill from the submission to
the pollers; pollers of several nodes (any node polls unless `NODE_TYPE` is
`slave`) and the status queries of clients share the task table. BillingSession takes
each account's change as one step; QuotaStore, SubscriptionLedger and OrderLock open up
those steps, so together they say under which conditions the step is atomic.
TopUp uses the order's mutex as OrderMutex describes it, and OrderLock is shown to
implement that.

What is hard: two-step settlements that fail half way, a refund next to a fee,
rollbacks, retries of calls that are not idempotent, stale copies of
a row saved whole, time-outs that race with answers, crashes between an update and its
bill, repeated and late notifications, mutexes local to a process, goroutines that
overtake each other, and in the front end callbacks that act on what an earlier
rendering has shown. `PROJECT.json` lists these hazards with their lines.

## Modules

Every component has a module, an MC module with what TLC needs in addition, and,
where there are proofs, a proof module. The operators whose comment begins with
*Variant* are plausible mistakes; none is part of a specification. Each was put in
the place of the definition it varies to see that the property meant to catch it does.
Histories (variables no guard reads) are marked in the declarations.

### BillingSession

One user, one API token, one subscription; any number of requests. `wallet`,
`token`, `used`, `active` are `users.quota`, `tokens.remain_quota`,
`user_subscriptions.amount_used` and its being active. For each request, `pc` is
the next call of the handler's goroutine, `rpc` the next call of the refund
goroutine, `req` what the handler knows (`relayInfo`), `s` the `BillingSession`
struct with its funding source, `charge` a history variable: what the request has
taken from each account, net. One database call is one step, so other requests
come in between any two, and a call may fail `MaxFaults` times (`DbError`; a
failing call changes nothing, except the subscription refund, whose inner
transaction may have committed).

| Action | Code |
|---|---|
| `Begin`, `Choose` | `Relay` up to `NewBillingSession`, the billing preference |
| `CheckWallet` | `tryWallet`: balance checks and `shouldTrust` |
| `CheckToken`, `TakeToken` | `PreConsumeTokenQuota`, two calls |
| `PreConsumeWallet`, `PreConsumeSubscription` | `FundingSource.PreConsume` |
| `UndoToken`, `Rejected` | error path of `preConsume`, fall-back to the wallet, retry of a task |
| `Retry`, `Succeed`, `Fail` | the retry loop; the actual quota is any of `ActualQuotas` |
| `ReserveFunding`, `ReserveToken`, `RollbackFundingReserve` | `Reserve` |
| `SettleFunding`, `SettleToken` | `Settle`, and `PostConsumeQuota` for a free model without session |
| `Refund`, `RefundWallet`, `RefundSubscription`, `RefundExtra`, `RefundToken` | `Refund` and its goroutine |
| `ChargeFee`, `ChargeFeeToken` | `ChargeViolationFeeIfNeeded` |
| `SubscriptionEnds` | expiry or cancellation |

`Reserve` is an operation of the session's interface that no handler of this
commit calls; it is modelled as a call while the request is with the upstream.
Prices, token counts and upstream formats are inputs. A transaction on the
subscription is one step; its inside is the subject of SubscriptionLedger.

### TaskBilling

`row` is the task table (status `NONE`: no row), `upstream` what the platform would
answer, `late` whether the task is older than the time-out, `loop` where each
poller is, with the rows it has listed and their copies, `job` the task it
is updating and the bill it still has to make, `query` a client's status query,
`charge` the net quota the task has taken (history). The statuses SUBMITTED and
QUEUED are folded into IN_PROGRESS: the code treats them alike. Platform
`gemini` is `video` with realtime queries (Gemini and Vertex channels).

| Action | Code |
|---|---|
| `Submit` | `RelayTask` after a successful submission: settle, insert |
| `StartSweep`, `SweepTask` | `sweepTimedOutTasks` |
| `ListTasks`, `EndPoll` | a round of `TaskPollingLoop` |
| `BulkFail` | the channel is gone: `TaskBulkUpdateByID` |
| `AskUpstream` | the call of `FetchTask`, which returns only with one of the next three |
| `FetchFails` | it fails, or its answer cannot be used |
| `FetchVideo`, `UpdateVideo` | `updateVideoSingleTask` after the answer |
| `FetchSuno`, `SaveSuno` | `updateSunoTasks` after the answer |
| `AdjustFunding`, `AdjustToken` | `RefundTaskQuota`, `RecalculateTaskQuota` |
| `QueryTask`, `AnswerQuery` | `tryRealtimeFetch` |
| `Crash` | a polling process dies and starts again |
| `UpstreamEnds`, `TimesOut`, `DeleteChannel` | the environment |

A poller updates the rows of a round in any order; a bulk update is one step per
row. `row.complete` is a progress of 100%, which both queries exclude; an upstream
may report it for an unfinished task. Left out: tasks of the legacy system, the limits
of 100 and `TaskQueryLimit` rows, and Suno answers about unknown tasks.

### TopUp

`order` are the tables of top-ups, subscription orders and redemption codes, `outcome`
and `acked` the payment at the gateway and whether the gateway has its answer, `call`
the handlers at work, `credit` how often an order was granted (history), `audit` the
approvals, `autoOn` the rule for automatic approval. A call takes the mutex if its path
does (`TakesMutex`), reads the order, and commits; Epay's top-up credits in a second
call. `RowLocks` says whether the database serialises the transactions: their
`gorm:query_option` FOR UPDATE is gorm v1's and without effect.

| Action | Code |
|---|---|
| `Create`, `PaymentEnds` | an order is made; the gateway decides |
| `Notify` | a web-hook call, repeated until answered and `MaxDups` times after |
| `Decide` | administrator, bot or user (redemption) acts on an order |
| `StartAuto`, `CheckAuto` | `tryAutoApprovePromptPay` before and after the verification |
| `LockOrder`, `Read`, `Commit`, `Credit` | the handlers of all providers |
| `LookupFails` | the order cannot be read and the web-hook answers 200, as for an unknown one (Pancake, Creem subscriptions) |
| `Complete`, `Reject` | `completeManualTopUp`, `RejectManualTopUp` |
| `SwitchAuto`, `Crash` | the option changes, a process dies |

### OrderMutex, OrderLock

`OrderMutex` is the promise: handlers ask for an order, one at a time has it, they leave.
`OrderLock` is `LockOrder` and `UnlockOrder` with one step for each operation on
`createLock`, the `sync.Map`, the counter and the mutex; `IsOrderMutex` instantiates
OrderMutex with a handler's phase as the mapping.

### QuotaStore

`db`, the batch updater's `store` and the map it has `taken`, the Redis hash `cache`
and `job`, the goroutines that will change it. `Change` is `IncreaseUserQuota` and
`DecreaseUserQuota`, `TakeStore` and `WriteTaken` are `batchUpdate`, `ReadUser` and
`ReadQuota` fill the cache after a miss, `CheckKey` and `WriteKey` are the two Redis
calls of a goroutine, `Expire` is the TTL or `invalidateUserCache`.

### SubscriptionLedger

The rows of one user's subscriptions, the records of the requests, and the open
transactions with the copies they have read. Every transaction is a reading step and a
committing step that saves the copies it has changed, all columns of them.
`PreConsume`/`CommitPreConsume`, `ReadDelta`/`CommitDelta` (`Settle`, `Refund`) and
`MarkRefunded` belong to a request; `ExpireDue`, `ListDue`, `ReadDue`, `CommitReset`,
`EndBatch` are a round of the maintenance task; `Invalidate`, `Delete`, `StopResets`
are administrators; `Tick` is a reset period. Transactions which only the
administrators make are one step.

### SubscriptionGroups

The group of one user and the subscriptions that raise it. `Buy`, `Expire`,
`InvalidateSub`, `DeleteSub` read and decide, `Commit` writes. `overlapped` remembers that the
user has bought while another subscription was not marked as ended.

### RealtimeBilling

The two readers and the handler of `OpenaiRealtimeHandler`, which share three usages
without a lock. A number of tokens is the set of messages it counts. `PreConsumeUsage` is a
turn: `Sum`, then `PreWssConsumeQuota` as `CheckQuota` (the account and the token suffice) and
`Charge` (`PostConsumeQuota`), two steps since the account belongs to the user's other
requests too; `ChargeFails` is each of its errors, the last of which may come after the account
has paid. `Reset` follows a turn of the reader; `Select`, `Flush`, `FlushLocal`, `Settle` are the
handler's end. `owed` is what a turn has summed and then priced, `taken` what the account was
charged for. The histories `hungUp` and `exposed` remember that the client has ended the
session, and which messages were summed in a turn that could not be charged or by a handler next
to a reader at work. A model with a fixed price is not charged by the turn, which takes nothing
from the properties.

### Playground

JavaScript runs one callback at a time: a click, a stream event, a timer or a promise
callback is one action with the rendering and effects it causes (`Render`).
`messages`, `open` and `ref` (the streams, and the one Stop knows), `shown`
(`isGenerating` as last rendered), `sessions`, `timer`, `stored` and `ops` (the database
and the requests to it, which are delivered in the order issued, stage by stage). `Click`
lists the controls, each named like its handler; `UserWaits` says that the user leaves
alone, during a reply, the two controls that are not guarded. A storage operation may start
while others are under way; `MaxOps` bounds how many there are, and `MaxChanges` how many
messages are opened for editing or deleted.

### PricingEditor

An expression is a base with layers of rules, tests included that the reverse parser
does not know. A base is a list of tiers as the editor writes it, the same behind a version
prefix, a single tier spelled otherwise or with a price that is no number for JavaScript
(`2+1`), or something else. `Commit` is a rendering with the four effects of
`TieredPricingEditor`, each of which sees the values of that rendering. The handlers keep
their names; `Open`, `ChangeTab`, `Close`, `Save` are the panel's; a save from another tab
clears the panel's two strings. `tryParseVisualConfig` (which checks several tiers against what
they generate, and a single one not at all), `splitBillingExprAndRequestRules`,
`combineBillingExpr` and `generateExprFromVisualConfig` are modelled as the conversions
they are, not as inverses of each other.

## Runs

| Run | Instance | Checks |
|---|---|---|
| `billing_pays` | 2 requests, 1 failing call, fairness | `TypeOK`, `BooksBalance`, `PaysExactly`, `WalletConserved`, `NeverOverRefunded`, `SettledOrRefunded`, `SettledIsFinal`, `Completes` |
| `task_polled` | 1 task (video or Gemini), 2 pollers, fetches that may hang, 1 query, 1 failing call, 1 crash, channel loss, fairness | `PaidByOutcome`, `FailedTasksRefunded`, `TerminalIsFinal`, `TimedOutEnds` |
| `task_sole` | 2 Suno tasks, 1 poller, 1 failing call, 1 crash, channel loss | `RefundsByFaults` |
| `task_realtime` | 1 Gemini task, 1 poller, 1 query | `NoDoubleRefund`, violated |
| `topup_orders` | 1 order of any kind, 3 calls, 1 node, 2 repetitions, 2 failing calls, 1 crash, fairness | `CreditedOnce`, `ShownAsGranted`, `AutoOnlyWhileOn`, `PaidIsGranted` |
| `ledger_rows` | 2 subscriptions, 2 requests, batch of 1, plan change, fairness | `TypeOK`, `UsedIsOwed`, `EndedStaysEnded`, `ResetsAdvance`, `DueIsDone` |
| `groups_serial` | 3 subscriptions, 2 paid groups, 2 durations | `GroupReturned`, `UpgradeKept` |
| `lock_orders` | 3 handlers, 2 orders, 3 mutexes, fairness | `NoLeak`, `IsOrderMutex`, `EveryoneEnters` |
| `quota_batch` | 2 changes, 3 goroutines, 1 failed write, 1 crash, fairness | `Conserved`, `StaleEnds` |
| `realtime_session` | 4 messages, charges that fail at any call, fairness | `CountedOnce`, `ReportedSettled`, `SessionEnds` |
| `playground_chat` | 2 requests, 2 conversations, a history of 1, 2 storage operations at a time, 1 message edited or deleted | `RepliesTheirOwn`, `StreamsAttended`, `RestoredSettled`, `HistoryAgrees`, `RepliesAwaited` |
| `editor_edit` | 1 model with one of 6 expressions, 7 edits, 2 tiers, 1 rule group, fairness | `SavedIsShown`, `UntouchedKept`, `Settles` |

A run lists the properties that say something about the code. A type invariant (`TypeOK`,
`StoreTypeOK`, `GroupTypeOK`) is defined in every module and holds in these instances; it is
listed where it carries a bound of its own (the usage of a subscription, the retries of a request), proved for
BillingSession, TaskBilling, TopUp, OrderLock, QuotaStore, SubscriptionLedger and
RealtimeBilling, and otherwise documents the variables.
`OneMutex` is proved, and is what makes `IsOrderMutex` true.

### Bounds

Two requests are enough for every pair of calls to interleave: they share
three accounts and nothing else. The quotas are chosen around the limits: a balance of 4,
a subscription of 3 and pre-charges of 2 let one request pass and starve the
other, a trust quota of 3 is passed by the first request and not by the second, an actual
quota of 0 or 3 settles both downwards and upwards, and a reserve to 3 can be
refused by the token. One failing call is reached at each point of a request. One task is
enough for the pollers' races, which are about one row; the second task of `task_sole`
lets a crash lose the work on two. A client queries once, since a query
that revives a task lets it be refunded without end.

One order suffices for `topup_orders` because orders share only the purchase limit, set
to none; three calls let a success, a failure and an approval meet, two repetitions
outlast an answer. In `ledger_rows` a total of 3 and amounts of 2 let one request
exhaust a subscription and fall to the other, one ends before and one after the next
reset, and a batch of 1 makes a round list twice. Three subscriptions let one run
while a second ends and a third is bought. Two orders with three handlers let a map
entry be dropped and made again while a handler still has the old one; a mutex per
handler is the most that can be in use. Three goroutine slots hold the increment of each change and a
refill. Four messages make two turns and a remainder.
A history of one conversation next to two evicts at every save; two operations at a time let a
save evict, or a deletion list, what the other has changed since. One edit or deletion of a
message is enough to make a saved conversation outdated. Seven edits
are open, preset, mode change, edit, mode change, edit and save.

### Fairness

Weak fairness for what a scheduler keeps running: handlers and refund goroutines
(`Server`, `Refunding`), polling loops (`Poll`), handlers of orders (`Handle`), the
maintenance task and requests (`Maintain`, `Request`), the batch updater, the
TTL and the cache goroutines (`TakeStore`, `WriteTaken`, `Expire`, `CheckKey` or
`WriteKey`), the readers' turns and the handler of a realtime session (`Target`,
`Handler`), and React's renderings (`Commit`). Strong fairness for a mutex that is free
again and again (`sync.Mutex` hands over to a waiter after 1 ms), and for a gateway's
notification: it repeats until it is answered, though every call may find the
handlers busy. Nothing is assumed of clients, upstreams, users, administrators, crashes and
failures. In particular a poller's fetch need not return (`Answer` is not fair): `RELAY_TIMEOUT`
is 0 by default and the HTTP client then has no time-out (`service/http_client.go:48`), and
the goroutine that fetches is the one that sweeps. `TimedOutEnds` therefore has the premise that one of
the processes is not in a fetch for ever; it need not be the one that lists the task. Crashes and
failures are bounded, so `Completes`, `TimedOutEnds`, `PaidIsGranted` and `StaleEnds` say what happens
once they stop. `playground_chat` has no liveness property: a connection that ends in
order without `[DONE]` leaves its reply streaming until Stop is pressed, and
deleting the conversation shown during a reply may leave `isGenerating` shown.

### The run with a violation

`task_realtime`: `tryRealtimeFetch` writes the upstream's status over a row that the
sweep has moved to FAILURE and refunded; the task is polled again and refunded again,
where `service/task_billing_test.go:542` says "no double refund".

## Further disagreements

The conditions in the properties above are not decoration: each of these changes of an
instance, or of a condition, makes TLC find a violation. The properties named here and not
in a run are defined in their modules.

| Change | Violated | Where the code disagrees, and with what |
|---|---|---|
| `billing_pays`, other property | `SubscriptionNeverOverRefunded` | `model/subscription.go:1206` gives the quota back in a transaction of its own and marks the record afterwards; a failed save is retried. Line 1188: "RefundSubscriptionPreConsume is idempotent" |
| `task_realtime`, without `platform = "video"` in `Guarded` | `FailedTasksRefunded` | `relay/relay_task.go:477` moves a task to FAILURE without billing. `service/task_billing.go:151`: a failed task is refunded |
| `task_realtime`, Suno, `MaxFaults = 1` | `NoDoubleRefund` | `service/task_polling.go:237` refunds before an unguarded save. `model/task.go:434`: "For status transitions that involve billing, use Task.UpdateWithStatus() instead." |
| `task_realtime`, video, `ChannelLoss`, without `channel` in `Guarded` | `FailedTasksRefunded` | `service/task_polling.go:314` fails tasks by a bulk update. `model/task.go:432`: "DO NOT use in billing/quota lifecycle flows" |
| `task_realtime`, video, `UnsettledQuotas = {1}` | `NoDoubleRefund` | `controller/relay.go:644` logs a failed settlement and stores the full quota. `service/task_billing.go:151`: what was pre-charged is given back |
| `task_polled`, without `row[t].complete` | `TimedOutEnds` | `service/task_polling.go:470` stores a progress of 100% for a task in progress. Line 38: timed-out tasks are cleaned up independently of the polling |
| `task_polled`, without the premise | `TimedOutEnds` | `service/http_client.go:48`: no time-out unless `RELAY_TIMEOUT` is set (`common/init.go:104`: 0), and a fetch that hangs keeps its process from sweeping. Same line 38 |
| `topup_orders`, 2 nodes, `RowLocks = FALSE` | `CreditedOnce` | `model/subscription.go:538` reads without a lock. Line 520: "Complete a subscription order (idempotent)." With one node, redemption codes violate it, `model/redemption.go:130` |
| `topup_orders`, `RowLocks = FALSE` | `ShownAsGranted` | `controller/topup_waffo.go:382` writes a failure without `LockOrder`. `controller/topup.go:1391`: "订单级互斥，防止并发补单" (mutual exclusion for each order) |
| `topup_orders`, Stripe instead of `AnsweredByResult` | `PaidIsGranted` | `controller/topup_stripe.go:189` answers 200 whatever happened. Line 258: "the shared logic for crediting quota after payment is confirmed" |
| `topup_orders`, without `AnswersUnknown` | `PaidIsGranted` | `service/waffo_pancake.go:207` and `model/subscription.go:538` take an order that could not be read for one that does not exist, and `controller/topup_waffo_pancake.go:494` and `topup_creem.go:316` answer 200. `topup_waffo_pancake.go:518`: "200 OK so Waffo doesn't retry a permanently-unresolvable webhook" |
| `topup_orders`, 2 orders, `MaxPurchase = 1` | `PaidIsGranted` | `model/subscription.go:467` refuses a paid order at the limit. Line 555: "still allow completion for already purchased orders" |
| `ledger_rows`, `RowLocks = FALSE` | `UsedIsOwed` | `model/subscription.go:1306`, FOR UPDATE without effect. `service/billing_session.go:308`: "锁定订阅" (locks the subscription) |
| the same | `EndedStaysEnded` | `model/subscription.go:1319` saves a stale status and re-inserts deleted rows. Lines 843, 888: "ends it immediately", "hard-deletes" |
| `ledger_rows`, without `~resetting` | `DueIsDone` | `model/subscription.go:1247`: after a plan was switched to "never" due rows stay due, and a full batch of them is listed without end. Line 1214: "resets subscriptions whose next_reset_time has passed" |
| `groups_serial`, without `~overlapped` | `GroupReturned` | `model/subscription.go:997`: overlapping subscriptions remember each other's group or none. Line 985: "downgrade to previous group if needed" |
| `groups_serial`, `Serial = FALSE` | `UpgradeKept` | `model/subscription.go:981` decides and writes without a lock. Line 974: "If there's an active upgraded subscription, keep current group." |
| `quota_batch`, other property | `HitIsComplete` | `common/redis.go:285` asks for the TTL and writes afterwards. `model/user_cache.go:79`: "gets complete user cache from hash" |
| `realtime_session`, without `exposed` | `CountedOnce` | `relay/channel/openai/relay_realtime.go:136` ends the reader after the sum without clearing the usage, and `:214` flushes next to a reader at work: usage is added twice. Line 141: "本次计费完成，清除" (charged, cleared) |
| `realtime_session`, other property | `PaidOnce` | `service/quota.go:229` settles the session with turns that were charged when they ended; same line 141 |
| `playground_chat`, `UserWaits = FALSE`, `MaxMessages = 4` | `RepliesTheirOwn` | `components/playground-input.tsx:237` and an edit opened earlier send during a reply. `hooks/use-message-action-guard.ts:24`: "guard message actions when generation is in progress" |
| the same | `RestoredSettled` | `lib/message-utils.ts:406` looks at the last message only. Lines 403-404: "Converts stuck loading/streaming messages to stable state" |
| `playground_chat`, other property | `SavedAtRest` | `lib/session-storage.ts:76`: a save evicts by the list it has read what another has stored since. `hooks/use-playground-state.ts:82`: "automatic save" |
| `playground_chat`, other property | `SavedOnLeave` | `index.tsx:176` cancels the timer when the conversation changes; same sentence |
| `editor_edit`, `Stored <- AllTexts`, without `Readable` | `UntouchedKept` | `tiered-pricing-editor.tsx:1690` writes a price of zero over an expression it cannot read. `pkg/billingexpr/expr.md:7`: "What you write is what gets executed." |
| `editor_edit`, with `"sum"` in `Readable` | `UntouchedKept` | `tier-expr.ts:179`: a single tier is not generated again; `p * 2+1` matches the pattern, `Number` makes NaN of it, and 0 is stored when the model is saved untouched; same sentence |
| `editor_edit`, 2 models, `Reopens = TRUE` | `UntouchedKept` | `tiered-pricing-editor.tsx:1673`: the second model keeps the first one's tiers; same sentence |
| `editor_edit`, other property | `ShownStays` | `tiered-pricing-editor.tsx:1654`: the first change of the rules reads the old expression over a preset's tiers; same sentence |
| `editor_edit`, with condition `"test"` | `SavedIsShown` | `billing-expr.ts:722` writes what `tryParseRequestRuleExpr` cannot read, and the rule is stored twice; same sentence |
| `editor_edit`, other property | `StoredCompiles` | `tier-expr.ts:154` and no check on save. `pkg/billingexpr/expr.md:149`: "On save, the expression is validated" |

## Proofs

Every theorem is about all values of the constants that satisfy the `ASSUME` of its module
and the hypotheses named below; the bounds of the runs are constants like the others. The
hypotheses are, but for `OneRule`, the conditions under which the code is right: *Further
disagreements* shows for most of them what goes wrong without. The assumptions on the
constants are finiteness where something is counted or summed, a table that is not empty,
numbers for quotas and times, and names kept apart from the values that mean "none"
(a slip is not `"manual"`, a group is not `"none"`); SubscriptionLedger also assumes that a
settlement gives back no more than was pre-consumed (`a + d >= 0`), since the actual quota of a
request is not negative.

Sums over requests (`WalletConserved`, `UsedIsOwed`), folds over lists (`Without`) and the
concatenations of the editor's conversions are proved without an induction theorem: the set of
counterexamples is a set, the orders are well founded, so there is a least counterexample, and
it contradicts the definition (`Smallest`, `Least`). The same argument shows first that the
function a fold is defined by exists.

### BillingSessionProofs

For every set of requests, every quota and balance, any number of retries and failing
calls:

| Theorem | Statement |
|---|---|
| `TypeCorrect` | `Spec => []TypeOK` |
| `Balance` | `Spec => []BooksBalance` |
| `ExactPayment` | `Spec => []PaysExactly` |
| `WalletBalance` | `Spec => []WalletConserved` |
| `NoOverRefund` | `Spec => []NeverOverRefunded` |
| `ExclusiveOutcome` | `Spec => []SettledOrRefunded` |
| `SettlementFinal` | `Spec => SettledIsFinal` |
| `StoreTyped` | `StoreSpec => []StoreTypeOK` |
| `QuotaConserved` | `StoreSpec => []Conserved` |

None of the session's properties is inductive. `IInv` adds, for one request at a time, what
each step of the handler and of the refund goroutine knows: which flags
and amounts a session has at each `pc`, that a refund goroutine runs only after
`Refund` has marked a session that was not settled, that `consumed` and
`preConsumedQuota` agree up to the extra reserve of a subscription, and, with or
without failed calls, lower bounds for what has been charged: a session never
holds less of an account than the refund is going to give back. Since a step
changes the record of one request, each lemma is about one action and
one request, and the others are unchanged. `Invariance` puts
the action lemmas together, and each theorem follows from `IInv`.
`SettlementFinal` needs it too: that no step of a settled request moves money
depends on the flags at the steps which do. `WInv` adds that the wallet is its first balance
less the sum of what the requests have taken; a step changes one summand and the wallet by
the same amount, and `BooksBalance` turns what was taken into what the books say.

The part about QuotaStore is for any number of goroutines, changes, faults and crashes; with
the types, `Conserved` is inductive.

### TaskBillingProofs

For any tasks, pollers, clients, faults and crashes: `TypeCorrect`; `TerminalFinal`
(`TerminalIsFinal`); and if every submission was settled (`AllSettled`) `OutcomePaid`
(`PaidByOutcome`) and `FailureRefunded` (`FailedTasksRefunded`). The properties speak of
guarded tasks, whose every update is a compare-and-swap. `IInv` says that a poller works on
copies of rows that were unfinished and fits them in what never changes (`CopiesFit`), and
which platforms each kind of write is for (`WritersFit`). `BInv` says for a guarded task that
at most one poller has a bill for it, that its row has then ended and nothing was billed before,
and that the bill leads to what the outcome costs (`BillFits`); and that, while nothing has failed,
a failed task is refunded or its refund is about to be made (`Refunded`).

`RefundsBounded` (`RefundsByFaults`) is for all platforms, with one polling process and no
client (`Sole`). `SInv` says that the copies the poller has are those of the rows until it has
written them, and that the margin a task has left, its charge plus its quota for each fault and
crash, covers the bill that is under way: only a fault or a crash leaves a refunded row
unfinished, and each pays for one more refund.

### TopUpProofs

`TypeCorrect` and `AutoApprovedWhileOn` (`AutoOnlyWhileOn`) on any number of nodes, for
every kind of order, with or without row locks. Their invariant `TInv` says which calls an order can
have (`KindsKept`, `EventsFit`).

Under `OneNode` (one process) and `LockedKinds` (no Waffo orders, no redemption codes: a
path of theirs takes no mutex), for any orders, calls, repetitions, faults and crashes, and
with or without row locks: `OnceOnOneNode` (`CreditedOnce`) and
`ShownOnOneNode` (`ShownAsGranted`). `IInv` says that one call at a time is inside an
order's mutex (`OneWorker`), that an order read as pending is still pending when the
call commits (`StillPending`), and that what was granted is one grant of a successful
order or of one whose credit is under way (`Granted`).

### OrderLockProofs

For any finite set of handlers, any orders and mutexes: `TypeCorrect`, `OneMutexHolds`,
`NoLeakHolds`, and `Refinement` (`Spec => IsOrderMutex`). `IInv` adds to the types: the
counter of a mutex is the number of handlers that have counted themselves (`Counted`),
who is between loading and counting holds `createLock` (`CreateLocked`), a counted handler's
mutex is the one in the map under its order (`Referred`), different orders have
different mutexes (`Separate`), a locked mutex has one holder (`MuHeld`), and entries
are in use or being made (`Used`). The refinement maps each step to a step of OrderMutex or
a stutter; only taking the mutex needs `IInv`: a second handler inside would hold the same
mutex.

### SubscriptionProofs

SubscriptionLedger, for any subscriptions, requests, amounts and batch: `TypeCorrect`, with or
without row locks; and under `RowLocks` `EndIsFinal` (`EndedStaysEnded`), `ResetsAreKept`
(`ResetsAdvance`) and `ChargedAsOwed` (`UsedIsOwed`). `IInv` has the types of the open
transactions and that the rows of a round with those counted already are no more than a batch.
`LInv` is what the locks are for: no row is in two open transactions (`Apart`), and a copy has
its row's status and no earlier a reset (`Fresh`). `UInv` adds what each transaction is about to
save: the usage of its row, or none if it resets it, with the amount of its request and
nothing else (`TxnBooks`, `TaskBooks`); a commit then changes one summand of what is owed.

SubscriptionGroups, for any subscriptions, groups and terms where transactions are serialised
(`Serial`): `BackInOwnGroup` (`GroupReturned`) and `RunningKeepsGroup` (`UpgradeKept`). `GInv`
says of the rows and the group that are stored, and of those the one open transaction will
leave, that the group is raised while a subscription runs, that without overlap at most one is
active and remembers the user's own group, and that nothing active means that group.

### RealtimeBillingProofs

For any set of messages, any interleaving and any failing charge: `TypeCorrect`,
`CountedAtMostOnce` (`CountedOnce`) and `ReportsAreSettled` (`ReportedSettled`). `IInv` says that
a message is fresh, in `usage` or in `localUsage` and not in two of them (`SentOnce`), and that
unless the client has hung up the reader of the upstream ends before the handler leaves its
select (`TargetFirst`). `OnceInv` says for each of the two objects how often its messages may be in
the total before the next sum of it (`ObjectOnce`): not at all, or once if the reader is past
the sum of its turn or the message is exposed, and that before the handler's sum only a reader
that has ended has exposed any; so the second sum of a message finds it exposed, and there is no
third. `KeptInv` says that a reported usage is in the object or in the total.

### PlaygroundProofs

Under `UserWaits`, for any number of messages, conversations and storage requests:

| Theorem | States | Invariant |
|---|---|---|
| `StreamsCanBeStopped` | `StreamsAttended` | `IInv`: a stream that is open is the one in the ref, and while the ref is set `isGenerating` is shown; every rendering computes it from the ref, and every guarded control relies on it |
| `NoReplyMixed` | `RepliesTheirOwn` | `ScreenInv`: what is still to be answered is the last message, and it belongs to the ref; an open stream finds its own reply last, or no conversation |
| `NoReplyForgotten` | `RepliesAwaited` | the same |
| `HistorySettled` | `RestoredSettled` | `HistoryInv`: a conversation in the database or on its way there waits for at most one reply, so a single pass on loading settles it |
| `HistoryAtRest` | `HistoryAgrees` | `RestInv`, for any number of overlapping operations: they write and read in the order issued (`Ordered`), what an operation has read covers the database if no save follows it (`Covered`: deletions and evictions only take away), without a save under way the database keeps its bound (`Bounded`), and when no save is due, the last one of the conversation on screen still to be written has it as it is, or the database does, or has none (`Fresh`) |

### PricingEditorProofs

`SavesWhatIsShown` (`SavedIsShown`) and `OnlyTouchedChanges` (`UntouchedKept`) for any models,
tiers, rule groups, presets and number of edits, under `PlainEditor`: no row is opened over
another, every rule the user chooses can be read again, and no stored or typed text has two
layers of rules that can be read (`OneRule`). The last condition is one of the argument: with
it `splitBillingExprAndRequestRules` takes apart what `combineBillingExpr` has put together
(`SplitAgain`). For a stored and a typed text with two such layers TLC finds no violation on the
instance of `editor_edit`.

The conversions come first: what `buildRequestRuleExpr` writes is read as itself
(`BuildPlain`, `BuildAgain`), what `generateExprFromVisualConfig` writes is parsed to a
configuration that generates it again (`GeneratedTiers`, `GeneratedAgain`), and a text that can be
parsed is rewritten to one that charges the same, unless a price is no number (`Parsed`). `EInv` says
that after the effects of the last rendering the panel has what the editor shows (`Synced`) and that in between the
rules of the panel are those of the form in use, or of the rendering before (`RulesKept`).
`UInv` adds that before the first change the panel and the editor's form in use both hold the
stored text, as it is stored or as the editor writes it (`Unchanged`, `Holds`, `Spellings`), through
each of the renderings in which they differ as strings.

### Only model-checked

Liveness (`Completes`, `TimedOutEnds`, `PaidIsGranted`, `DueIsDone`, `EveryoneEnters`,
`StaleEnds`, `SessionEnds`, `Settles`) is out of the prover's reach. That the properties of
*Further disagreements* fail is shown by TLC's counterexamples.

## Not modelled

- Price computation, tiered expressions at run time and token counting: floating point and
  tokenizers. The quota they return is an input.
- Upstream adaptors: format conversion and network I/O, one package for each vendor.
- Authentication, options, logs, statistics: request-local checks, key-value
  configuration, records no decision reads.
- The pages of the two web front ends other than the playground and the pricing editor,
  by far the largest part of the repository (some 290,000 lines of forms, tables,
  dialogs and charts): their state is a form and a copy of the server's answer. A model of
  it would restate assignments. The modules here therefore cover a small share of the lines of
  the repository.
- Channel selection and tests, rate limits, Midjourney: see the plan.
- Within modelled parts: subscriptions without limit (`AmountTotal` 0), a purchase from
  the wallet balance, the cache of a user's group, the creation and editing of redemption
  codes, the uniqueness of transfer slips over several orders; the playground's
  non-streaming request (this interface never chooses it), attachments, several browser
  tabs; the form of a new model, batch copy and deletion in the price table.

## Plan

1. `Charge`, an abstract specification (a request is charged its price once, or not at
   all), implemented by BillingSession while no call fails.
2. PricingEditor without `OneRule`: an invariant for texts with several layers of rules.
3. `ChannelSelect`: group fall-back and priorities over the retries; termination.
4. Rate limits over Redis lists; Midjourney as an instance of the poller's compare-and-swap.
