---------------------------- MODULE TaskBilling ----------------------------
(***************************************************************************)
(* Billing of asynchronous tasks after their submission: the polling loop  *)
(* (service/task_polling.go) with its time-out sweep, the settlement and   *)
(* the refund of a task (service/task_billing.go), the task table with its *)
(* compare-and-swap update (model/task.go) and the status query of a       *)
(* client, which updates the table too (relay/relay_task.go).              *)
(*                                                                         *)
(* NODE_TYPE makes every node a master unless it says "slave", so several  *)
(* processes may poll.  A process may crash between any two of its calls.  *)
(* One update of several rows is one step per row here.                    *)
(***************************************************************************)
EXTENDS Integers

CONSTANTS
    Task,           \* tasks
    Platforms,      \* how tasks are polled: "gemini" is "video" with realtime queries
    Poller,         \* processes that run TaskPollingLoop
    Client,         \* status queries of clients, each made at most once
    Quotas,         \* task.Quota: what a settled submission has charged
    UnsettledQuotas, \* what one has charged whose settlement failed ({}: none fails)
    ActualQuotas,   \* quota recomputed when a task succeeds, 0 = keep
    PerCalls,       \* BillingContext.PerCallBilling, a subset of BOOLEAN
    ChannelLoss,    \* TRUE: the tasks' channel may be deleted (or, without the memory
                    \* cache, become unreadable)
    MaxFaults,      \* bound on failing database calls
    MaxCrashes      \* bound on crashes

ASSUME TaskAssumption ==
    /\ Task # {} /\ Platforms \subseteq {"video", "gemini", "suno"}
    /\ Quotas \subseteq Nat /\ UnsettledQuotas \subseteq Nat /\ ActualQuotas \subseteq Nat
    /\ PerCalls \subseteq BOOLEAN /\ ChannelLoss \in BOOLEAN
    /\ MaxFaults \in Nat /\ MaxCrashes \in Nat

VARIABLES
    row,        \* the task table; status "NONE": no row
    upstream,   \* what the upstream would answer about a task
    late,       \* submit_time is before the time-out's cutoff
    channel,    \* the channel exists
    loop,       \* per poller: where TaskPollingLoop is, its tasks and their copies
    job,        \* per poller: the task being updated and its billing
    query,      \* per client: the update a status query is about to write
    charge,     \* history: net quota the task has taken
    faults, crashes

vars == <<row, upstream, late, channel, loop, job, query, charge, faults, crashes>>

---------------------------------------------------------------------------
Terminal == {"SUCCESS", "FAILURE"}
Status == {"NOT_START", "IN_PROGRESS"} \cup Terminal

\* complete: Progress is "100%".
Row == [status: Status \cup {"NONE"}, complete: BOOLEAN, quota: Nat, perCall: BOOLEAN,
        platform: {"video", "gemini", "suno"}]
NoRow == [status |-> "NONE", complete |-> FALSE, quota |-> 0, perCall |-> FALSE,
          platform |-> "video"]

\* What the poller is doing for a task: waiting for the upstream's answer, then writing the
\* row, adjusting the funding source and then the token by delta, and for Suno writing the
\* row.
Job == [step: {"none", "fetch", "update", "funding", "token", "save"}, task: Task, status: Status,
        complete: BOOLEAN, delta: Int]
NoJob == [step |-> "none", task |-> CHOOSE t \in Task : TRUE, status |-> "NOT_START",
          complete |-> FALSE, delta |-> 0]

Asleep == [at |-> "sleep", todo |-> {}, copy |-> [t \in Task |-> NoRow]]

Query == [step: {"none", "update", "done"}, task: Task, from: Status, status: Status]
NoQuery == [step |-> "none", task |-> CHOOSE t \in Task : TRUE, from |-> "NOT_START",
            status |-> "NOT_START"]

Init ==
    /\ row = [t \in Task |-> NoRow]
    /\ upstream = [t \in Task |-> "IN_PROGRESS"]
    /\ late = [t \in Task |-> FALSE]
    /\ channel = TRUE
    /\ loop = [p \in Poller |-> Asleep]
    /\ job = [p \in Poller |-> NoJob]
    /\ query = [c \in Client |-> NoQuery]
    /\ charge = [t \in Task |-> [funding |-> 0, token |-> 0]]
    /\ faults = 0 /\ crashes = 0

---------------------------------------------------------------------------
Fault == faults < MaxFaults /\ faults' = faults + 1
World == UNCHANGED <<upstream, late, channel, crashes>>
Unfinished(t) == row[t].status \notin Terminal \cup {"NONE"} /\ ~row[t].complete

\* Variant: the update is not guarded by the status.
WinsAlways(t, from) == TRUE

\* UpdateWithStatus: the row is written only while it has the status it was read with.
Wins(t, from) == row[t].status = from

Write(t, new) == row' = [row EXCEPT ![t] = new]
Moved(r, status, complete) == [r EXCEPT !.status = status, !.complete = complete]
SetStatus(r, status) == Moved(r, status, status \in Terminal)

\* The poller is done with task t, or has the job to do.
Leave(p, t) == loop' = [loop EXCEPT ![p].todo = @ \ {t}]
Finish(p) == job' = [job EXCEPT ![p] = NoJob]
Assign(p, j) == job' = [job EXCEPT ![p] = j]

\* RelayTask after a successful submission: it is settled, then the task is inserted with
\* the quota it should have cost.  A settlement that fails (BillingSession!SettleFunding)
\* and a failing insert are only logged.
Submit(t) ==
    /\ row[t].status = "NONE" /\ charge[t].funding = 0
    /\ \E q \in Quotas, perCall \in PerCalls, platform \in Platforms :
          /\ \E paid \in {q} \cup UnsettledQuotas :
                charge' = [charge EXCEPT ![t] = [funding |-> paid, token |-> paid]]
          /\ \/ /\ Write(t, [status |-> "NOT_START", complete |-> FALSE, quota |-> q,
                             perCall |-> perCall, platform |-> platform])
                /\ UNCHANGED faults
             \/ Fault /\ UNCHANGED row
    /\ World /\ UNCHANGED <<loop, job, query>>

\* The upstream finishes the task, time passes, an administrator deletes the channel.
UpstreamEnds(t) ==
    /\ upstream[t] = "IN_PROGRESS"
    /\ \E st \in Terminal : upstream' = [upstream EXCEPT ![t] = st]
    /\ UNCHANGED <<row, late, channel, loop, job, query, charge, faults, crashes>>

TimesOut(t) ==
    /\ row[t].status # "NONE" /\ ~late[t]
    /\ late' = [late EXCEPT ![t] = TRUE]
    /\ UNCHANGED <<row, upstream, channel, loop, job, query, charge, faults, crashes>>

DeleteChannel ==
    /\ ChannelLoss /\ channel
    /\ channel' = FALSE
    /\ UNCHANGED <<row, upstream, late, loop, job, query, charge, faults, crashes>>

---------------------------------------------------------------------------
\* sweepTimedOutTasks.

Enter(p, at, tasks) ==
    loop' = [loop EXCEPT ![p] = [at |-> at, todo |-> tasks, copy |-> row]]

\* Variant: the cutoff is compared the wrong way round.
StartSweepNew(p) ==
    /\ loop[p].at = "sleep"
    /\ Enter(p, "sweep", {t \in Task : Unfinished(t) /\ ~late[t]})
    /\ World /\ UNCHANGED <<row, job, query, charge, faults>>

StartSweep(p) ==
    /\ loop[p].at = "sleep"
    /\ Enter(p, "sweep", {t \in Task : Unfinished(t) /\ late[t]})
    /\ World /\ UNCHANGED <<row, job, query, charge, faults>>

\* RefundTaskQuota returns at once for a task that cost nothing.
Refund(t, q) ==
    IF q = 0 THEN NoJob
    ELSE [step |-> "funding", task |-> t, status |-> "FAILURE", complete |-> TRUE, delta |-> - q]

\* Variant: the sweep saves its copy without a guard, and refunds only what it has moved.
SweepTaskSaves(p, t) ==
    /\ loop[p].at = "sweep" /\ job[p].step = "none" /\ t \in loop[p].todo
    /\ LET old == loop[p].copy[t]
       IN /\ Write(t, SetStatus(old, "FAILURE"))
          /\ IF Wins(t, old.status) THEN Assign(p, Refund(t, old.quota)) ELSE UNCHANGED job
    /\ Leave(p, t)
    /\ World /\ UNCHANGED <<query, charge, faults>>

\* Variant: a task that times out is not refunded.
SweepTaskKeeps(p, t) ==
    /\ loop[p].at = "sweep" /\ job[p].step = "none" /\ t \in loop[p].todo
    /\ \/ Wins(t, loop[p].copy[t].status) /\ Write(t, SetStatus(loop[p].copy[t], "FAILURE"))
       \/ ~Wins(t, loop[p].copy[t].status) /\ UNCHANGED row
    /\ Leave(p, t)
    /\ World /\ UNCHANGED <<job, query, charge, faults>>

SweepTask(p, t) ==
    /\ loop[p].at = "sweep" /\ job[p].step = "none" /\ t \in loop[p].todo
    /\ LET old == loop[p].copy[t]
       IN \/ /\ Wins(t, old.status)
             /\ Write(t, SetStatus(old, "FAILURE"))
             /\ Assign(p, Refund(t, old.quota))
             /\ UNCHANGED faults
          \/ ~Wins(t, old.status) /\ UNCHANGED <<row, job, faults>>
          \/ Fault /\ UNCHANGED <<row, job>>
    /\ Leave(p, t)
    /\ World /\ UNCHANGED <<query, charge>>

ListTasks(p) ==
    /\ loop[p].at = "sweep" /\ job[p].step = "none" /\ loop[p].todo = {}
    /\ Enter(p, "poll", {t \in Task : Unfinished(t)})
    /\ World /\ UNCHANGED <<row, job, query, charge, faults>>

EndPoll(p) ==
    /\ loop[p].at = "poll" /\ job[p].step = "none" /\ loop[p].todo = {}
    /\ loop' = [loop EXCEPT ![p] = Asleep]
    /\ World /\ UNCHANGED <<row, job, query, charge, faults>>

---------------------------------------------------------------------------
\* The updates of one round.

Polling(p, t) == loop[p].at = "poll" /\ job[p].step = "none" /\ t \in loop[p].todo

\* CacheGetChannel fails: TaskBulkUpdateByID makes the task FAILURE whatever its status
\* is by now, and it is not refunded.  (The same call in TaskPollingLoop, for a task
\* without an ID, is never made: GetUpstreamTaskID falls back to the public ID.)
BulkFail(p, t) ==
    /\ Polling(p, t)
    /\ ~channel
    /\ \/ Write(t, SetStatus(row[t], "FAILURE")) /\ UNCHANGED faults
       \/ Fault /\ UNCHANGED row
    /\ Leave(p, t)
    /\ World /\ UNCHANGED <<job, query, charge>>

\* FetchTask is called with the channel that was read, and returns when the upstream answers:
\* the HTTP client has no time-out unless RELAY_TIMEOUT sets one.
AskUpstream(p, t) ==
    /\ Polling(p, t) /\ channel
    /\ Assign(p, [NoJob EXCEPT !.step = "fetch", !.task = t])
    /\ World /\ UNCHANGED <<row, loop, query, charge, faults>>

Asked(p, t) ==
    /\ loop[p].at = "poll" /\ t \in loop[p].todo
    /\ job[p].step = "fetch" /\ job[p].task = t

\* FetchTask fails, answers 429 or cannot be parsed: the task waits for the next round.
FetchFails(p, t) ==
    /\ Asked(p, t)
    /\ Finish(p)
    /\ Leave(p, t)
    /\ World /\ UNCHANGED <<row, query, charge, faults>>

\* updateVideoSingleTask: an error message of the upstream counts as a failure, and its
\* progress is taken over, which may be 100% for a task it has not finished.
FetchVideo(p, t) ==
    /\ Asked(p, t) /\ loop[p].copy[t].platform # "suno"
    /\ \E st \in {upstream[t], "FAILURE"}, early \in BOOLEAN :
          Assign(p, [step |-> "update", task |-> t, status |-> st,
                     complete |-> early \/ st \in Terminal, delta |-> 0])
    /\ Leave(p, t)
    /\ World /\ UNCHANGED <<row, query, charge, faults>>

\* settleTaskBillingOnComplete: the difference to the recomputed quota, if there is one.
Settlement(t, old, actual) ==
    IF old.perCall \/ actual = 0 \/ actual = old.quota THEN NoJob
    ELSE [step |-> "funding", task |-> t, status |-> "SUCCESS", complete |-> TRUE,
          delta |-> actual - old.quota]

\* Only the process that moves the row to its last status bills.
UpdateVideo(p) ==
    /\ job[p].step = "update"
    /\ LET t == job[p].task
           old == loop[p].copy[t]
           st == job[p].status
       IN \/ /\ Wins(t, old.status)
             /\ Write(t, Moved(old, st, job[p].complete))
             /\ \/ st = "FAILURE" /\ Assign(p, Refund(t, old.quota))
                \/ st = "SUCCESS" /\ \E a \in ActualQuotas : Assign(p, Settlement(t, old, a))
                \/ st \notin Terminal /\ Finish(p)
             /\ UNCHANGED faults
          \/ ~Wins(t, old.status) /\ Finish(p) /\ UNCHANGED <<row, faults>>
          \/ Fault /\ Finish(p) /\ UNCHANGED row
    /\ World /\ UNCHANGED <<loop, query, charge>>

\* Variant: a task that is refunded for the reason given is not marked as complete.
FetchSunoOpen(p, t) ==
    /\ Asked(p, t) /\ loop[p].copy[t].platform = "suno"
    /\ LET old == loop[p].copy[t]
       IN \E reason \in BOOLEAN :
             Assign(p, IF reason /\ old.quota > 0
                       THEN [Refund(t, old.quota) EXCEPT !.status = upstream[t],
                                                         !.complete = FALSE]
                       ELSE [step |-> "save", task |-> t, status |-> upstream[t],
                             complete |-> upstream[t] \in Terminal, delta |-> 0])
    /\ Leave(p, t)
    /\ World /\ UNCHANGED <<row, query, charge, faults>>

\* updateSunoTasks: a failed task, or one with a reason for a failure, is refunded; then
\* its row is saved.  An answer without a status keeps the one of the copy.
FetchSuno(p, t) ==
    /\ Asked(p, t) /\ loop[p].copy[t].platform = "suno"
    /\ \E st \in {upstream[t], loop[p].copy[t].status}, reason \in BOOLEAN :
          LET old == loop[p].copy[t]
              failed == reason \/ st = "FAILURE"
              complete == failed \/ st = "SUCCESS"
          IN Assign(p, IF failed /\ old.quota > 0
                       THEN [Refund(t, old.quota) EXCEPT !.status = st]
                       ELSE [step |-> "save", task |-> t, status |-> st,
                             complete |-> complete, delta |-> 0])
    /\ Leave(p, t)
    /\ World /\ UNCHANGED <<row, query, charge, faults>>

SaveSuno(p) ==
    /\ job[p].step = "save"
    /\ LET t == job[p].task
       IN \/ /\ Write(t, Moved(loop[p].copy[t], job[p].status, job[p].complete))
             /\ UNCHANGED faults
          \/ Fault /\ UNCHANGED row
    /\ Finish(p)
    /\ World /\ UNCHANGED <<loop, query, charge>>

---------------------------------------------------------------------------
\* RefundTaskQuota and RecalculateTaskQuota: first the funding source, then the token.

\* What is left once the billing of the job is done.
AfterBilling(p) ==
    IF row[job[p].task].platform = "suno" /\ loop[p].at = "poll"
    THEN Assign(p, [job[p] EXCEPT !.step = "save", !.delta = 0])
    ELSE Finish(p)

\* taskAdjustFunding; an error ends the billing.  A subscription may refuse to pay more.
AdjustFunding(p) ==
    /\ job[p].step = "funding"
    /\ \/ /\ charge' = [charge EXCEPT ![job[p].task].funding = @ + job[p].delta]
          /\ Assign(p, [job[p] EXCEPT !.step = "token"])
          /\ UNCHANGED faults
       \/ Fault /\ AfterBilling(p) /\ UNCHANGED charge
       \/ job[p].delta > 0 /\ AfterBilling(p) /\ UNCHANGED <<charge, faults>>
    /\ World /\ UNCHANGED <<row, loop, query>>

\* taskAdjustTokenQuota; errors are logged, and the token may be gone.
AdjustToken(p) ==
    /\ job[p].step = "token"
    /\ \/ charge' = [charge EXCEPT ![job[p].task].token = @ + job[p].delta]
       \/ UNCHANGED charge
    /\ AfterBilling(p)
    /\ World /\ UNCHANGED <<row, loop, query, faults>>

\* The process dies and starts again: what it had in memory is lost.
Crash(p) ==
    /\ crashes < MaxCrashes /\ crashes' = crashes + 1
    /\ loop[p].at # "sleep"
    /\ loop' = [loop EXCEPT ![p] = Asleep]
    /\ Finish(p)
    /\ UNCHANGED <<row, upstream, late, channel, query, charge, faults>>

---------------------------------------------------------------------------
\* tryRealtimeFetch: a client's query about a Gemini or Vertex task asks the upstream
\* and writes the answer to the row, without billing.
QueryTask(c, t) ==
    /\ query[c].step = "none" /\ row[t].platform = "gemini" /\ channel
    /\ row[t].status # "NONE"
    /\ query' = [query EXCEPT ![c] = [step |-> "update", task |-> t, from |-> row[t].status,
                                      status |-> upstream[t]]]
    /\ World /\ UNCHANGED <<row, loop, job, charge, faults>>

AnswerQuery(c) ==
    /\ query[c].step = "update"
    /\ LET t == query[c].task
       IN \/ /\ Wins(t, query[c].from)
             /\ Write(t, SetStatus(row[t], query[c].status))
             /\ UNCHANGED faults
          \/ ~Wins(t, query[c].from) /\ UNCHANGED <<row, faults>>
          \/ Fault /\ UNCHANGED row
    /\ query' = [query EXCEPT ![c] = [NoQuery EXCEPT !.step = "done"]]
    /\ World /\ UNCHANGED <<loop, job, charge>>

---------------------------------------------------------------------------
PollTask(p, t) == SweepTask(p, t) \/ BulkFail(p, t) \/ AskUpstream(p, t)
Poll(p) ==
    \/ StartSweep(p) \/ ListTasks(p) \/ EndPoll(p) \/ UpdateVideo(p) \/ SaveSuno(p)
    \/ AdjustFunding(p) \/ AdjustToken(p)
    \/ \E t \in Task : PollTask(p, t)

Answer(p, t) == FetchFails(p, t) \/ FetchVideo(p, t) \/ FetchSuno(p, t)

Next ==
    \/ \E p \in Poller : Poll(p) \/ Crash(p) \/ \E t \in Task : Answer(p, t)
    \/ \E t \in Task : Submit(t) \/ UpstreamEnds(t) \/ TimesOut(t)
    \/ \E c \in Client : AnswerQuery(c) \/ \E t \in Task : QueryTask(c, t)
    \/ DeleteChannel

Spec == Init /\ [][Next]_vars

\* The polling goroutine runs for ever, but for the answers it waits for: nothing is assumed
\* of upstreams and clients.
FairSpec == Spec /\ \A p \in Poller : WF_vars(Poll(p))

---------------------------------------------------------------------------
\* Properties.

\* Every variable has its type: rows, copies of rows and bills of the pollers.
TypeOK ==
    /\ row \in [Task -> Row]
    /\ upstream \in [Task -> {"IN_PROGRESS"} \cup Terminal]
    /\ late \in [Task -> BOOLEAN] /\ channel \in BOOLEAN
    /\ loop \in [Poller -> [at: {"sleep", "sweep", "poll"}, todo: SUBSET Task, copy: [Task -> Row]]]
    /\ job \in [Poller -> Job]
    /\ query \in [Client -> Query]
    /\ charge \in [Task -> [funding: Int, token: Int]]
    /\ faults \in 0..MaxFaults /\ crashes \in 0..MaxCrashes

\* Nobody is in the middle of billing task t.
Unbilled(t) == \A p \in Poller : job[p].step \in {"none", "fetch", "update"} \/ job[p].task # t

\* A task whose every update is a compare-and-swap that bills: polled as a video, without
\* realtime queries, on a channel that exists.
Guarded(t) == row[t].platform = "video" /\ channel

\* A settled task of that kind is billed at most once and for the outcome its row shows,
\* whatever processes poll it, time out on it, fail and crash: until it ends it has
\* paid its quota, a failed one pays the quota or nothing, a successful one its quota or
\* the recomputed one.  The token follows the funding source or stays behind it.
PaidByOutcome ==
    \A t \in Task : Guarded(t) /\ row[t].status # "NONE" =>
        /\ charge[t].funding \in
              CASE row[t].status = "FAILURE" -> {row[t].quota, 0}
                [] row[t].status = "SUCCESS" -> {row[t].quota} \cup (ActualQuotas \ {0})
                [] OTHER                     -> {row[t].quota}
        /\ charge[t].token \in {row[t].quota, charge[t].funding}

\* "When an asynchronous task fails, the pre-charged quota is given back to the user"
\* (service/task_billing.go:151): without faults and crashes, such a task that has failed
\* and is not being billed any more has been refunded.
FailedTasksRefunded ==
    faults = 0 /\ crashes = 0 =>
        \A t \in Task : Guarded(t) /\ row[t].status = "FAILURE" /\ Unbilled(t)
            => charge[t].funding = 0

\* The compare-and-swap update: such a task that has ended never changes again, so a
\* stale copy in another process cannot bring it back or overwrite its outcome.
TerminalIsFinal ==
    [][\A t \in Task : Guarded(t) /\ row[t].status \in Terminal => row'[t] = row[t]]_vars

\* With one process polling and no realtime query, a task is given back more than it paid
\* only by the refund of a Suno task repeated in a later round, and that needs one failed
\* or interrupted save for every repetition: the excess is bounded by the faults.
RefundsByFaults ==
    \A t \in Task : charge[t].funding + row[t].quota * (faults + crashes) >= 0

\* "no double refund" (service/task_billing_test.go:542): no task, of whatever platform, is
\* given back more than it paid.
NoDoubleRefund ==
    \A t \in Task : charge[t].funding >= 0 /\ charge[t].token >= 0

\* The goroutine that fetches also sweeps, and a fetch has no time-out of its own.  As long as
\* one process is not stuck in a fetch for ever, a task that is too old ends, though the
\* other processes hang or crash, the channel is deleted, and pollers and clients write
\* the same row: the sweep of some process fails it, or somebody else has ended it, or an
\* answer has set its progress to 100%, which takes it out of the sweep.
TimedOutEnds ==
    (\E p \in Poller : []<>(job[p].step # "fetch")) =>
        \A t \in Task : late[t] ~> row[t].status \in Terminal \/ row[t].complete
=============================================================================
