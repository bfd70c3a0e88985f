------------------------- MODULE TaskBillingProofs -------------------------
(***************************************************************************)
(* Proofs about TaskBilling for any number of tasks, polling processes,    *)
(* clients, faults and crashes.                                            *)
(***************************************************************************)
EXTENDS TaskBilling, TLAPS

\* Every submission was charged what its row says (no settlement failed).
AllSettled == UnsettledQuotas = {}

\* The poller has listed the task and is not done with it.
Works(p, t) == t \in loop[p].todo \/ (job[p].step # "none" /\ job[p].task = t)
Bills(p, t) == job[p].step \in {"funding", "token"} /\ job[p].task = t

\* A poller works on copies of rows that were unfinished; what is fixed at the submission
\* is the same in the row and in the copy.
CopiesFit ==
    \A p \in Poller, t \in Task : Works(p, t) =>
        LET old == loop[p].copy[t]
        IN /\ row[t].status # "NONE" /\ old.status \notin Terminal \cup {"NONE"}
           /\ old.quota = row[t].quota /\ old.perCall = row[t].perCall
           /\ old.platform = row[t].platform

\* A sleeping poller has nothing to write or to bill.
SleepersIdle == \A p \in Poller : loop[p].at = "sleep" => job[p].step = "none"

\* Rows are saved without a guard for Suno only, and queried for Gemini only.
WritersFit ==
    /\ \A p \in Poller :
          /\ job[p].step = "save" => row[job[p].task].platform = "suno"
          /\ job[p].step = "update" => row[job[p].task].platform # "suno"
    /\ \A c \in Client : query[c].step = "update" =>
          /\ row[query[c].task].status # "NONE" /\ row[query[c].task].platform = "gemini"

IInv == TypeOK /\ CopiesFit /\ SleepersIdle /\ WritersFit

\* A guarded task is billed by one process, once it has ended, and the bill leads to what
\* its outcome costs; nothing has been billed before.
BillFits(t) ==
    /\ \A p, q \in Poller : Bills(p, t) /\ Bills(q, t) => p = q
    /\ \A p \in Poller : Bills(p, t) =>
          /\ row[t].status \in Terminal
          /\ row[t].status = "FAILURE" => row[t].quota + job[p].delta = 0
          /\ row[t].status = "SUCCESS" => row[t].quota + job[p].delta \in ActualQuotas \ {0}
          /\ charge[t].token = row[t].quota
          /\ charge[t].funding = IF job[p].step = "funding" THEN row[t].quota
                                 ELSE row[t].quota + job[p].delta

\* PaidByOutcome for the task.
Paid(t) ==
    /\ charge[t].token \in {row[t].quota, charge[t].funding}
    /\ row[t].status = "FAILURE" => charge[t].funding \in {row[t].quota, 0}
    /\ row[t].status = "SUCCESS" => charge[t].funding \in {row[t].quota} \cup (ActualQuotas \ {0})
    /\ row[t].status \notin Terminal => charge[t].funding = row[t].quota

\* Without faults and crashes the failed task has been refunded, or is about to be.
Refunded(t) ==
    faults = 0 /\ crashes = 0 /\ row[t].status = "FAILURE" =>
        \/ charge[t].funding = 0
        \/ \E p \in Poller : Bills(p, t) /\ job[p].step = "funding"

TaskFits(t) == Guarded(t) /\ row[t].status # "NONE" => BillFits(t) /\ Paid(t) /\ Refunded(t)

BInv == IInv /\ \A t \in Task : TaskFits(t)

---------------------------------------------------------------------------
\* With one polling process and no clients.
Sole == (\A p, q \in Poller : p = q) /\ Client = {}

\* The poller bills for a save of the row that is still to come.
BillsFirst(p) == row[job[p].task].platform = "suno" /\ loop[p].at = "poll"

\* The rows of the tasks the poller works on are as it has copied them, until it has
\* written the row; what it bills later has ended.
CopyFresh(p) ==
    /\ \A t \in loop[p].todo : Unfinished(t) /\ row[t] = loop[p].copy[t]
    /\ job[p].step \notin {"none", "fetch"} => job[p].task \notin loop[p].todo
    /\ job[p].step \in {"update", "save"}
       \/ (job[p].step \notin {"none", "fetch"} /\ BillsFirst(p)) =>
          Unfinished(job[p].task) /\ row[job[p].task] = loop[p].copy[job[p].task]
    /\ job[p].step \in {"funding", "token"} /\ ~BillsFirst(p) =>
          row[job[p].task].status \in Terminal

\* What the faults allow.
Margin(t) == charge[t].funding + row[t].quota * (faults + crashes)

\* An open task that nobody is saving has its quota left.
MarginLeft(t) ==
    /\ Margin(t) >= 0
    /\ Unfinished(t)
       /\ (\A p \in Poller : job[p].step \in {"token", "save"} => job[p].task # t)
          => Margin(t) >= row[t].quota

\* A refund is covered by what is left, and so is a save that leaves the task open.
BillCovered(p) ==
    /\ job[p].step = "funding" => Margin(job[p].task) + job[p].delta >= 0
    /\ job[p].step \in {"funding", "token"} /\ BillsFirst(p) => job[p].complete = TRUE
    /\ job[p].step = "save" /\ job[p].complete = FALSE =>
          Margin(job[p].task) >= row[job[p].task].quota

SInv ==
    /\ IInv
    /\ \A p \in Poller : CopyFresh(p) /\ BillCovered(p)
    /\ \A t \in Task : MarginLeft(t)

---------------------------------------------------------------------------
\* What the operators make.

\* The row is written: what was fixed at the submission stays.
Kept(r, new) ==
    /\ new.status # "NONE" /\ new.quota = r.quota
    /\ new.perCall = r.perCall /\ new.platform = r.platform

\* Job j is the bill for the row r of task t: the refund of a failed task, the difference
\* for one that has succeeded, or nothing.
Bill(t, r, j) ==
    /\ j.step \in {"none", "funding"}
    /\ j.step = "funding" =>
          /\ j.task = t /\ r.status \in Terminal
          /\ r.status = "FAILURE" => r.quota + j.delta = 0
          /\ r.status = "SUCCESS" => r.quota + j.delta \in ActualQuotas \ {0}
    /\ j.step = "none" /\ r.status = "FAILURE" => r.quota = 0

Loop == [at: {"sleep", "sweep", "poll"}, todo: SUBSET Task, copy: [Task -> Row]]

\* The values of the idle states have their types.
LEMMA IdleValues ==
    /\ NoRow \in Row /\ NoJob \in Job /\ NoQuery \in Query /\ Asleep \in Loop
    /\ NoJob.step = "none" /\ Asleep.todo = {} /\ NoRow.status = "NONE" /\ NoRow.quota = 0
    /\ [NoQuery EXCEPT !.step = "done"] \in Query
    /\ [NoQuery EXCEPT !.step = "done"].step = "done"
  <1>1. (CHOOSE t \in Task : TRUE) \in Task
    BY TaskAssumption
  <1>2. NoRow \in Row /\ NoRow.status = "NONE" /\ NoRow.quota = 0
    BY DEF NoRow, Row
  <1>3. NoJob \in Job /\ NoQuery \in Query /\ NoJob.step = "none"
    BY <1>1 DEF NoJob, Job, NoQuery, Query, Status
  <1>4. Asleep \in Loop /\ Asleep.todo = {}
    BY <1>2 DEF Asleep, Loop
  <1>5. /\ [NoQuery EXCEPT !.step = "done"] \in Query
        /\ [NoQuery EXCEPT !.step = "done"].step = "done"
    BY <1>3 DEF Query
  <1> QED
    BY <1>2, <1>3, <1>4, <1>5

\* A copy of a row with another status and progress.
LEMMA MovedIs ==
    ASSUME NEW r \in Row, NEW st \in Status, NEW b \in BOOLEAN
    PROVE  /\ Moved(r, st, b) \in Row /\ Moved(r, st, b).status = st
           /\ Moved(r, st, b).complete = b /\ Kept(r, Moved(r, st, b))
  <1> DEFINE new == Moved(r, st, b)
  <1>1. new = [r EXCEPT !.status = st, !.complete = b] /\ "NONE" \notin Status
    BY DEF Moved, Status, Terminal
  <1> HIDE DEF new
  <1>2. new \in Row
    BY <1>1 DEF Row
  <1>3. /\ new.status = st /\ new.complete = b /\ new.quota = r.quota
        /\ new.perCall = r.perCall /\ new.platform = r.platform
    BY <1>1 DEF Row
  <1> QED
    BY <1>1, <1>2, <1>3 DEF Kept, new

\* SetStatus, in particular.
LEMMA SetStatusIs ==
    ASSUME NEW r \in Row, NEW st \in Status
    PROVE  /\ SetStatus(r, st) \in Row /\ SetStatus(r, st).status = st
           /\ Kept(r, SetStatus(r, st))
  <1>1. (st \in Terminal) \in BOOLEAN
    OBVIOUS
  <1> QED
    BY <1>1, MovedIs DEF SetStatus

\* A job with another status.
LEMMA JobStatus ==
    ASSUME NEW j \in Job, NEW st \in Status, NEW new, new = [j EXCEPT !.status = st]
    PROVE  /\ new \in Job /\ new.step = j.step /\ new.task = j.task /\ new.delta = j.delta
           /\ new.status = st /\ new.complete = j.complete
  BY DEF Job

\* RefundTaskQuota bills a failed task.
LEMMA RefundBills ==
    ASSUME NEW t \in Task, NEW r \in Row, NEW new \in Row,
           new.status = "FAILURE", new.quota = r.quota
    PROVE  /\ Refund(t, r.quota) \in Job /\ Bill(t, new, Refund(t, r.quota))
           /\ Refund(t, r.quota).step = "funding" => Refund(t, r.quota).complete = TRUE
  <1>1. r.quota \in Nat
    BY DEF Row
  <1>2. CASE r.quota = 0
    BY <1>2, IdleValues DEF Refund, Bill
  <1>3. CASE r.quota # 0
    <2>1. Refund(t, r.quota) = [step |-> "funding", task |-> t, status |-> "FAILURE",
                                complete |-> TRUE, delta |-> - r.quota]
      BY <1>3 DEF Refund
    <2>2. Refund(t, r.quota) \in Job
      BY <1>1, <2>1 DEF Job, Status, Terminal
    <2> QED
      BY <1>1, <2>1, <2>2 DEF Bill, Terminal
  <1> QED
    BY <1>2, <1>3

\* settleTaskBillingOnComplete bills a task that has succeeded.
LEMMA SettlementBills ==
    ASSUME NEW t \in Task, NEW r \in Row, NEW new \in Row, NEW a \in ActualQuotas,
           new.status = "SUCCESS", new.quota = r.quota
    PROVE  Settlement(t, r, a) \in Job /\ Bill(t, new, Settlement(t, r, a))
  <1>1. r.quota \in Nat /\ a \in Nat
    BY TaskAssumption DEF Row
  <1>2. CASE r.perCall \/ a = 0 \/ a = r.quota
    BY <1>2, IdleValues DEF Settlement, Bill
  <1>3. CASE ~(r.perCall \/ a = 0 \/ a = r.quota)
    <2>1. Settlement(t, r, a) = [step |-> "funding", task |-> t, status |-> "SUCCESS",
                                 complete |-> TRUE, delta |-> a - r.quota]
      BY <1>3 DEF Settlement
    <2>2. Settlement(t, r, a) \in Job
      BY <1>1, <2>1 DEF Job, Status, Terminal
    <2>3. r.quota + (a - r.quota) = a
      BY <1>1
    <2> QED
      BY <1>3, <2>1, <2>2, <2>3 DEF Bill, Terminal
  <1> QED
    BY <1>2, <1>3

---------------------------------------------------------------------------
\* What the actions of a poller do.

FaultsGrow == faults' \in 0..MaxFaults /\ faults' >= faults

\* The compare-and-swap of p moves the row of t, which p then has to bill.
Won(p, t) ==
    \E new \in Row, j \in Job :
        /\ row[t].status \notin Terminal \cup {"NONE"}
        /\ row' = [row EXCEPT ![t] = new] /\ Kept(row[t], new)
        /\ job' = [job EXCEPT ![p] = j] /\ Bill(t, new, j)
        /\ UNCHANGED faults

\* The parts of the state have their types.
LEMMA Parts ==
    ASSUME TypeOK, NEW p \in Poller, NEW t \in Task
    PROVE  /\ row[t] \in Row /\ row[t].quota \in Nat /\ row[t].status \in Status \cup {"NONE"}
           /\ loop[p] \in Loop /\ loop[p].copy[t] \in Row
           /\ loop[p].copy[t].quota \in Nat
           /\ loop[p].copy[t].status \in Status \cup {"NONE"}
           /\ job[p] \in Job /\ job[p].task \in Task /\ job[p].status \in Status
           /\ job[p].complete \in BOOLEAN /\ job[p].delta \in Int
           /\ upstream[t] \in Status
  <1>1. row[t] \in Row /\ loop[p] \in Loop /\ job[p] \in Job
    BY DEF TypeOK, Loop
  <1>2. loop[p].copy[t] \in Row
    BY <1>1 DEF Loop
  <1>3. upstream[t] \in Status
    BY DEF TypeOK, Status
  <1> QED
    BY <1>1, <1>2, <1>3 DEF Row, Job

\* A fault stays within its bound.
LEMMA FaultGrows == ASSUME TypeOK, Fault \/ UNCHANGED faults PROVE FaultsGrow
  BY TaskAssumption DEF TypeOK, Fault, FaultsGrow

\* A written copy keeps what was fixed at the submission.
LEMMA CopyKept ==
    ASSUME IInv, NEW p \in Poller, NEW t \in Task, Works(p, t), NEW new,
           Kept(loop[p].copy[t], new)
    PROVE  Kept(row[t], new)
  BY DEF IInv, CopiesFit, Kept

\* sweepTimedOutTasks fails a task and refunds it, or leaves it alone.
LEMMA SweepDoes ==
    ASSUME IInv, NEW p \in Poller, NEW t \in Task, SweepTask(p, t)
    PROVE  /\ loop[p].at = "sweep" /\ job[p].step = "none" /\ t \in loop[p].todo
           /\ Won(p, t) \/ (row' = row /\ job' = job)
           /\ loop' = [loop EXCEPT ![p].todo = @ \ {t}] /\ FaultsGrow
           /\ UNCHANGED <<upstream, late, channel, crashes, query, charge>>
  <1> DEFINE old == loop[p].copy[t]
             new == SetStatus(old, "FAILURE")
             j == Refund(t, old.quota)
  <1>1. /\ loop[p].at = "sweep" /\ job[p].step = "none" /\ t \in loop[p].todo
        /\ loop' = [loop EXCEPT ![p].todo = @ \ {t}]
        /\ UNCHANGED <<upstream, late, channel, crashes, query, charge>>
        /\ \/ /\ row[t].status = old.status /\ row' = [row EXCEPT ![t] = new]
              /\ job' = [job EXCEPT ![p] = j] /\ UNCHANGED faults
           \/ row' = row /\ job' = job /\ (Fault \/ UNCHANGED faults)
    BY DEF SweepTask, Leave, World, Wins, Write, Assign
  <1>2. old \in Row /\ "FAILURE" \in Status
    BY Parts DEF IInv, Status, Terminal
  <1>3. new \in Row /\ new.status = "FAILURE" /\ Kept(old, new)
    BY <1>2, SetStatusIs
  <1>4. j \in Job /\ Bill(t, new, j)
    BY <1>2, <1>3, RefundBills DEF Kept
  <1>5. Works(p, t)
    BY <1>1 DEF Works
  <1>6. Kept(row[t], new) /\ old.status \notin Terminal \cup {"NONE"}
    BY <1>3, <1>5, CopyKept DEF IInv, CopiesFit
  <1>7. FaultsGrow
    BY <1>1, FaultGrows DEF IInv
  <1> HIDE DEF old, new, j
  <1> QED
    BY <1>1, <1>3, <1>4, <1>6, <1>7 DEF Won

\* updateVideoSingleTask moves the row and bills what it has moved, or gives up.
LEMMA UpdateDoes ==
    ASSUME IInv, NEW p \in Poller, UpdateVideo(p)
    PROVE  /\ job[p].step = "update"
           /\ Won(p, job[p].task) \/ (row' = row /\ job' = [job EXCEPT ![p] = NoJob])
           /\ FaultsGrow
           /\ UNCHANGED <<upstream, late, channel, crashes, loop, query, charge>>
  <1> DEFINE t == job[p].task
             old == loop[p].copy[t]
             new == Moved(old, job[p].status, job[p].complete)
  <1>1. /\ job[p].step = "update"
        /\ UNCHANGED <<upstream, late, channel, crashes, loop, query, charge>>
        /\ \/ /\ row[t].status = old.status /\ row' = [row EXCEPT ![t] = new]
              /\ \/ /\ job[p].status = "FAILURE"
                    /\ job' = [job EXCEPT ![p] = Refund(t, old.quota)]
                 \/ /\ job[p].status = "SUCCESS"
                    /\ \E a \in ActualQuotas : job' = [job EXCEPT ![p] = Settlement(t, old, a)]
                 \/ job[p].status \notin Terminal /\ job' = [job EXCEPT ![p] = NoJob]
              /\ UNCHANGED faults
           \/ /\ row' = row /\ job' = [job EXCEPT ![p] = NoJob]
              /\ (Fault \/ UNCHANGED faults)
    BY DEF UpdateVideo, World, Wins, Write, Assign, Finish
  <1>2. t \in Task /\ old \in Row /\ job[p].status \in Status /\ job[p].complete \in BOOLEAN
    <2>1. t \in Task
      BY DEF IInv, TypeOK, Job
    <2> QED
      BY <2>1, Parts DEF IInv
  <1>3. new \in Row /\ new.status = job[p].status /\ Kept(old, new)
    BY <1>2, MovedIs
  <1>4. Works(p, t)
    BY <1>1 DEF Works
  <1>5. Kept(row[t], new) /\ old.status \notin Terminal \cup {"NONE"}
    BY <1>2, <1>3, <1>4, CopyKept DEF IInv, CopiesFit
  <1>6. FaultsGrow
    BY <1>1, FaultGrows DEF IInv
  <1>7. /\ job[p].status = "FAILURE" =>
              Refund(t, old.quota) \in Job /\ Bill(t, new, Refund(t, old.quota))
        /\ job[p].status = "SUCCESS" => \A a \in ActualQuotas :
              Settlement(t, old, a) \in Job /\ Bill(t, new, Settlement(t, old, a))
    <2> HIDE DEF t, old, new
    <2> QED
      BY <1>2, <1>3, RefundBills, SettlementBills DEF Kept
  <1>8. job[p].status \notin Terminal => NoJob \in Job /\ Bill(t, new, NoJob)
    BY <1>3, IdleValues DEF Bill, Terminal
  <1> HIDE DEF t, old, new
  <1>9. CASE row[t].status = old.status /\ row' = [row EXCEPT ![t] = new] /\ UNCHANGED faults
             /\ \E j \in Job : job' = [job EXCEPT ![p] = j] /\ Bill(t, new, j)
    BY <1>1, <1>3, <1>5, <1>6, <1>9 DEF Won, t
  <1>10. CASE row' = row /\ job' = [job EXCEPT ![p] = NoJob]
    BY <1>1, <1>6, <1>10
  <1> QED
    BY <1>1, <1>7, <1>8, <1>9, <1>10

\* FetchTask is called, and returns without an answer.
LEMMA AskDoes ==
    ASSUME IInv, NEW p \in Poller, NEW t \in Task, AskUpstream(p, t)
    PROVE  /\ loop[p].at = "poll" /\ job[p].step = "none" /\ t \in loop[p].todo
           /\ \E j \in Job : j.step = "fetch" /\ j.task = t /\ job' = [job EXCEPT ![p] = j]
           /\ UNCHANGED <<row, upstream, late, channel, crashes, loop, query, charge, faults>>
  <1> DEFINE j == [NoJob EXCEPT !.step = "fetch", !.task = t]
  <1>1. NoJob \in Job
    BY IdleValues
  <1>2. j \in Job /\ j.step = "fetch" /\ j.task = t
    BY <1>1 DEF Job
  <1> QED
    BY <1>2 DEF AskUpstream, Polling, Assign, World

LEMMA FetchFailsDoes ==
    ASSUME IInv, NEW p \in Poller, NEW t \in Task, FetchFails(p, t)
    PROVE  /\ loop[p].at = "poll" /\ job[p].step = "fetch" /\ t \in loop[p].todo
           /\ job' = [job EXCEPT ![p] = NoJob]
           /\ loop' = [loop EXCEPT ![p].todo = @ \ {t}]
           /\ UNCHANGED <<row, upstream, late, channel, crashes, query, charge, faults>>
  BY DEF FetchFails, Asked, Finish, Leave, World

\* FetchTask for a video: the row is to be updated.
LEMMA FetchVideoDoes ==
    ASSUME IInv, NEW p \in Poller, NEW t \in Task, FetchVideo(p, t)
    PROVE  /\ loop[p].at = "poll" /\ job[p].step = "fetch" /\ t \in loop[p].todo
           /\ row[t].platform # "suno"
           /\ \E j \in Job : j.step = "update" /\ j.task = t /\ job' = [job EXCEPT ![p] = j]
           /\ loop' = [loop EXCEPT ![p].todo = @ \ {t}]
           /\ UNCHANGED <<row, upstream, late, channel, crashes, query, charge, faults>>
  <1>1. /\ loop[p].at = "poll" /\ job[p].step = "fetch" /\ t \in loop[p].todo
        /\ loop[p].copy[t].platform # "suno"
        /\ loop' = [loop EXCEPT ![p].todo = @ \ {t}]
        /\ UNCHANGED <<row, upstream, late, channel, crashes, query, charge, faults>>
    BY DEF FetchVideo, Asked, Leave, World
  <1>2. PICK st \in {upstream[t], "FAILURE"}, early \in BOOLEAN :
            job' = [job EXCEPT ![p] = [step |-> "update", task |-> t, status |-> st,
                         complete |-> early \/ st \in Terminal, delta |-> 0]]
    BY DEF FetchVideo, Assign
  <1>3. st \in Status
    BY Parts DEF IInv, Status, Terminal
  <1>4. [step |-> "update", task |-> t, status |-> st,
         complete |-> early \/ st \in Terminal, delta |-> 0] \in Job
    BY <1>3 DEF Job
  <1>5. row[t].platform # "suno"
    BY <1>1 DEF IInv, CopiesFit, Works
  <1> QED
    BY <1>1, <1>2, <1>4, <1>5

\* The job updateSunoTasks leaves: to refund the task first, or to save it.
SunoJob(p, t) ==
    \E j \in Job :
        /\ j.step \in {"funding", "save"} /\ j.task = t
        /\ j.step = "funding" => j.complete = TRUE /\ row[t].quota + j.delta = 0
        /\ job' = [job EXCEPT ![p] = j]

\* updateSunoTasks: a refund to begin, or the row to save.
LEMMA FetchSunoDoes ==
    ASSUME IInv, NEW p \in Poller, NEW t \in Task, FetchSuno(p, t)
    PROVE  /\ loop[p].at = "poll" /\ job[p].step = "fetch" /\ t \in loop[p].todo
           /\ row[t].platform = "suno"
           /\ SunoJob(p, t)
           /\ loop' = [loop EXCEPT ![p].todo = @ \ {t}]
           /\ UNCHANGED <<row, upstream, late, channel, crashes, query, charge, faults>>
  <1> DEFINE old == loop[p].copy[t]
  <1>1. /\ loop[p].at = "poll" /\ job[p].step = "fetch" /\ t \in loop[p].todo
        /\ old.platform = "suno"
        /\ loop' = [loop EXCEPT ![p].todo = @ \ {t}]
        /\ UNCHANGED <<row, upstream, late, channel, crashes, query, charge, faults>>
    BY DEF FetchSuno, Asked, Leave, World
  <1>2. PICK st \in {upstream[t], old.status}, reason \in BOOLEAN :
            LET failed == reason \/ st = "FAILURE"
                complete == failed \/ st = "SUCCESS"
            IN job' = [job EXCEPT ![p] =
                          IF failed /\ old.quota > 0
                          THEN [Refund(t, old.quota) EXCEPT !.status = st]
                          ELSE [step |-> "save", task |-> t, status |-> st,
                                complete |-> complete, delta |-> 0]]
    BY DEF FetchSuno, Assign
  <1>3. old \in Row /\ old.quota \in Nat /\ st \in Status
    BY <1>1, Parts DEF IInv, CopiesFit, Works
  <1>4. row[t].platform = "suno" /\ row[t].quota = old.quota
    BY <1>1 DEF IInv, CopiesFit, Works
  <1>5. CASE old.quota > 0 /\ job' = [job EXCEPT ![p] = [Refund(t, old.quota) EXCEPT !.status = st]]
    <2> DEFINE r == Refund(t, old.quota)
               j == [r EXCEPT !.status = st]
    <2>1. r = [step |-> "funding", task |-> t, status |-> "FAILURE",
               complete |-> TRUE, delta |-> - old.quota]
      BY <1>3, <1>5 DEF Refund
    <2>2. r \in Job /\ r.step = "funding" /\ r.task = t /\ r.complete = TRUE /\ r.delta = - old.quota
      BY <1>3, <2>1 DEF Job, Status, Terminal
    <2>3. j = [r EXCEPT !.status = st] /\ job' = [job EXCEPT ![p] = j]
      BY <1>5
    <2> HIDE DEF r, j, old
    <2>4. /\ j \in Job /\ j.step = "funding" /\ j.task = t /\ j.complete = TRUE
          /\ j.delta = - old.quota
      BY <1>3, <2>2, <2>3, JobStatus
    <2>5. row[t].quota + j.delta = 0
      BY <1>3, <1>4, <2>4
    <2> QED
      BY <1>1, <1>4, <2>3, <2>4, <2>5 DEF SunoJob
  <1>6. CASE \E b \in BOOLEAN : job' = [job EXCEPT ![p] = [step |-> "save", task |-> t,
                                           status |-> st, complete |-> b, delta |-> 0]]
    <2>1. PICK b \in BOOLEAN : job' = [job EXCEPT ![p] = [step |-> "save", task |-> t,
                                           status |-> st, complete |-> b, delta |-> 0]]
      BY <1>6
    <2>2. [step |-> "save", task |-> t, status |-> st, complete |-> b, delta |-> 0] \in Job
      BY <1>3 DEF Job
    <2> QED
      BY <1>1, <1>4, <2>1, <2>2 DEF SunoJob
  <1> QED
    BY <1>2, <1>5, <1>6

\* The row of a Suno task is saved, or is not.
LEMMA SaveDoes ==
    ASSUME IInv, NEW p \in Poller, SaveSuno(p)
    PROVE  /\ job[p].step = "save" /\ job[p].task \in Task
           /\ \/ \E new \in Row :
                    /\ row' = [row EXCEPT ![job[p].task] = new] /\ Kept(row[job[p].task], new)
                    /\ new.complete = job[p].complete
              \/ row' = row /\ faults' = faults + 1
           /\ job' = [job EXCEPT ![p] = NoJob] /\ FaultsGrow
           /\ UNCHANGED <<upstream, late, channel, crashes, loop, query, charge>>
  <1> DEFINE t == job[p].task
             old == loop[p].copy[t]
             new == Moved(old, job[p].status, job[p].complete)
  <1>1. /\ job[p].step = "save" /\ job' = [job EXCEPT ![p] = NoJob]
        /\ UNCHANGED <<upstream, late, channel, crashes, loop, query, charge>>
        /\ \/ row' = [row EXCEPT ![t] = new] /\ UNCHANGED faults
           \/ row' = row /\ Fault
    BY DEF SaveSuno, World, Write, Finish
  <1>2. t \in Task /\ old \in Row /\ job[p].status \in Status /\ job[p].complete \in BOOLEAN
    <2>1. t \in Task
      BY DEF IInv, TypeOK, Job
    <2> QED
      BY <2>1, Parts DEF IInv
  <1>3. new \in Row /\ new.complete = job[p].complete /\ Kept(old, new)
    BY <1>2, MovedIs
  <1>4. Works(p, t)
    BY <1>1 DEF Works
  <1>5. Kept(row[t], new)
    BY <1>2, <1>3, <1>4, CopyKept
  <1>6. FaultsGrow
    BY <1>1, FaultGrows DEF IInv
  <1> HIDE DEF old, new
  <1> QED
    BY <1>1, <1>2, <1>3, <1>5, <1>6 DEF Fault

\* The job of p is done, or the row of a Suno task is left to be saved.
Done(p) ==
    \E j \in Job :
        /\ job' = [job EXCEPT ![p] = j]
        /\ \/ j.step = "none" /\ ~BillsFirst(p)
           \/ /\ j.step = "save" /\ j.task = job[p].task /\ j.complete = job[p].complete
              /\ row[j.task].platform = "suno" /\ loop[p].at = "poll"

\* What follows a bill.
LEMMA AfterBillingDoes ==
    ASSUME TypeOK, NEW p \in Poller, AfterBilling(p)
    PROVE  Done(p)
  <1>1. CASE row[job[p].task].platform = "suno" /\ loop[p].at = "poll"
    <2> DEFINE saved(n) == [job[p] EXCEPT !.step = "save", !.delta = n]
               j == saved(0)
    <2>1. job' = [job EXCEPT ![p] = j] /\ job[p] \in Job
      BY <1>1 DEF AfterBilling, Assign, TypeOK
    <2>2. /\ j \in Job /\ j.step = "save" /\ j.task = job[p].task
          /\ j.complete = job[p].complete
      <3>1. \A n \in Int : saved(n) \in Job
        BY <2>1 DEF Job
      <3>2. j \in Job
        <4> HIDE DEF saved
        <4> QED
          BY <3>1
      <3> QED
        BY <2>1, <3>2 DEF Job
    <2> HIDE DEF j
    <2> QED
      BY <1>1, <2>1, <2>2 DEF Done
  <1>2. CASE ~(row[job[p].task].platform = "suno" /\ loop[p].at = "poll")
    BY <1>2, IdleValues DEF AfterBilling, Finish, Done, BillsFirst
  <1> QED
    BY <1>1, <1>2

\* taskAdjustFunding moves the amount, or the billing ends.
LEMMA FundingDoes ==
    ASSUME IInv, NEW p \in Poller, AdjustFunding(p)
    PROVE  /\ job[p].step = "funding" /\ job[p].task \in Task
           /\ \/ /\ charge'[job[p].task].funding = charge[job[p].task].funding + job[p].delta
                 /\ charge'[job[p].task].token = charge[job[p].task].token
                 /\ \E j \in Job :
                       /\ job' = [job EXCEPT ![p] = j] /\ j.step = "token"
                       /\ j.task = job[p].task /\ j.delta = job[p].delta
                       /\ j.complete = job[p].complete
                 /\ faults' = faults
              \/ /\ Done(p) /\ charge' = charge
                 /\ faults' = faults + 1 \/ (job[p].delta > 0 /\ faults' = faults)
           /\ charge' \in [Task -> [funding: Int, token: Int]]
           /\ \A u \in Task \ {job[p].task} : charge'[u] = charge[u]
           /\ FaultsGrow
           /\ UNCHANGED <<row, upstream, late, channel, crashes, loop, query>>
  <1> DEFINE t == job[p].task
             j == [job[p] EXCEPT !.step = "token"]
  <1>1. /\ job[p].step = "funding"
        /\ \/ /\ charge' = [charge EXCEPT ![t].funding = @ + job[p].delta]
              /\ job' = [job EXCEPT ![p] = j] /\ UNCHANGED faults
           \/ Fault /\ AfterBilling(p) /\ UNCHANGED charge
           \/ job[p].delta > 0 /\ AfterBilling(p) /\ UNCHANGED <<charge, faults>>
        /\ UNCHANGED <<row, upstream, late, channel, crashes, loop, query>>
    BY DEF AdjustFunding, World, Assign
  <1>2. job[p] \in Job /\ t \in Task /\ job[p].delta \in Int
    BY DEF IInv, TypeOK, Job
  <1>3. /\ j \in Job /\ j.step = "token" /\ j.task = t /\ j.delta = job[p].delta
        /\ j.complete = job[p].complete
    BY <1>2 DEF Job
  <1>4. FaultsGrow
    BY <1>1, FaultGrows DEF IInv
  <1>5. charge \in [Task -> [funding: Int, token: Int]]
    BY DEF IInv, TypeOK
  <1>6. CASE /\ charge' = [charge EXCEPT ![t].funding = @ + job[p].delta]
             /\ job' = [job EXCEPT ![p] = j] /\ UNCHANGED faults
    <2>1. /\ charge'[t].funding = charge[t].funding + job[p].delta
          /\ charge'[t].token = charge[t].token
          /\ charge' \in [Task -> [funding: Int, token: Int]]
          /\ \A u \in Task \ {t} : charge'[u] = charge[u]
      BY <1>2, <1>5, <1>6
    <2> HIDE DEF j
    <2> QED
      BY <1>1, <1>2, <1>3, <1>4, <1>6, <2>1
  <1>7. CASE /\ AfterBilling(p) /\ UNCHANGED charge
             /\ Fault \/ (job[p].delta > 0 /\ UNCHANGED faults)
    <2>1. Done(p)
      BY <1>7, AfterBillingDoes DEF IInv
    <2> QED
      BY <1>1, <1>2, <1>4, <1>5, <1>7, <2>1 DEF Fault
  <1> QED
    BY <1>1, <1>6, <1>7

\* taskAdjustTokenQuota moves the amount or fails, and the billing ends.
LEMMA TokenDoes ==
    ASSUME IInv, NEW p \in Poller, AdjustToken(p)
    PROVE  /\ job[p].step = "token" /\ job[p].task \in Task /\ Done(p)
           /\ charge'[job[p].task].token \in {charge[job[p].task].token,
                                              charge[job[p].task].token + job[p].delta}
           /\ \A u \in Task : charge'[u].funding = charge[u].funding
           /\ charge' \in [Task -> [funding: Int, token: Int]]
           /\ \A u \in Task \ {job[p].task} : charge'[u] = charge[u]
           /\ UNCHANGED <<row, upstream, late, channel, crashes, faults, loop, query>>
  <1> DEFINE t == job[p].task
  <1>1. /\ job[p].step = "token" /\ AfterBilling(p)
        /\ \/ charge' = [charge EXCEPT ![t].token = @ + job[p].delta]
           \/ charge' = charge
        /\ UNCHANGED <<row, upstream, late, channel, crashes, faults, loop, query>>
    BY DEF AdjustToken, World
  <1>2. t \in Task /\ job[p].delta \in Int
    BY DEF IInv, TypeOK, Job
  <1>3. charge \in [Task -> [funding: Int, token: Int]]
    BY DEF IInv, TypeOK
  <1>4. /\ charge'[t].token \in {charge[t].token, charge[t].token + job[p].delta}
        /\ \A u \in Task : charge'[u].funding = charge[u].funding
        /\ charge' \in [Task -> [funding: Int, token: Int]]
        /\ \A u \in Task \ {t} : charge'[u] = charge[u]
    BY <1>1, <1>2, <1>3
  <1>5. Done(p)
    BY <1>1, AfterBillingDoes DEF IInv
  <1> QED
    BY <1>1, <1>2, <1>4, <1>5

---------------------------------------------------------------------------
\* The first invariant.  Every step keeps what was fixed at the submission of a row,
\* works on with the copies there are or on new ones of open rows, and has work to write
\* a row only for tasks it has worked on.
RowsKept == \A t \in Task : row[t].status # "NONE" => Kept(row[t], row'[t])
WorksKept ==
    \A p \in Poller, t \in Task : Works(p, t)' =>
        \/ Works(p, t) /\ loop'[p].copy[t] = loop[p].copy[t]
        \/ Unfinished(t) /\ loop'[p].copy[t] = row[t]
JobsKept ==
    \A p \in Poller :
        \/ job'[p] = job[p]
        \/ job'[p].step \notin {"save", "update"}
        \/ /\ Works(p, job'[p].task)
           /\ job'[p].step = "save" => row[job'[p].task].platform = "suno"
           /\ job'[p].step = "update" => row[job'[p].task].platform # "suno"
QueriesKept ==
    \A c \in Client :
        \/ query'[c] = query[c]
        \/ query'[c].step # "update"
        \/ row[query'[c].task].status # "NONE" /\ row[query'[c].task].platform = "gemini"

\* Such a step keeps the invariant.
LEMMA IInvKept ==
    ASSUME IInv, TypeOK', RowsKept, WorksKept, SleepersIdle', JobsKept, QueriesKept
    PROVE  IInv'
  <1>1. CopiesFit'
    <2> SUFFICES ASSUME NEW p \in Poller, NEW t \in Task, Works(p, t)'
                 PROVE  /\ row'[t].status # "NONE"
                        /\ loop'[p].copy[t].status \notin Terminal \cup {"NONE"}
                        /\ loop'[p].copy[t].quota = row'[t].quota
                        /\ loop'[p].copy[t].perCall = row'[t].perCall
                        /\ loop'[p].copy[t].platform = row'[t].platform
      BY DEF CopiesFit
    <2>1. CASE Works(p, t) /\ loop'[p].copy[t] = loop[p].copy[t]
      BY <2>1 DEF IInv, CopiesFit, RowsKept, Kept
    <2>2. CASE Unfinished(t) /\ loop'[p].copy[t] = row[t]
      BY <2>2 DEF RowsKept, Kept, Unfinished
    <2> QED
      BY <2>1, <2>2 DEF WorksKept
  <1>2. ASSUME NEW p \in Poller
        PROVE  /\ job'[p].step = "save" => row'[job'[p].task].platform = "suno"
               /\ job'[p].step = "update" => row'[job'[p].task].platform # "suno"
    <2>1. job'[p].task \in Task
      BY DEF TypeOK, Job
    <2> SUFFICES ASSUME job'[p].step \in {"save", "update"}
                 PROVE  /\ Works(p, job'[p].task)
                        /\ job'[p].step = "save" => row[job'[p].task].platform = "suno"
                        /\ job'[p].step = "update" => row[job'[p].task].platform # "suno"
      BY <2>1 DEF IInv, CopiesFit, RowsKept, Kept
    <2>2. CASE job'[p] = job[p]
      BY <2>2 DEF IInv, WritersFit, Works
    <2> QED
      BY <2>2 DEF JobsKept
  <1>3. ASSUME NEW c \in Client, query'[c].step = "update"
        PROVE  /\ row'[query'[c].task].status # "NONE"
               /\ row'[query'[c].task].platform = "gemini"
    <2>1. query'[c].task \in Task
      BY DEF TypeOK, Query
    <2>2. row[query'[c].task].status # "NONE" /\ row[query'[c].task].platform = "gemini"
      BY <1>3 DEF QueriesKept, IInv, WritersFit
    <2> QED
      BY <2>1, <2>2 DEF RowsKept, Kept
  <1> QED
    BY <1>1, <1>2, <1>3 DEF IInv, WritersFit

\* A poller that takes up or ends a job goes on with its other copies.
LEMMA WorksLeft ==
    ASSUME IInv, NEW p \in Poller, NEW j \in Job, NEW t \in Task,
           job' = [job EXCEPT ![p] = j],
           loop' = [loop EXCEPT ![p].todo = @ \ {t}],
           j.step # "none" => Works(p, j.task) /\ loop[p].at # "sleep"
    PROVE  /\ loop' \in [Poller -> Loop] /\ job' \in [Poller -> Job] /\ job'[p] = j
           /\ \A q \in Poller \ {p} : job'[q] = job[q]
           /\ WorksKept /\ SleepersIdle'
  <1>1. loop \in [Poller -> Loop] /\ job \in [Poller -> Job] /\ SleepersIdle
    BY DEF IInv, TypeOK, Loop
  <1>2. \A q \in Poller : loop'[q].copy = loop[q].copy /\ loop'[q].todo \subseteq loop[q].todo
                          /\ loop'[q].at = loop[q].at
    BY <1>1 DEF Loop
  <1>3. loop' \in [Poller -> Loop]
    BY <1>1 DEF Loop
  <1>4. /\ job' \in [Poller -> Job] /\ job'[p] = j
        /\ \A q \in Poller \ {p} : job'[q] = job[q]
    BY <1>1
  <1>5. ASSUME NEW q \in Poller, NEW u \in Task, Works(q, u)'
        PROVE  Works(q, u)
    BY <1>2, <1>4, <1>5 DEF Works
  <1>6. SleepersIdle'
    BY <1>1, <1>2, <1>4 DEF SleepersIdle
  <1> QED
    BY <1>2, <1>3, <1>4, <1>5, <1>6 DEF WorksKept

\* The same when the list stays as it is.
LEMMA WorksOn ==
    ASSUME IInv, NEW p \in Poller, NEW j \in Job, job' = [job EXCEPT ![p] = j], loop' = loop,
           j.step # "none" => Works(p, j.task) /\ loop[p].at # "sleep"
    PROVE  /\ job' \in [Poller -> Job] /\ job'[p] = j
           /\ \A q \in Poller \ {p} : job'[q] = job[q]
           /\ WorksKept /\ SleepersIdle'
  <1>1. job \in [Poller -> Job] /\ SleepersIdle
    BY DEF IInv, TypeOK
  <1>2. /\ job' \in [Poller -> Job] /\ job'[p] = j
        /\ \A q \in Poller \ {p} : job'[q] = job[q]
    BY <1>1
  <1>3. ASSUME NEW q \in Poller, NEW u \in Task, Works(q, u)'
        PROVE  Works(q, u)
    BY <1>2, <1>3 DEF Works
  <1>4. SleepersIdle'
    BY <1>1, <1>2 DEF SleepersIdle
  <1> QED
    BY <1>2, <1>3, <1>4 DEF WorksKept

\* The writes of rows, jobs and loops have their types.
LEMMA RowsWritten ==
    ASSUME TypeOK, NEW t \in Task, NEW new \in Row, row' = [row EXCEPT ![t] = new],
           row[t].status # "NONE" => Kept(row[t], new)
    PROVE  row' \in [Task -> Row] /\ RowsKept
  BY DEF TypeOK, RowsKept, Kept

\* A table that stays as it is keeps its rows.
LEMMA RowsSame == ASSUME TypeOK, row' = row PROVE row' \in [Task -> Row] /\ RowsKept
  BY DEF TypeOK, RowsKept, Kept

\* Every action of a poller keeps the invariant.
LEMMA PollInv ==
    ASSUME IInv, NEW p \in Poller, Poll(p) \/ Crash(p) \/ \E t \in Task : Answer(p, t)
    PROVE  IInv'
  <1>0. /\ TypeOK /\ loop \in [Poller -> Loop] /\ job \in [Poller -> Job]
        /\ NoJob \in Job /\ NoJob.step = "none" /\ Asleep \in Loop /\ Asleep.todo = {}
        /\ SleepersIdle
    BY IdleValues DEF IInv, TypeOK, Loop
  <1> USE <1>0
  <1>1. CASE StartSweep(p) \/ ListTasks(p)
    <2>1. PICK at \in {"sweep", "poll"}, todo \in SUBSET {t \in Task : Unfinished(t)} :
              loop' = [loop EXCEPT ![p] = [at |-> at, todo |-> todo, copy |-> row]]
      BY <1>1, Zenon DEF StartSweep, ListTasks, Enter
    <2>2. /\ UNCHANGED <<row, upstream, late, channel, crashes, job, query, charge, faults>>
          /\ job[p].step = "none"
      BY <1>1 DEF StartSweep, ListTasks, World, SleepersIdle
    <2>3. [at |-> at, todo |-> todo, copy |-> row] \in Loop
      BY <2>1 DEF TypeOK, Loop
    <2>4. TypeOK' /\ RowsKept
      BY <2>1, <2>2, <2>3, RowsSame DEF TypeOK, Loop
    <2>5. /\ loop'[p].todo = todo /\ loop'[p].copy = row
          /\ \A q \in Poller \ {p} : loop'[q] = loop[q]
      BY <2>1
    <2>6. WorksKept
      BY <2>2, <2>5 DEF WorksKept, Works
    <2>7. SleepersIdle'
      BY <2>2, <2>5 DEF SleepersIdle
    <2> QED
      BY <2>2, <2>4, <2>6, <2>7, IInvKept DEF JobsKept, QueriesKept
  <1>2. CASE EndPoll(p) \/ Crash(p)
    <2>1. /\ loop' = [loop EXCEPT ![p] = Asleep]
          /\ UNCHANGED <<row, upstream, late, channel, query, charge, faults>>
          /\ crashes' \in 0..MaxCrashes
          /\ (job' = job /\ job[p].step = "none") \/ job' = [job EXCEPT ![p] = NoJob]
      BY <1>2, TaskAssumption DEF EndPoll, Crash, World, Finish, TypeOK
    <2>2. TypeOK' /\ RowsKept
      BY <2>1, RowsSame DEF TypeOK, Loop
    <2>3. /\ loop'[p].todo = {} /\ job'[p].step = "none"
          /\ \A q \in Poller \ {p} : loop'[q] = loop[q] /\ job'[q] = job[q]
      BY <2>1
    <2>4. WorksKept /\ SleepersIdle' /\ JobsKept
      BY <2>3 DEF WorksKept, Works, SleepersIdle, JobsKept
    <2> QED
      BY <2>1, <2>2, <2>4, IInvKept DEF QueriesKept
  <1>3. CASE UpdateVideo(p)
    <2>1. PICK j \in Job : /\ job' = [job EXCEPT ![p] = j] /\ j.step \in {"none", "funding"}
                           /\ j.step = "funding" => j.task = job[p].task
      BY <1>3, UpdateDoes DEF Won, Bill
    <2>2. /\ job[p].step = "update" /\ job[p].task \in Task
          /\ UNCHANGED <<upstream, late, channel, crashes, loop, query, charge>>
          /\ FaultsGrow
      BY <1>3, UpdateDoes DEF Job
    <2>3. Works(p, job[p].task) /\ loop[p].at # "sleep"
      BY <2>2 DEF Works, SleepersIdle
    <2>4. row' \in [Task -> Row] /\ RowsKept
      BY <1>3, <2>2, UpdateDoes, RowsSame, RowsWritten DEF Won
    <2>5. /\ job' \in [Poller -> Job] /\ job'[p] = j
          /\ \A q \in Poller \ {p} : job'[q] = job[q]
          /\ WorksKept /\ SleepersIdle'
      BY <2>1, <2>2, <2>3, WorksOn
    <2>6. TypeOK'
      BY <2>2, <2>4, <2>5 DEF TypeOK, FaultsGrow
    <2> QED
      BY <2>1, <2>2, <2>4, <2>5, <2>6, IInvKept DEF JobsKept, QueriesKept
  <1>4. CASE SaveSuno(p)
    <2>1. /\ job[p].step = "save" /\ job[p].task \in Task /\ job' = [job EXCEPT ![p] = NoJob]
          /\ UNCHANGED <<upstream, late, channel, crashes, loop, query, charge>>
          /\ FaultsGrow
      BY <1>4, SaveDoes
    <2>2. row' \in [Task -> Row] /\ RowsKept
      BY <1>4, <2>1, SaveDoes, RowsSame, RowsWritten
    <2>3. /\ job' \in [Poller -> Job] /\ job'[p] = NoJob
          /\ \A q \in Poller \ {p} : job'[q] = job[q]
          /\ WorksKept /\ SleepersIdle'
      BY <2>1, WorksOn
    <2>4. TypeOK'
      BY <2>1, <2>2, <2>3 DEF TypeOK, FaultsGrow
    <2> QED
      BY <2>1, <2>2, <2>3, <2>4, IInvKept DEF JobsKept, QueriesKept
  <1>5. CASE AdjustFunding(p) \/ AdjustToken(p)
    <2>1. PICK j \in Job :
              /\ job' = [job EXCEPT ![p] = j] /\ j.step \in {"none", "token", "save"}
              /\ j.step # "none" => j.task = job[p].task
              /\ j.step = "save" => row[j.task].platform = "suno"
      BY <1>5, FundingDoes, TokenDoes DEF Done
    <2>2. /\ job[p].step \in {"funding", "token"} /\ job[p].task \in Task
          /\ UNCHANGED <<row, upstream, late, channel, crashes, loop, query>>
          /\ charge' \in [Task -> [funding: Int, token: Int]]
      BY <1>5, FundingDoes, TokenDoes
    <2>3. faults' \in 0..MaxFaults
      BY <1>5, FundingDoes, TokenDoes DEF FaultsGrow, TypeOK
    <2>4. Works(p, job[p].task) /\ loop[p].at # "sleep"
      BY <2>2 DEF Works, SleepersIdle
    <2>5. /\ job' \in [Poller -> Job] /\ job'[p] = j
          /\ \A q \in Poller \ {p} : job'[q] = job[q]
          /\ WorksKept /\ SleepersIdle'
      BY <2>1, <2>2, <2>4, WorksOn
    <2>6. TypeOK' /\ RowsKept
      BY <2>2, <2>3, <2>5, RowsSame DEF TypeOK
    <2> QED
      BY <2>1, <2>2, <2>4, <2>5, <2>6, IInvKept DEF JobsKept, QueriesKept
  <1>6. ASSUME NEW t \in Task, SweepTask(p, t)
        PROVE  IInv'
    <2>1. PICK j \in Job : /\ job' = [job EXCEPT ![p] = j] /\ j.step \in {"none", "funding"}
                           /\ j.step = "funding" => j.task = t
      <3>1. CASE Won(p, t)
        BY <3>1 DEF Won, Bill
      <3>2. CASE job' = job
        <4>1. job[p].step = "none" /\ job' = [job EXCEPT ![p] = job[p]] /\ job[p] \in Job
          BY <1>6, <3>2, SweepDoes
        <4> QED
          BY <4>1
      <3> QED
        BY <1>6, <3>1, <3>2, SweepDoes
    <2>2. /\ loop[p].at = "sweep" /\ t \in loop[p].todo
          /\ loop' = [loop EXCEPT ![p].todo = @ \ {t}] /\ FaultsGrow
          /\ UNCHANGED <<upstream, late, channel, crashes, query, charge>>
      BY <1>6, SweepDoes
    <2>3. row' \in [Task -> Row] /\ RowsKept
      BY <1>6, SweepDoes, RowsSame, RowsWritten DEF Won
    <2>4. /\ loop' \in [Poller -> Loop] /\ job' \in [Poller -> Job] /\ job'[p] = j
          /\ \A q \in Poller \ {p} : job'[q] = job[q]
          /\ WorksKept /\ SleepersIdle'
      BY <2>1, <2>2, WorksLeft DEF Works
    <2>5. TypeOK'
      BY <2>2, <2>3, <2>4 DEF TypeOK, FaultsGrow, Loop
    <2> QED
      BY <2>1, <2>2, <2>3, <2>4, <2>5, IInvKept DEF JobsKept, QueriesKept
  <1>7. ASSUME NEW t \in Task, BulkFail(p, t)
        PROVE  IInv'
    <2>1. /\ t \in loop[p].todo /\ job' = job /\ job[p].step = "none" /\ job[p] \in Job
          /\ job' = [job EXCEPT ![p] = job[p]]
          /\ loop' = [loop EXCEPT ![p].todo = @ \ {t}]
          /\ UNCHANGED <<upstream, late, channel, crashes, query, charge>>
      BY <1>7 DEF BulkFail, Polling, Leave, World
    <2>2. Fault \/ UNCHANGED faults
      BY <1>7 DEF BulkFail
    <2>3. row' = row \/ row' = [row EXCEPT ![t] = SetStatus(row[t], "FAILURE")]
      BY <1>7 DEF BulkFail, Write
    <2>4. row[t] \in Row /\ "FAILURE" \in Status
      BY DEF TypeOK, Status, Terminal
    <2>5. row' \in [Task -> Row] /\ RowsKept
      BY <2>3, <2>4, SetStatusIs, RowsSame, RowsWritten
    <2>6. /\ loop' \in [Poller -> Loop] /\ job' \in [Poller -> Job]
          /\ WorksKept /\ SleepersIdle'
      BY <2>1, WorksLeft
    <2>7. TypeOK'
      BY <2>1, <2>2, <2>5, <2>6, FaultGrows DEF TypeOK, FaultsGrow, Loop
    <2> QED
      BY <2>1, <2>5, <2>6, <2>7, IInvKept DEF JobsKept, QueriesKept
  <1>8. ASSUME NEW t \in Task, FetchVideo(p, t) \/ FetchSuno(p, t)
        PROVE  IInv'
    <2>1. PICK j \in Job :
              /\ job' = [job EXCEPT ![p] = j] /\ j.step # "none" /\ j.task = t
              /\ j.step = "save" => row[t].platform = "suno"
              /\ j.step = "update" => row[t].platform # "suno"
      <3>1. CASE FetchVideo(p, t)
        BY <3>1, FetchVideoDoes
      <3>2. CASE FetchSuno(p, t)
        <4>1. /\ row[t].platform = "suno"
              /\ SunoJob(p, t)
          BY <3>2, FetchSunoDoes
        <4> QED
          BY <4>1 DEF SunoJob
      <3> QED
        BY <1>8, <3>1, <3>2
    <2>2. /\ loop[p].at = "poll" /\ t \in loop[p].todo
          /\ loop' = [loop EXCEPT ![p].todo = @ \ {t}]
          /\ UNCHANGED <<row, upstream, late, channel, crashes, query, charge, faults>>
      BY <1>8 DEF FetchVideo, FetchSuno, Asked, Leave, World
    <2>3. Works(p, t)
      BY <2>2 DEF Works
    <2>4. /\ loop' \in [Poller -> Loop] /\ job' \in [Poller -> Job] /\ job'[p] = j
          /\ \A q \in Poller \ {p} : job'[q] = job[q]
          /\ WorksKept /\ SleepersIdle'
      BY <2>1, <2>2, <2>3, WorksLeft
    <2>5. TypeOK' /\ RowsKept
      BY <2>2, <2>4, RowsSame DEF TypeOK, Loop
    <2> QED
      BY <2>1, <2>2, <2>3, <2>4, <2>5, IInvKept DEF JobsKept, QueriesKept
  <1>9. ASSUME NEW t \in Task, AskUpstream(p, t)
        PROVE  IInv'
    <2>1. PICK j \in Job : j.step = "fetch" /\ j.task = t /\ job' = [job EXCEPT ![p] = j]
      BY <1>9, AskDoes
    <2>2. /\ loop[p].at = "poll" /\ t \in loop[p].todo /\ loop' = loop
          /\ UNCHANGED <<row, upstream, late, channel, crashes, query, charge, faults>>
      BY <1>9, AskDoes
    <2>3. /\ job' \in [Poller -> Job] /\ job'[p] = j
          /\ \A q \in Poller \ {p} : job'[q] = job[q]
          /\ WorksKept /\ SleepersIdle'
      BY <2>1, <2>2, WorksOn DEF Works
    <2>4. TypeOK' /\ RowsKept
      BY <2>2, <2>3, RowsSame DEF TypeOK
    <2> QED
      BY <2>1, <2>2, <2>3, <2>4, IInvKept DEF JobsKept, QueriesKept
  <1>10. ASSUME NEW t \in Task, FetchFails(p, t)
         PROVE  IInv'
    <2>1. /\ job' = [job EXCEPT ![p] = NoJob]
          /\ loop' = [loop EXCEPT ![p].todo = @ \ {t}]
          /\ UNCHANGED <<row, upstream, late, channel, crashes, query, charge, faults>>
      BY <1>10, FetchFailsDoes
    <2>2. /\ loop' \in [Poller -> Loop] /\ job' \in [Poller -> Job] /\ job'[p] = NoJob
          /\ \A q \in Poller \ {p} : job'[q] = job[q]
          /\ WorksKept /\ SleepersIdle'
      BY <2>1, WorksLeft
    <2>3. TypeOK' /\ RowsKept
      BY <2>1, <2>2, RowsSame DEF TypeOK, Loop
    <2> QED
      BY <2>1, <2>2, <2>3, IInvKept DEF JobsKept, QueriesKept
  <1> QED
    BY <1>1, <1>2, <1>3, <1>4, <1>5, <1>6, <1>7, <1>8, <1>9, <1>10 DEF Poll, PollTask, Answer

\* RelayTask inserts a row that nobody has listed yet; the upstream, the clock and the
\* administrator write no row.
LEMMA EnvironmentInv ==
    ASSUME IInv, \/ \E t \in Task : Submit(t) \/ UpstreamEnds(t) \/ TimesOut(t)
                 \/ DeleteChannel \/ UNCHANGED vars
    PROVE  IInv'
  <1>0. TypeOK /\ SleepersIdle
    BY DEF IInv
  <1>1. UNCHANGED <<loop, job, query, crashes>>
    BY DEF Submit, UpstreamEnds, TimesOut, DeleteChannel, World, vars
  <1>2. WorksKept /\ SleepersIdle' /\ JobsKept /\ QueriesKept
    BY <1>0, <1>1 DEF WorksKept, Works, SleepersIdle, JobsKept, QueriesKept
  <1>3. TypeOK' /\ RowsKept
    <2>1. ASSUME NEW t \in Task, Submit(t)
          PROVE  TypeOK' /\ RowsKept
      <3>1. PICK q \in Quotas, perCall \in PerCalls, platform \in Platforms :
                /\ \E paid \in {q} \cup UnsettledQuotas :
                      charge' = [charge EXCEPT ![t] = [funding |-> paid, token |-> paid]]
                /\ \/ row' = [row EXCEPT ![t] = [status |-> "NOT_START", complete |-> FALSE,
                                 quota |-> q, perCall |-> perCall, platform |-> platform]]
                      /\ UNCHANGED faults
                   \/ Fault /\ UNCHANGED row
        BY <2>1 DEF Submit, Write
      <3>2. row[t].status = "NONE" /\ UNCHANGED <<upstream, late, channel>>
        BY <2>1 DEF Submit, World
      <3>3. q \in Nat /\ perCall \in BOOLEAN /\ platform \in {"video", "gemini", "suno"}
        BY TaskAssumption
      <3>4. [status |-> "NOT_START", complete |-> FALSE,
             quota |-> q, perCall |-> perCall, platform |-> platform] \in Row
        BY <3>3 DEF Row, Status
      <3>5. row' \in [Task -> Row] /\ RowsKept
        BY <1>0, <3>1, <3>2, <3>4, RowsSame, RowsWritten
      <3>6. charge' \in [Task -> [funding: Int, token: Int]]
        BY <1>0, <3>1, <3>3, TaskAssumption DEF TypeOK
      <3>7. FaultsGrow
        BY <1>0, <3>1, FaultGrows
      <3> QED
        BY <1>0, <1>1, <3>2, <3>5, <3>6, <3>7 DEF TypeOK, FaultsGrow
    <2>2. ASSUME NEW t \in Task, UpstreamEnds(t)
          PROVE  TypeOK' /\ RowsKept
      BY <1>0, <2>2, RowsSame DEF UpstreamEnds, TypeOK
    <2>3. ASSUME NEW t \in Task, TimesOut(t)
          PROVE  TypeOK' /\ RowsKept
      BY <1>0, <2>3, RowsSame DEF TimesOut, TypeOK
    <2>4. CASE DeleteChannel \/ UNCHANGED vars
      BY <1>0, <2>4, RowsSame DEF DeleteChannel, TypeOK, vars
    <2> QED
      BY <2>1, <2>2, <2>3, <2>4
  <1> QED
    BY <1>2, <1>3, IInvKept

\* tryRealtimeFetch writes rows of Gemini tasks.
LEMMA QueryInv ==
    ASSUME IInv, NEW c \in Client, AnswerQuery(c) \/ \E t \in Task : QueryTask(c, t)
    PROVE  IInv'
  <1>0. TypeOK /\ SleepersIdle
    BY DEF IInv
  <1>1. UNCHANGED <<upstream, late, channel, crashes, loop, job, charge>>
    BY DEF AnswerQuery, QueryTask, World
  <1>2. WorksKept /\ SleepersIdle' /\ JobsKept
    BY <1>0, <1>1 DEF WorksKept, Works, SleepersIdle, JobsKept
  <1>3. CASE AnswerQuery(c)
    <2> DEFINE t == query[c].task
               done == [NoQuery EXCEPT !.step = "done"]
    <2>1. /\ query[c].step = "update" /\ query' = [query EXCEPT ![c] = done]
          /\ row' = row \/ row' = [row EXCEPT ![t] = SetStatus(row[t], query[c].status)]
          /\ Fault \/ UNCHANGED faults
      BY <1>3 DEF AnswerQuery, Write
    <2>2. done \in Query /\ done.step = "done"
      BY IdleValues
    <2>3. t \in Task /\ query[c].status \in Status
      BY <1>0 DEF TypeOK, Query
    <2>4. row[t] \in Row
      BY <1>0, <2>3 DEF TypeOK
    <2>5. row' \in [Task -> Row] /\ RowsKept
      BY <1>0, <2>1, <2>3, <2>4, SetStatusIs, RowsSame, RowsWritten
    <2> HIDE DEF t, done
    <2>6. TypeOK'
      BY <1>0, <1>1, <2>1, <2>2, <2>5, FaultGrows DEF TypeOK, FaultsGrow
    <2>7. QueriesKept
      BY <1>0, <2>1, <2>2 DEF QueriesKept, TypeOK
    <2> QED
      BY <1>2, <2>5, <2>6, <2>7, IInvKept
  <1>4. ASSUME NEW t \in Task, QueryTask(c, t)
        PROVE  IInv'
    <2> DEFINE new == [step |-> "update", task |-> t, from |-> row[t].status,
                       status |-> upstream[t]]
    <2>1. /\ row[t].platform = "gemini" /\ row[t].status # "NONE"
          /\ query' = [query EXCEPT ![c] = new] /\ UNCHANGED <<row, faults>>
      BY <1>4 DEF QueryTask
    <2>2. new \in Query
      BY <1>0, <2>1 DEF TypeOK, Row, Query, Status
    <2>3. TypeOK' /\ RowsKept
      BY <1>0, <1>1, <2>1, <2>2, RowsSame DEF TypeOK
    <2>4. QueriesKept
      BY <1>0, <2>1 DEF QueriesKept, TypeOK
    <2> QED
      BY <1>2, <2>3, <2>4, IInvKept
  <1> QED
    BY <1>3, <1>4

\* The invariant is inductive.
LEMMA Invariance ==
    /\ Init => IInv
    /\ IInv /\ [Next]_vars => IInv'
  <1>1. ASSUME Init
        PROVE  IInv
    <2>1. TypeOK
      BY <1>1, IdleValues, TaskAssumption DEF Init, TypeOK, Loop
    <2>2. /\ \A p \in Poller : loop[p].todo = {} /\ job[p].step = "none"
          /\ \A c \in Client : query[c].step = "none"
      BY <1>1, IdleValues DEF Init, NoQuery
    <2> QED
      BY <2>1, <2>2 DEF IInv, CopiesFit, Works, SleepersIdle, WritersFit
  <1> QED
    BY <1>1, PollInv, EnvironmentInv, QueryInv DEF Next

\* Every variable keeps its type, whatever the pollers, clients and faults do.
THEOREM TypeCorrect == Spec => []TypeOK
  <1>1. IInv => TypeOK
    BY DEF IInv
  <1> QED
    BY <1>1, Invariance, PTL DEF Spec

\* No step writes the row of a guarded task that has ended: a compare-and-swap finds
\* another status than that of its copy, and the other writers are kept off.
LEMMA EndedStays ==
    ASSUME IInv, Next, NEW t \in Task, Guarded(t), row[t].status \in Terminal
    PROVE  row'[t] = row[t]
  <1>1. row \in [Task -> Row] /\ row[t].platform = "video" /\ channel /\ row[t].status # "NONE"
    BY DEF IInv, TypeOK, Guarded, Terminal
  <1> SUFFICES ASSUME row' # row
               PROVE  \E u \in Task \ {t}, new \in Row : row' = [row EXCEPT ![u] = new]
    BY <1>1
  <1>2. ASSUME NEW p \in Poller, Poll(p) \/ Crash(p) \/ \E q \in Task : Answer(p, q)
        PROVE  \E u \in Task \ {t}, new \in Row : row' = [row EXCEPT ![u] = new]
    <2>1. CASE UpdateVideo(p)
      <3>1. job[p].task \in Task
        BY DEF IInv, TypeOK, Job
      <3>2. Won(p, job[p].task)
        BY <2>1, UpdateDoes
      <3> DEFINE u == job[p].task
      <3>3. PICK new \in Row :
                row' = [row EXCEPT ![u] = new] /\ row[u].status \notin Terminal
        BY <3>2 DEF Won
      <3>4. u \in Task \ {t}
        BY <3>1, <3>3
      <3> HIDE DEF u
      <3> QED
        BY <3>3, <3>4
    <2>2. CASE SaveSuno(p)
      <3>1. row[job[p].task].platform = "suno"
        BY <2>2, SaveDoes DEF IInv, WritersFit
      <3> DEFINE u == job[p].task
      <3>2. u \in Task \ {t} /\ \E new \in Row : row' = [row EXCEPT ![u] = new]
        BY <1>1, <2>2, <3>1, SaveDoes
      <3> HIDE DEF u
      <3> QED
        BY <3>2
    <2>3. ASSUME NEW u \in Task, SweepTask(p, u)
          PROVE  \E v \in Task \ {t}, new \in Row : row' = [row EXCEPT ![v] = new]
      BY <2>3, SweepDoes DEF Won
    <2>4. ASSUME NEW u \in Task
          PROVE  ~BulkFail(p, u)
      BY <1>1 DEF BulkFail
    <2> QED
      BY <1>2, <2>1, <2>2, <2>3, <2>4
      DEF Poll, PollTask, Answer, Crash, StartSweep, ListTasks, EndPoll, AdjustFunding,
          AdjustToken, AskUpstream, FetchFails, FetchVideo, FetchSuno
  <1>3. ASSUME NEW u \in Task, Submit(u)
        PROVE  \E v \in Task \ {t}, new \in Row : row' = [row EXCEPT ![v] = new]
    <2>1. row[u].status = "NONE"
      BY <1>3 DEF Submit
    <2>2. PICK q \in Quotas, perCall \in PerCalls, platform \in Platforms :
              row' = [row EXCEPT ![u] = [status |-> "NOT_START", complete |-> FALSE,
                          quota |-> q, perCall |-> perCall, platform |-> platform]]
      BY <1>3 DEF Submit, Write
    <2>3. q \in Nat /\ perCall \in BOOLEAN /\ platform \in {"video", "gemini", "suno"}
      BY TaskAssumption
    <2>4. [status |-> "NOT_START", complete |-> FALSE,
           quota |-> q, perCall |-> perCall, platform |-> platform] \in Row
      BY <2>3 DEF Row, Status
    <2> QED
      BY <1>1, <2>1, <2>2, <2>4
  <1>4. ASSUME NEW c \in Client, AnswerQuery(c)
        PROVE  \E u \in Task \ {t}, new \in Row : row' = [row EXCEPT ![u] = new]
    <2>1. /\ query[c].step = "update" /\ query[c].task \in Task /\ query[c].status \in Status
          /\ row' = [row EXCEPT ![query[c].task] = SetStatus(row[query[c].task], query[c].status)]
      BY <1>4 DEF AnswerQuery, Write, IInv, TypeOK, Query
    <2>2. row[query[c].task].platform = "gemini"
      BY <2>1 DEF IInv, WritersFit
    <2> QED
      BY <1>1, <2>1, <2>2, SetStatusIs
  <1> QED
    BY <1>2, <1>3, <1>4 DEF Next, UpstreamEnds, TimesOut, DeleteChannel, QueryTask

\* A guarded task that has ended never changes again, with any number of pollers, stale
\* copies, faults and crashes: UpdateWithStatus is guard enough for these tasks.
THEOREM TerminalFinal == Spec => TerminalIsFinal
  <1>1. IInv /\ [Next]_vars
          => [\A t \in Task : Guarded(t) /\ row[t].status \in Terminal => row'[t] = row[t]]_vars
    BY EndedStays
  <1> QED
    BY <1>1, Invariance, PTL DEF Spec, TerminalIsFinal

---------------------------------------------------------------------------
\* What guarded tasks pay, if every submission was settled.

\* The step neither writes nor bills task t.
Quiet(t) ==
    /\ row'[t] = row[t] /\ charge'[t] = charge[t] /\ (channel' => channel)
    /\ \A p \in Poller : Bills(p, t)' => Bills(p, t) /\ job'[p] = job[p]
    /\ faults' = 0 /\ crashes' = 0 =>
          /\ faults = 0 /\ crashes = 0
          /\ \A p \in Poller : Bills(p, t) => job'[p] = job[p]

\* Such a step keeps what holds of the task.
LEMMA QuietKeeps ==
    ASSUME NEW t \in Task, TaskFits(t), Quiet(t)
    PROVE  TaskFits(t)'
  <1> SUFFICES ASSUME (Guarded(t) /\ row[t].status # "NONE")'
               PROVE  (BillFits(t) /\ Paid(t) /\ Refunded(t))'
    BY DEF TaskFits
  <1>1. BillFits(t) /\ Paid(t) /\ Refunded(t)
    BY DEF TaskFits, Guarded, Quiet
  <1>2. BillFits(t)'
    BY <1>1 DEF BillFits, Quiet
  <1>3. Paid(t)'
    BY <1>1 DEF Paid, Quiet
  <1>4. Refunded(t)'
    BY <1>1 DEF Refunded, Quiet, Bills
  <1> QED
    BY <1>2, <1>3, <1>4

\* The invariant is the one the runs check.
LEMMA BInvGives == BInv => PaidByOutcome /\ FailedTasksRefunded
  <1> SUFFICES ASSUME BInv
               PROVE  PaidByOutcome /\ FailedTasksRefunded
    OBVIOUS
  <1>1. ASSUME NEW t \in Task, Guarded(t), row[t].status # "NONE"
        PROVE  BillFits(t) /\ Paid(t) /\ Refunded(t)
    BY <1>1 DEF BInv, TaskFits
  <1>2. PaidByOutcome
    <2> SUFFICES ASSUME NEW t \in Task, Guarded(t), row[t].status # "NONE"
                 PROVE  /\ charge[t].funding \in
                              CASE row[t].status = "FAILURE" -> {row[t].quota, 0}
                                [] row[t].status = "SUCCESS" -> {row[t].quota} \cup (ActualQuotas \ {0})
                                [] OTHER                     -> {row[t].quota}
                        /\ charge[t].token \in {row[t].quota, charge[t].funding}
      BY DEF PaidByOutcome
    <2> QED
      BY <1>1 DEF Paid, Terminal
  <1>3. FailedTasksRefunded
    <2> SUFFICES ASSUME faults = 0, crashes = 0, NEW t \in Task, Guarded(t),
                        row[t].status = "FAILURE", Unbilled(t)
                 PROVE  charge[t].funding = 0
      BY DEF FailedTasksRefunded
    <2> QED
      BY <1>1 DEF Refunded, Unbilled, Bills
  <1> QED
    BY <1>2, <1>3

\* The compare-and-swap that ends or moves a task starts its only bill.
LEMMA WonBills ==
    ASSUME BInv, IInv', NEW p \in Poller, NEW t \in Task, Won(p, t),
           job[p].step \notin {"funding", "token"}, UNCHANGED <<charge, channel, crashes>>
    PROVE  \A u \in Task : TaskFits(u)'
  <1>1. PICK new \in Row, j \in Job :
            /\ row[t].status \notin Terminal \cup {"NONE"}
            /\ row' = [row EXCEPT ![t] = new] /\ Kept(row[t], new)
            /\ job' = [job EXCEPT ![p] = j] /\ Bill(t, new, j) /\ UNCHANGED faults
    BY DEF Won
  <1>2. /\ row \in [Task -> Row] /\ job \in [Poller -> Job] /\ row[t].quota \in Nat
        /\ charge \in [Task -> [funding: Int, token: Int]]
    BY DEF BInv, IInv, TypeOK, Row
  <1>3. row'[t] = new /\ (\A u \in Task \ {t} : row'[u] = row[u])
    BY <1>1, <1>2
  <1>4. job'[p] = j /\ (\A q \in Poller \ {p} : job'[q] = job[q])
    BY <1>1, <1>2
  <1>5. ASSUME NEW u \in Task \ {t}
        PROVE  TaskFits(u)'
    <2>1. Quiet(u)
      BY <1>1, <1>3, <1>4 DEF Quiet, Bills, Bill
    <2> QED
      BY <2>1, QuietKeeps DEF BInv
  <1>6. ASSUME Guarded(t)'
        PROVE  (BillFits(t) /\ Paid(t) /\ Refunded(t))'
    <2>1. BillFits(t) /\ Paid(t)
      BY <1>1, <1>3, <1>6 DEF BInv, TaskFits, Guarded, Kept
    <2>2. \A q \in Poller : ~Bills(q, t)
      BY <1>1, <2>1 DEF BillFits
    <2>3. charge[t].funding = new.quota /\ charge[t].token = new.quota
      BY <1>1, <2>1 DEF Paid, Kept
    <2>4. \A q \in Poller : Bills(q, t)' => q = p /\ j.step = "funding"
      BY <1>1, <1>4, <2>2 DEF Bills, Bill
    <2>5. BillFits(t)'
      BY <1>1, <1>3, <1>4, <2>3, <2>4 DEF BillFits, Bill
    <2>6. Paid(t)'
      BY <1>3, <2>3 DEF Paid
    <2>7. Refunded(t)'
      BY <1>1, <1>3, <1>4, <2>3 DEF Refunded, Bill, Bills
    <2> QED
      BY <2>5, <2>6, <2>7
  <1> QED
    BY <1>5, <1>6 DEF TaskFits

\* taskAdjustFunding and taskAdjustTokenQuota carry the bill out, or end it.
LEMMA BillingBills ==
    ASSUME BInv, IInv', NEW p \in Poller, AdjustFunding(p) \/ AdjustToken(p)
    PROVE  \A u \in Task : TaskFits(u)'
  <1>0. PICK t \in Task : t = job[p].task
    BY DEF BInv, IInv, TypeOK, Job
  <1>1. /\ IInv /\ job \in [Poller -> Job] /\ Bills(p, t)
        /\ UNCHANGED <<row, channel, crashes>>
        /\ \A u \in Task \ {t} : charge'[u] = charge[u]
    BY <1>0, FundingDoes, TokenDoes DEF BInv, IInv, TypeOK, Bills
  <1>2. faults' >= faults /\ faults \in Nat /\ row[t].quota \in Nat /\ job[p].delta \in Int
    BY <1>1, FundingDoes, TokenDoes, TaskAssumption DEF FaultsGrow, IInv, TypeOK, Row, Job
  <1>3. \A q \in Poller \ {p} : job'[q] = job[q]
    BY <1>1, FundingDoes, TokenDoes DEF Done
  <1>4. /\ job'[p].step \in {"none", "save", "token"}
        /\ job'[p].step = "token" =>
              /\ job[p].step = "funding" /\ job'[p].task = t /\ job'[p].delta = job[p].delta
              /\ charge'[t].funding = charge[t].funding + job[p].delta
              /\ charge'[t].token = charge[t].token
        /\ job'[p].step # "token" =>
              /\ charge'[t].funding = charge[t].funding
              /\ charge'[t].token \in {charge[t].token, charge[t].token + job[p].delta}
              /\ job[p].step = "funding" =>
                    charge'[t] = charge[t] /\ (faults' > 0 \/ job[p].delta > 0)
    <2>1. CASE AdjustFunding(p)
      BY <1>0, <1>1, <1>2, <2>1, FundingDoes DEF Done
    <2>2. CASE AdjustToken(p)
      BY <1>0, <1>1, <2>2, TokenDoes DEF Done
    <2> QED
      BY <2>1, <2>2
  <1>5. ASSUME NEW u \in Task \ {t}
        PROVE  TaskFits(u)'
    <2>1. \A q \in Poller : Bills(q, u)' => Bills(q, u) /\ job'[q] = job[q]
      BY <1>3, <1>4 DEF Bills
    <2>2. \A q \in Poller : Bills(q, u) => job'[q] = job[q]
      BY <1>0, <1>3 DEF Bills
    <2>3. Quiet(u)
      BY <1>1, <1>2, <2>1, <2>2 DEF Quiet
    <2> QED
      BY <2>3, QuietKeeps DEF BInv
  <1>6. ASSUME Guarded(t)', row'[t].status # "NONE"
        PROVE  (BillFits(t) /\ Paid(t) /\ Refunded(t))'
    <2>1. BillFits(t) /\ Paid(t) /\ Refunded(t)
      BY <1>1, <1>6 DEF BInv, TaskFits, Guarded
    <2>2. \A q \in Poller : Bills(q, t)' => q = p /\ job'[p].step = "token"
      BY <1>1, <1>3, <1>4, <2>1 DEF BillFits, Bills
    <2>3. /\ row[t].status \in Terminal
          /\ row[t].status = "FAILURE" => row[t].quota + job[p].delta = 0
          /\ row[t].status = "SUCCESS" => row[t].quota + job[p].delta \in ActualQuotas \ {0}
          /\ charge[t].token = row[t].quota
          /\ job[p].step = "funding" => charge[t].funding = row[t].quota
          /\ job[p].step = "token" => charge[t].funding = row[t].quota + job[p].delta
      BY <1>1, <2>1 DEF BillFits, Bills
    <2>4. BillFits(t)'
      BY <1>1, <1>4, <2>2, <2>3 DEF BillFits
    <2>5. job[p].step \in {"funding", "token"}
      BY <1>1 DEF Bills
    <2>6. Paid(t)'
      BY <1>1, <1>2, <1>4, <2>1, <2>3, <2>5 DEF Paid, Terminal
    <2>7. Refunded(t)'
      BY <1>1, <1>2, <1>4, <2>3, <2>5 DEF Refunded
    <2> QED
      BY <2>4, <2>6, <2>7
  <1> QED
    BY <1>5, <1>6 DEF TaskFits

\* Every action of a poller keeps what holds of the guarded tasks.
LEMMA PollBills ==
    ASSUME BInv, IInv', NEW p \in Poller, Poll(p) \/ Crash(p) \/ \E t \in Task : Answer(p, t)
    PROVE  \A u \in Task : TaskFits(u)'
  <1>0. /\ IInv /\ row \in [Task -> Row] /\ job \in [Poller -> Job] /\ faults \in Nat /\ crashes \in Nat
        /\ NoJob.step = "none"
    BY IdleValues, TaskAssumption DEF BInv, IInv, TypeOK
  <1>1. CASE UpdateVideo(p)
    <2>1. /\ job[p].step = "update" /\ job[p].task \in Task
          /\ UNCHANGED <<charge, channel, crashes>> /\ faults' >= faults
      BY <1>0, <1>1, UpdateDoes DEF Job, FaultsGrow
    <2>2. CASE Won(p, job[p].task)
      BY <2>1, <2>2, WonBills
    <2>3. CASE row' = row /\ job' = [job EXCEPT ![p] = NoJob]
      BY <1>0, <2>1, <2>3, QuietKeeps DEF Quiet, Bills, BInv
    <2> QED
      BY <1>0, <1>1, <2>2, <2>3, UpdateDoes
  <1>2. CASE SaveSuno(p)
    <2>0. PICK t \in Task : t = job[p].task
      BY <1>0, <1>2, SaveDoes
    <2>1. /\ job[p].step = "save" /\ job' = [job EXCEPT ![p] = NoJob]
          /\ UNCHANGED <<charge, channel, crashes>> /\ faults' >= faults
      BY <1>0, <1>2, SaveDoes DEF FaultsGrow
    <2>2. row[t].platform = "suno"
      BY <1>0, <2>0, <2>1 DEF IInv, WritersFit
    <2>3. row'[t].platform = "suno" /\ \A u \in Task \ {t} : row'[u] = row[u]
      BY <1>0, <1>2, <2>0, <2>2, SaveDoes DEF Kept
    <2>4. \A u \in Task \ {t} : Quiet(u)
      BY <1>0, <2>1, <2>3 DEF Quiet, Bills
    <2>5. TaskFits(t)'
      BY <2>3 DEF TaskFits, Guarded
    <2> QED
      BY <2>4, <2>5, QuietKeeps DEF BInv
  <1>3. ASSUME NEW t \in Task, SweepTask(p, t)
        PROVE  \A u \in Task : TaskFits(u)'
    <2>1. /\ job[p].step = "none" /\ UNCHANGED <<charge, channel, crashes>> /\ faults' >= faults
      BY <1>0, <1>3, SweepDoes DEF FaultsGrow
    <2>2. CASE Won(p, t)
      BY <2>1, <2>2, WonBills
    <2>3. CASE row' = row /\ job' = job
      BY <1>0, <2>1, <2>3, QuietKeeps DEF Quiet, Bills, BInv
    <2> QED
      BY <1>0, <1>3, <2>2, <2>3, SweepDoes
  <1>4. ASSUME NEW t \in Task, BulkFail(p, t)
        PROVE  \A u \in Task : TaskFits(u)'
    BY <1>4 DEF BulkFail, World, TaskFits, Guarded
  <1>5. ASSUME NEW t \in Task, FetchVideo(p, t) \/ FetchSuno(p, t)
        PROVE  \A u \in Task : TaskFits(u)'
    <2>1. PICK j \in Job :
              /\ job' = [job EXCEPT ![p] = j] /\ j.task = t
              /\ j.step = "update" \/ row[t].platform = "suno"
      <3>1. CASE FetchVideo(p, t)
        BY <1>0, <3>1, FetchVideoDoes
      <3>2. CASE FetchSuno(p, t)
        <4>1. IInv
          BY <1>0
        <4>2. /\ row[t].platform = "suno"
              /\ SunoJob(p, t)
          BY <4>1, <3>2, FetchSunoDoes
        <4> QED
          BY <4>2 DEF SunoJob
      <3> QED
        BY <1>5, <3>1, <3>2
    <2>2. job[p].step = "fetch" /\ UNCHANGED <<row, charge, channel, crashes, faults>>
      BY <1>5 DEF FetchVideo, FetchSuno, Asked, World
    <2>3. ASSUME NEW u \in Task, u # t \/ j.step = "update"
          PROVE  Quiet(u)
      BY <1>0, <2>1, <2>2, <2>3 DEF Quiet, Bills
    <2>4. row[t].platform = "suno" => TaskFits(t)'
      BY <2>2 DEF TaskFits, Guarded
    <2> QED
      BY <2>1, <2>3, <2>4, QuietKeeps DEF BInv
  <1>6. CASE Crash(p)
    <2>1. UNCHANGED <<row, charge, channel, faults>> /\ crashes' > 0 /\ job' = [job EXCEPT ![p] = NoJob]
      BY <1>0, <1>6 DEF Crash, Finish
    <2> QED
      BY <1>0, <2>1, QuietKeeps DEF Quiet, Bills, BInv
  <1>7. ASSUME UNCHANGED <<row, job, charge, channel, faults, crashes>>
        PROVE  \A u \in Task : TaskFits(u)'
    BY <1>7, QuietKeeps DEF Quiet, Bills, BInv
  <1>8. ASSUME NEW t \in Task, AskUpstream(p, t) \/ FetchFails(p, t)
        PROVE  \A u \in Task : TaskFits(u)'
    <2>1. PICK j \in Job : job' = [job EXCEPT ![p] = j] /\ j.step \in {"none", "fetch"}
      BY <1>0, <1>8, AskDoes, FetchFailsDoes, IdleValues
    <2>2. job[p].step \in {"none", "fetch"} /\ UNCHANGED <<row, charge, channel, crashes, faults>>
      BY <1>0, <1>8, AskDoes, FetchFailsDoes
    <2> QED
      BY <1>0, <2>1, <2>2, QuietKeeps DEF Quiet, Bills, BInv
  <1> QED
    BY <1>1, <1>2, <1>3, <1>4, <1>5, <1>6, <1>7, <1>8, BillingBills
    DEF Poll, PollTask, Answer, StartSweep, ListTasks, EndPoll, World

\* A task is inserted with what it has paid, and nobody bills it yet; the other actions
\* write no guarded task.
LEMMA OthersBill ==
    ASSUME AllSettled, BInv, IInv', 
           \/ \E t \in Task : Submit(t) \/ UpstreamEnds(t) \/ TimesOut(t)
           \/ \E c \in Client : AnswerQuery(c) \/ \E t \in Task : QueryTask(c, t)
           \/ DeleteChannel \/ UNCHANGED vars
    PROVE  \A u \in Task : TaskFits(u)'
  <1>0. IInv /\ row \in [Task -> Row] /\ faults \in Nat /\ crashes \in Nat
        /\ charge \in [Task -> [funding: Int, token: Int]]
    BY TaskAssumption DEF BInv, IInv, TypeOK
  <1>1. UNCHANGED <<job, crashes>> /\ (channel' => channel)
    BY DEF Submit, UpstreamEnds, TimesOut, DeleteChannel, AnswerQuery, QueryTask, World, vars
  <1>2. ASSUME NEW t \in Task, Submit(t)
        PROVE  \A u \in Task : TaskFits(u)'
    <2>1. PICK q \in Quotas, perCall \in PerCalls, platform \in Platforms :
              /\ \E paid \in {q} \cup UnsettledQuotas :
                    charge' = [charge EXCEPT ![t] = [funding |-> paid, token |-> paid]]
              /\ \/ row' = [row EXCEPT ![t] = [status |-> "NOT_START", complete |-> FALSE,
                               quota |-> q, perCall |-> perCall, platform |-> platform]]
                    /\ UNCHANGED faults
                 \/ Fault /\ UNCHANGED row
      BY <1>2 DEF Submit, Write
    <2>2. charge' = [charge EXCEPT ![t] = [funding |-> q, token |-> q]] /\ row[t].status = "NONE"
      BY <1>2, <2>1 DEF AllSettled, Submit
    <2>3. \A u \in Task \ {t} : charge'[u] = charge[u] /\ row'[u] = row[u]
      BY <1>0, <2>1, <2>2
    <2>4. faults' >= faults
      BY <1>0, <2>1 DEF Fault
    <2>5. \A u \in Task \ {t} : Quiet(u)
      BY <1>0, <1>1, <2>3, <2>4 DEF Quiet, Bills
    <2>6. \A p \in Poller : ~Bills(p, t)'
      BY <1>0, <1>1, <2>2 DEF IInv, CopiesFit, Works, Bills
    <2>7. CASE row' = row
      BY <2>2, <2>5, <2>7, QuietKeeps DEF TaskFits, BInv
    <2>8. CASE row' = [row EXCEPT ![t] = [status |-> "NOT_START", complete |-> FALSE,
                           quota |-> q, perCall |-> perCall, platform |-> platform]]
      <3>1. /\ row'[t].status = "NOT_START" /\ row'[t].quota = q
            /\ charge'[t].funding = q /\ charge'[t].token = q
        BY <1>0, <2>2, <2>8
      <3>2. TaskFits(t)'
        BY <2>6, <3>1 DEF TaskFits, BillFits, Paid, Refunded, Terminal
      <3> QED
        BY <2>5, <3>2, QuietKeeps DEF BInv
    <2> QED
      BY <2>1, <2>7, <2>8
  <1>3. ASSUME NEW c \in Client, AnswerQuery(c)
        PROVE  \A u \in Task : TaskFits(u)'
    <2>1. PICK t \in Task : t = query[c].task
      BY <1>0 DEF IInv, TypeOK, Query
    <2>2. /\ query[c].step = "update" /\ query[c].status \in Status /\ charge' = charge
          /\ row' = row \/ row' = [row EXCEPT ![t] = SetStatus(row[t], query[c].status)]
          /\ faults' >= faults
      BY <1>0, <1>3, <2>1 DEF AnswerQuery, Write, World, Fault, IInv, TypeOK, Query
    <2>3. row[t].platform = "gemini" /\ Kept(row[t], SetStatus(row[t], query[c].status))
      BY <1>0, <2>1, <2>2, SetStatusIs DEF IInv, WritersFit
    <2>4. row'[t].platform = "gemini" /\ \A u \in Task \ {t} : row'[u] = row[u]
      BY <1>0, <2>2, <2>3 DEF Kept
    <2>5. \A u \in Task \ {t} : Quiet(u)
      BY <1>0, <1>1, <2>2, <2>4 DEF Quiet, Bills
    <2>6. TaskFits(t)'
      BY <2>4 DEF TaskFits, Guarded
    <2> QED
      BY <2>5, <2>6, QuietKeeps DEF BInv
  <1>4. ASSUME UNCHANGED <<row, charge, faults>>
        PROVE  \A u \in Task : TaskFits(u)'
    BY <1>0, <1>1, <1>4, QuietKeeps DEF Quiet, Bills, BInv
  <1> QED
    BY <1>2, <1>3, <1>4 DEF UpstreamEnds, TimesOut, DeleteChannel, QueryTask, vars

\* The second invariant is inductive.
LEMMA BInvariance ==
    ASSUME AllSettled
    PROVE  /\ Init => BInv
           /\ BInv /\ [Next]_vars => BInv'
  <1>1. ASSUME Init
        PROVE  BInv
    <2>1. \A t \in Task : row[t].status = "NONE"
      BY <1>1, IdleValues DEF Init
    <2> QED
      BY <1>1, <2>1, Invariance DEF BInv, TaskFits
  <1>2. ASSUME BInv, [Next]_vars
        PROVE  BInv'
    <2>1. IInv'
      BY <1>2, Invariance DEF BInv
    <2> QED
      BY <1>2, <2>1, PollBills, OthersBill DEF BInv, Next
  <1> QED
    BY <1>1, <1>2

\* A settled task whose every update is a compare-and-swap is billed at most once and for
\* the outcome its row shows, with any number of pollers, faults and crashes.
THEOREM OutcomePaid == ASSUME AllSettled PROVE Spec => []PaidByOutcome
  BY BInvariance, BInvGives, PTL DEF Spec

\* Without faults and crashes such a task that has failed and is not being billed any more
\* has been refunded.
THEOREM FailureRefunded == ASSUME AllSettled PROVE Spec => []FailedTasksRefunded
  BY BInvariance, BInvGives, PTL DEF Spec

---------------------------------------------------------------------------
\* What is given back with one poller and no clients, if every submission was settled.

\* More faults leave more room, and one more fault a whole quota.
LEMMA Room ==
    ASSUME NEW q \in Nat, NEW n \in Nat, NEW m \in Nat, m >= n
    PROVE  q * n >= 0 /\ q * m >= q * n /\ (m > n => q * m >= q * n + q)
  <1>1. PICK d \in Nat : m = n + d
    BY SMT
  <1>2. q * m = q * n + q * d
    BY <1>1
  <1>3. q * n >= 0 /\ q * d >= 0
    OBVIOUS
  <1>4. d > 0 => q * d >= q
    <2> SUFFICES ASSUME d > 0 PROVE q * d >= q
      OBVIOUS
    <2>1. PICK e \in Nat : d = e + 1
      BY SMT
    <2>2. q * d = q * e + q /\ q * e >= 0
      BY <2>1
    <2> QED
      BY <2>2
  <1> QED
    BY <1>1, <1>2, <1>3, <1>4

\* Faults and crashes are only added.
LEMMA FaultSums ==
    ASSUME TypeOK, TypeOK', faults' >= faults, crashes' >= crashes
    PROVE  /\ faults' + crashes' >= faults + crashes
           /\ faults' = faults + 1 \/ crashes' = crashes + 1 =>
                 faults' + crashes' > faults + crashes
  <1>1. faults \in Nat /\ faults' \in Nat /\ crashes \in Nat /\ crashes' \in Nat
    BY TaskAssumption DEF TypeOK
  <1>2. \A a, b, c, d \in Nat : b >= a /\ d >= c =>
            b + d >= a + c /\ (b = a + 1 \/ d = c + 1 => b + d > a + c)
    OBVIOUS
  <1> QED
    BY <1>1, <1>2, Zenon

\* The margin of a task that is not billed grows with the faults.
LEMMA MarginGrows ==
    ASSUME TypeOK, TypeOK', NEW t \in Task, NEW d \in Int,
           row'[t].quota = row[t].quota, charge'[t].funding = charge[t].funding + d,
           faults' + crashes' >= faults + crashes
    PROVE  /\ Margin(t) \in Int /\ Margin(t)' \in Int /\ row[t].quota \in Nat
           /\ Margin(t)' >= Margin(t) + d
           /\ faults' + crashes' > faults + crashes => Margin(t)' >= Margin(t) + d + row[t].quota
  <1> DEFINE q == row[t].quota
             n == faults + crashes
             m == faults' + crashes'
  <1>1. /\ q \in Nat /\ n \in Nat /\ m \in Nat /\ charge[t].funding \in Int
        /\ charge'[t].funding \in Int
    <2>1. q \in Nat
      BY DEF TypeOK, Row
    <2>2. faults \in Nat /\ crashes \in Nat /\ faults' \in Nat /\ crashes' \in Nat
      BY TaskAssumption DEF TypeOK
    <2>3. charge[t].funding \in Int /\ charge'[t].funding \in Int
      BY DEF TypeOK
    <2>4. n \in Nat /\ m \in Nat
      <3>1. \A a, b \in Nat : a + b \in Nat
        OBVIOUS
      <3> QED
        BY <2>2, <3>1, Zenon
    <2> HIDE DEF q, n, m
    <2> QED
      BY <2>1, <2>3, <2>4
  <1>2. q * n >= 0 /\ q * m >= q * n /\ (m > n => q * m >= q * n + q)
    <2> HIDE DEF q, n, m
    <2>1. m >= n
      BY DEF m, n
    <2> QED
      BY <1>1, <2>1, Room
  <1>3. q * n \in Int /\ q * m \in Int
    BY <1>1
  <1>4. Margin(t) = charge[t].funding + q * n /\ Margin(t)' = charge'[t].funding + q * m
    BY DEF Margin
  <1> HIDE DEF q, n, m
  <1>5. m > n <=> faults' + crashes' > faults + crashes
    BY DEF m, n
  <1> QED
    BY <1>1, <1>2, <1>3, <1>4, <1>5 DEF q

\* In particular, if nothing is charged.
LEMMA MarginStays ==
    ASSUME TypeOK, TypeOK', NEW t \in Task, row'[t].quota = row[t].quota,
           charge'[t].funding = charge[t].funding, faults' + crashes' >= faults + crashes
    PROVE  /\ Margin(t) \in Int /\ Margin(t)' \in Int /\ row[t].quota \in Nat
           /\ Margin(t)' >= Margin(t)
           /\ faults' + crashes' > faults + crashes => Margin(t)' >= Margin(t) + row[t].quota
  <1>1. charge'[t].funding = charge[t].funding + 0
    BY DEF TypeOK
  <1>2. /\ Margin(t) \in Int /\ Margin(t)' \in Int /\ row[t].quota \in Nat
        /\ Margin(t)' >= Margin(t) + 0
        /\ faults' + crashes' > faults + crashes => Margin(t)' >= Margin(t) + 0 + row[t].quota
    BY <1>1, MarginGrows
  <1> QED
    BY <1>2

\* A task that is neither written nor billed keeps its margin.
LEMMA MarginKept ==
    ASSUME TypeOK, TypeOK', NEW u \in Task, MarginLeft(u), row'[u] = row[u],
           charge'[u].funding = charge[u].funding, faults' + crashes' >= faults + crashes,
           \/ faults' + crashes' > faults + crashes
           \/ ~Unfinished(u)
           \/ \A p \in Poller : job[p].step \in {"token", "save"} /\ job[p].task = u =>
                                    job'[p].step \in {"token", "save"} /\ job'[p].task = u
    PROVE  MarginLeft(u)'
  <1>2. /\ Margin(u) \in Int /\ Margin(u)' \in Int /\ row[u].quota \in Nat
        /\ Margin(u)' >= Margin(u)
        /\ faults' + crashes' > faults + crashes => Margin(u)' >= Margin(u) + row[u].quota
    BY MarginStays
  <1>3. Unfinished(u)' <=> Unfinished(u)
    BY DEF Unfinished
  <1>4. Margin(u)' >= 0
    BY <1>2 DEF MarginLeft
  <1>5. ASSUME Unfinished(u), \A p \in Poller : job'[p].step \in {"token", "save"} => job'[p].task # u
        PROVE  Margin(u)' >= row[u].quota
    <2>1. CASE faults' + crashes' > faults + crashes
      BY <1>2, <2>1 DEF MarginLeft
    <2>2. CASE \A p \in Poller : job[p].step \in {"token", "save"} => job[p].task # u
      BY <1>2, <1>5, <2>2 DEF MarginLeft
    <2> QED
      BY <1>5, <2>1, <2>2
  <1> QED
    BY <1>3, <1>4, <1>5 DEF MarginLeft

\* The only poller wins the compare-and-swap of an open task.
LEMMA SoleWon ==
    ASSUME Sole, SInv, IInv', NEW p \in Poller, NEW t \in Task, Won(p, t), Unfinished(t),
           job[p].step \in {"none", "update"}, UNCHANGED <<charge, crashes>>,
           loop'[p].at = loop[p].at, loop'[p].copy = loop[p].copy,
           loop'[p].todo \subseteq loop[p].todo \ {t},
           loop[p].at = "sweep" \/ row[t].platform # "suno"
    PROVE  SInv'
  <1>1. PICK new \in Row, j \in Job :
            /\ row' = [row EXCEPT ![t] = new] /\ Kept(row[t], new)
            /\ job' = [job EXCEPT ![p] = j] /\ Bill(t, new, j) /\ UNCHANGED faults
    BY DEF Won
  <1>2. TypeOK /\ TypeOK' /\ \A q \in Poller : q = p
    BY DEF SInv, IInv, Sole
  <1>3. row'[t] = new /\ (\A u \in Task \ {t} : row'[u] = row[u])
    BY <1>1, <1>2 DEF TypeOK
  <1>4. job'[p] = j
    BY <1>1, <1>2 DEF TypeOK
  <1>5. /\ Margin(t) \in Int /\ Margin(t)' \in Int /\ row[t].quota \in Nat
        /\ Margin(t)' >= Margin(t) /\ faults' + crashes' >= faults + crashes
    <2>1. faults' + crashes' >= faults + crashes
      BY <1>1, <1>2, TaskAssumption DEF TypeOK
    <2>2. row'[t].quota = row[t].quota /\ charge'[t].funding = charge[t].funding
      BY <1>1, <1>3 DEF Kept
    <2> QED
      BY <1>2, <2>1, <2>2, MarginStays
  <1>6. Margin(t)' >= row'[t].quota
    BY <1>1, <1>2, <1>3, <1>5 DEF SInv, MarginLeft, Kept
  <1>7. CopyFresh(p)'
    <2>1. \A u \in loop'[p].todo : Unfinished(u)' /\ row'[u] = loop'[p].copy[u]
      BY <1>2, <1>3 DEF SInv, CopyFresh, Unfinished, TypeOK
    <2>2. ~(j.step # "none" /\ BillsFirst(p)')
      BY <1>1, <1>3, <1>4 DEF BillsFirst, Bill, Kept
    <2> QED
      BY <1>1, <1>3, <1>4, <2>1, <2>2 DEF CopyFresh, Bill
  <1>8. BillCovered(p)'
    <2>1. ASSUME j.step = "funding"
          PROVE  Margin(t)' + j.delta >= 0 /\ ~BillsFirst(p)'
      <3>1. j.delta \in Int /\ new.quota \in Nat /\ new.quota + j.delta >= 0
        <4>1. j.delta \in Int /\ new.quota \in Nat
          BY DEF Job, Row
        <4>2. new.quota + j.delta = 0 \/ new.quota + j.delta \in ActualQuotas
          BY <1>1, <2>1 DEF Bill, Terminal
        <4> QED
          BY <4>1, <4>2, TaskAssumption
      <3>2. ~BillsFirst(p)'
        BY <1>1, <1>3, <1>4, <2>1 DEF BillsFirst, Bill, Kept
      <3> QED
        BY <1>3, <1>5, <1>6, <3>1, <3>2
    <2> QED
      BY <1>1, <1>4, <2>1 DEF BillCovered, Bill
  <1>9. ASSUME NEW u \in Task
        PROVE  MarginLeft(u)'
    <2>1. CASE u = t
      BY <1>1, <1>3, <1>5, <1>6, <2>1 DEF MarginLeft, Kept
    <2>2. CASE u # t
      <3>1. MarginLeft(u) /\ row'[u] = row[u] /\ charge'[u].funding = charge[u].funding
        BY <1>3, <2>2 DEF SInv
      <3>2. \A q \in Poller : job[q].step \notin {"token", "save"}
        BY <1>2
      <3> QED
        BY <1>2, <1>5, <3>1, <3>2, MarginKept
    <2> QED
      BY <2>1, <2>2
  <1> QED
    BY <1>2, <1>7, <1>8, <1>9 DEF SInv

\* A task is fetched: the row is to be updated, or a Suno task refunded and saved.
LEMMA SoleFetch ==
    ASSUME Sole, SInv, IInv', NEW p \in Poller, NEW t \in Task,
           FetchVideo(p, t) \/ FetchSuno(p, t)
    PROVE  SInv'
  <1>1. IInv /\ TypeOK /\ TypeOK' /\ (\A q \in Poller : q = p) /\ CopyFresh(p) /\ MarginLeft(t)
    BY DEF SInv, IInv, Sole
  <1>2. PICK j \in Job :
            /\ job' = [job EXCEPT ![p] = j] /\ j.task = t /\ j.step \in {"update", "funding", "save"}
            /\ j.step = "funding" =>
                  j.complete = TRUE /\ row[t].quota + j.delta = 0 /\ row[t].platform = "suno"
    <2>1. CASE FetchVideo(p, t)
      BY <1>1, <2>1, FetchVideoDoes
    <2>2. CASE FetchSuno(p, t)
      <3>1. /\ row[t].platform = "suno"
            /\ SunoJob(p, t)
        <4>1. IInv
          BY <1>1
        <4> QED
          BY <2>2, <4>1, FetchSunoDoes
      <3> QED
        BY <3>1 DEF SunoJob
    <2> QED
      BY <2>1, <2>2
  <1>3. /\ loop[p].at = "poll" /\ job[p].step = "fetch" /\ t \in loop[p].todo
        /\ loop' = [loop EXCEPT ![p].todo = @ \ {t}]
        /\ UNCHANGED <<row, charge, crashes, faults>>
    BY DEF FetchVideo, FetchSuno, Asked, Leave, World
  <1>4. /\ loop'[p].at = "poll" /\ loop'[p].copy = loop[p].copy
        /\ loop'[p].todo = loop[p].todo \ {t} /\ job'[p] = j
    BY <1>1, <1>2, <1>3 DEF TypeOK
  <1>5. Unfinished(t) /\ row[t] = loop[p].copy[t]
    BY <1>1, <1>3 DEF CopyFresh
  <1>6. /\ faults' + crashes' >= faults + crashes /\ Margin(t)' = Margin(t)
        /\ Margin(t) \in Int /\ row[t].quota \in Nat /\ j.delta \in Int
    <2>1. faults' + crashes' >= faults + crashes
      BY <1>1, <1>3, TaskAssumption DEF TypeOK
    <2>2. Margin(t)' = Margin(t)
      BY <1>3 DEF Margin
    <2> QED
      BY <1>1, <1>3, <2>1, <2>2, MarginStays DEF Job
  <1>7. Margin(t) >= row[t].quota
    BY <1>1, <1>3, <1>5 DEF MarginLeft
  <1>8. CopyFresh(p)'
    BY <1>1, <1>2, <1>3, <1>4, <1>5 DEF CopyFresh, Unfinished, BillsFirst
  <1>9. BillCovered(p)'
    <2>1. j.step = "funding" => Margin(t)' + j.delta >= 0
      BY <1>2, <1>6, <1>7
    <2> QED
      BY <1>2, <1>3, <1>4, <1>6, <1>7, <2>1 DEF BillCovered
  <1>10. ASSUME NEW u \in Task
         PROVE  MarginLeft(u)'
    <2>1. MarginLeft(u) /\ row'[u] = row[u] /\ charge'[u].funding = charge[u].funding
      BY <1>3 DEF SInv
    <2>2. \A q \in Poller : job[q].step \notin {"token", "save"}
      BY <1>1, <1>3
    <2> QED
      BY <1>1, <1>6, <2>1, <2>2, MarginKept
  <1> QED
    BY <1>1, <1>8, <1>9, <1>10 DEF SInv

\* The row of a Suno task is saved, or the fault is counted.
LEMMA SoleSave ==
    ASSUME Sole, SInv, IInv', NEW p \in Poller, SaveSuno(p)
    PROVE  SInv'
  <1>1. /\ IInv /\ TypeOK /\ TypeOK' /\ (\A q \in Poller : q = p)
        /\ CopyFresh(p) /\ BillCovered(p)
    BY DEF SInv, IInv, Sole
  <1>2. PICK t \in Task : t = job[p].task
    BY <1>1, SaveDoes
  <1>3. /\ job[p].step = "save" /\ job' = [job EXCEPT ![p] = NoJob]
        /\ UNCHANGED <<loop, charge, crashes>> /\ faults' >= faults
        /\ \/ \E new \in Row : /\ row' = [row EXCEPT ![t] = new] /\ Kept(row[t], new)
                               /\ new.complete = job[p].complete
           \/ row' = row /\ faults' = faults + 1
    BY <1>1, <1>2, SaveDoes DEF FaultsGrow
  <1>4. job'[p].step = "none"
    BY <1>1, <1>3, IdleValues DEF TypeOK
  <1>5. \A u \in Task \ {t} : row'[u] = row[u]
    BY <1>1, <1>3 DEF TypeOK
  <1>6. /\ faults' + crashes' >= faults + crashes
        /\ faults' = faults + 1 => faults' + crashes' > faults + crashes
    <2>1. crashes' >= crashes
      BY <1>1, <1>3, TaskAssumption DEF TypeOK
    <2> QED
      BY <1>1, <1>3, <2>1, FaultSums
  <1>7. BillCovered(p)' /\ CopyFresh(p)'
    <2>1. \A u \in loop[p].todo : u \in Task \ {t} /\ Unfinished(u)' /\ row'[u] = loop[p].copy[u]
      BY <1>1, <1>2, <1>3, <1>5 DEF CopyFresh, Unfinished, TypeOK
    <2> QED
      BY <1>3, <1>4, <2>1 DEF BillCovered, CopyFresh
  <1>8. ASSUME NEW u \in Task \ {t}
        PROVE  MarginLeft(u)'
    <2>1. MarginLeft(u) /\ row'[u] = row[u] /\ charge'[u].funding = charge[u].funding
      BY <1>3, <1>5 DEF SInv
    <2>2. \A q \in Poller : job[q].task # u
      BY <1>1, <1>2
    <2> QED
      BY <1>1, <1>6, <2>1, <2>2, MarginKept
  <1>9. MarginLeft(t)'
    <2>1. MarginLeft(t) /\ charge'[t].funding = charge[t].funding
      BY <1>3 DEF SInv
    <2>2. CASE row' = row /\ faults' = faults + 1
      BY <1>1, <1>6, <2>1, <2>2, MarginKept
    <2>3. CASE \E new \in Row : /\ row' = [row EXCEPT ![t] = new] /\ Kept(row[t], new)
                                /\ new.complete = job[p].complete
      <3>1. row'[t].quota = row[t].quota /\ row'[t].complete = job[p].complete
        BY <1>1, <2>3 DEF TypeOK, Kept
      <3>2. /\ Margin(t) \in Int /\ Margin(t)' \in Int /\ row[t].quota \in Nat
            /\ Margin(t)' >= Margin(t)
        BY <1>1, <1>6, <2>1, <3>1, MarginStays
      <3>3. Unfinished(t)' => Margin(t) >= row[t].quota
        <4>1. job[p].complete \in BOOLEAN
          BY <1>1 DEF TypeOK, Job
        <4>2. Unfinished(t)' => job[p].complete = FALSE
          BY <3>1, <4>1 DEF Unfinished
        <4> QED
          BY <1>1, <1>2, <1>3, <4>2 DEF BillCovered
      <3> QED
        BY <2>1, <3>1, <3>2, <3>3 DEF MarginLeft
    <2> QED
      BY <1>3, <2>2, <2>3
  <1> QED
    BY <1>1, <1>7, <1>8, <1>9 DEF SInv

\* A bill is carried out, which the margin covers, or ends.
LEMMA SoleBilling ==
    ASSUME Sole, SInv, IInv', NEW p \in Poller, AdjustFunding(p) \/ AdjustToken(p)
    PROVE  SInv'
  <1>1. /\ IInv /\ TypeOK /\ TypeOK' /\ (\A q \in Poller : q = p)
        /\ CopyFresh(p) /\ BillCovered(p)
    BY DEF SInv, IInv, Sole
  <1>2. PICK t \in Task : t = job[p].task
    BY <1>1 DEF TypeOK, Job
  <1>3. /\ job[p].step \in {"funding", "token"} /\ UNCHANGED <<row, loop, crashes>>
        /\ \A u \in Task \ {t} : charge'[u] = charge[u]
    BY <1>1, <1>2, FundingDoes, TokenDoes
  <1>4. faults' >= faults /\ crashes' >= crashes
    BY <1>1, <1>3, FundingDoes, TokenDoes, TaskAssumption DEF FaultsGrow, TypeOK
  <1>5. /\ faults' + crashes' >= faults + crashes
        /\ faults' = faults + 1 => faults' + crashes' > faults + crashes
    BY <1>1, <1>4, FaultSums
  <1>6. \/ /\ job[p].step = "funding" /\ job'[p].step = "token" /\ job'[p].task = t
           /\ job'[p].complete = job[p].complete
           /\ charge'[t].funding = charge[t].funding + job[p].delta
        \/ /\ charge'[t].funding = charge[t].funding
           /\ \/ job'[p].step = "none" /\ ~BillsFirst(p)
              \/ /\ job'[p].step = "save" /\ job'[p].task = t
                 /\ job'[p].complete = job[p].complete /\ BillsFirst(p)
    <2>1. job \in [Poller -> Job]
      BY <1>1 DEF TypeOK
    <2>2. CASE AdjustFunding(p)
      BY <1>1, <1>2, <2>1, <2>2, FundingDoes DEF Done, BillsFirst
    <2>3. CASE AdjustToken(p)
      BY <1>1, <1>2, <2>1, <2>3, TokenDoes DEF Done, BillsFirst
    <2> QED
      BY <2>2, <2>3
  <1>7. CopyFresh(p)'
    <2>1. (\A u \in loop[p].todo : Unfinished(u)' /\ row'[u] = loop[p].copy[u]) /\ t \notin loop[p].todo
      BY <1>1, <1>2, <1>3 DEF CopyFresh, Unfinished
    <2>2. Unfinished(t)' <=> Unfinished(t)
      BY <1>3 DEF Unfinished
    <2>3. job'[p].step # "none" => (BillsFirst(p)' <=> BillsFirst(p))
      BY <1>2, <1>3, <1>6 DEF BillsFirst
    <2>4. /\ BillsFirst(p) => Unfinished(t) /\ row[t] = loop[p].copy[t]
          /\ ~BillsFirst(p) => row[t].status \in Terminal
      BY <1>1, <1>2, <1>3 DEF CopyFresh
    <2> QED
      BY <1>3, <1>6, <2>1, <2>2, <2>3, <2>4 DEF CopyFresh
  <1>8. BillCovered(p)'
    <2>1. job'[p].step = "token" => (BillsFirst(p)' <=> BillsFirst(p))
      BY <1>2, <1>3, <1>6 DEF BillsFirst
    <2>2. BillsFirst(p) => job[p].complete = TRUE
      BY <1>1, <1>3 DEF BillCovered
    <2> QED
      BY <1>6, <2>1, <2>2 DEF BillCovered
  <1>9. ASSUME NEW u \in Task \ {t}
        PROVE  MarginLeft(u)'
    <2>1. MarginLeft(u) /\ row'[u] = row[u] /\ charge'[u].funding = charge[u].funding
      BY <1>3 DEF SInv
    <2>2. \A q \in Poller : job[q].task # u
      BY <1>1, <1>2
    <2> QED
      BY <1>1, <1>5, <2>1, <2>2, MarginKept
  <1>10. MarginLeft(t)'
    <2>1. MarginLeft(t) /\ row'[t] = row[t]
      BY <1>3 DEF SInv
    <2>2. CASE /\ job[p].step = "funding" /\ job'[p].step = "token" /\ job'[p].task = t
               /\ charge'[t].funding = charge[t].funding + job[p].delta
      <3>1. job[p].delta \in Int
        BY <1>1 DEF TypeOK, Job
      <3>2. Margin(t) \in Int /\ Margin(t)' \in Int /\ Margin(t)' >= Margin(t) + job[p].delta
        BY <1>1, <1>5, <2>1, <2>2, <3>1, MarginGrows
      <3>3. Margin(t) + job[p].delta >= 0
        BY <1>1, <1>2, <2>2 DEF BillCovered
      <3>4. Margin(t)' >= 0
        BY <3>1, <3>2, <3>3
      <3> QED
        BY <2>2, <3>4 DEF MarginLeft
    <2>3. CASE /\ charge'[t].funding = charge[t].funding
               /\ \/ job'[p].step = "none" /\ ~BillsFirst(p)
                  \/ job'[p].step = "save" /\ job'[p].task = t
      <3>1. job'[p].step = "none" => ~Unfinished(t)
        BY <1>1, <1>2, <1>3, <2>3 DEF CopyFresh, Unfinished
      <3> QED
        BY <1>1, <1>5, <2>1, <2>3, <3>1, MarginKept
    <2> QED
      BY <1>6, <2>2, <2>3
  <1> QED
    BY <1>1, <1>7, <1>8, <1>9, <1>10 DEF SInv

\* The other steps of the poller leave it without a job.
LEMMA SoleRest ==
    ASSUME Sole, SInv, IInv', NEW p \in Poller,
           \/ StartSweep(p) \/ ListTasks(p) \/ EndPoll(p) \/ Crash(p)
           \/ \E t \in Task : BulkFail(p, t)
    PROVE  SInv'
  <1>1. /\ IInv /\ TypeOK /\ TypeOK' /\ SleepersIdle /\ (\A q \in Poller : q = p)
        /\ CopyFresh(p) /\ BillCovered(p)
    BY DEF SInv, IInv, Sole
  <1>2. \/ job' = job /\ job[p].step = "none" /\ crashes' = crashes
        \/ job' = [job EXCEPT ![p] = NoJob] /\ crashes' = crashes + 1 /\ faults' = faults
    BY <1>1 DEF StartSweep, ListTasks, EndPoll, Crash, BulkFail, Polling, World,
                Finish, SleepersIdle
  <1>3. job'[p].step = "none" /\ charge' = charge
    BY <1>1, <1>2, IdleValues
    DEF TypeOK, StartSweep, ListTasks, EndPoll, Crash, BulkFail
  <1>4. faults' >= faults /\ crashes' >= crashes
    <2>1. Fault \/ faults' = faults
      BY DEF StartSweep, ListTasks, EndPoll, Crash, BulkFail
    <2> QED
      BY <1>1, <1>2, <2>1, TaskAssumption DEF TypeOK, Fault
  <1>5. /\ faults' + crashes' >= faults + crashes
        /\ crashes' = crashes + 1 => faults' + crashes' > faults + crashes
    BY <1>1, <1>4, FaultSums
  <1>6. ASSUME NEW u \in Task, row'[u] = row[u]
        PROVE  MarginLeft(u)'
    <2>1. MarginLeft(u) /\ charge'[u].funding = charge[u].funding
      BY <1>3 DEF SInv
    <2>2. \/ faults' + crashes' > faults + crashes
          \/ \A q \in Poller : job[q].step \in {"token", "save"} /\ job[q].task = u =>
                                   job'[q].step \in {"token", "save"} /\ job'[q].task = u
      BY <1>1, <1>2, <1>5
    <2> QED
      BY <1>1, <1>5, <1>6, <2>1, <2>2, MarginKept
  <1>7. BillCovered(p)'
    BY <1>3 DEF BillCovered
  <1>8. CASE StartSweep(p) \/ ListTasks(p) \/ EndPoll(p) \/ Crash(p)
    <2>1. row' = row
      BY <1>8 DEF StartSweep, ListTasks, EndPoll, Crash
    <2>2. \A u \in loop'[p].todo : Unfinished(u) /\ row[u] = loop'[p].copy[u]
      <3>1. CASE EndPoll(p) \/ Crash(p)
        BY <1>1, <3>1, IdleValues DEF EndPoll, Crash, TypeOK
      <3>2. CASE StartSweep(p) \/ ListTasks(p)
        <4>1. PICK at \in {"sweep", "poll"}, todo \in SUBSET {t \in Task : Unfinished(t)} :
                  loop' = [loop EXCEPT ![p] = [at |-> at, todo |-> todo, copy |-> row]]
          BY <3>2, Zenon DEF StartSweep, ListTasks, Enter
        <4>2. loop'[p].todo = todo /\ loop'[p].copy = row
          BY <1>1, <4>1 DEF TypeOK
        <4> QED
          BY <4>2
      <3> QED
        BY <1>8, <3>1, <3>2
    <2>3. CopyFresh(p)'
      BY <1>3, <2>1, <2>2 DEF CopyFresh, Unfinished
    <2> QED
      BY <1>1, <1>6, <1>7, <2>1, <2>3 DEF SInv
  <1>9. ASSUME NEW t \in Task, BulkFail(p, t)
        PROVE  SInv'
    <2>1. /\ t \in loop[p].todo /\ loop' = [loop EXCEPT ![p].todo = @ \ {t}] /\ job[p].step = "none"
      BY <1>9 DEF BulkFail, Polling, Leave
    <2>2. row' = row \/ row' = [row EXCEPT ![t] = SetStatus(row[t], "FAILURE")]
      BY <1>9 DEF BulkFail, Write
    <2>3. /\ loop'[p].copy = loop[p].copy /\ loop'[p].todo = loop[p].todo \ {t}
          /\ \A u \in Task \ {t} : row'[u] = row[u]
      BY <1>1, <2>1, <2>2 DEF TypeOK
    <2>4. CopyFresh(p)'
      <3>1. \A u \in loop'[p].todo : u \in Task \ {t} /\ Unfinished(u) /\ row[u] = loop'[p].copy[u]
        BY <1>1, <2>3 DEF CopyFresh, TypeOK
      <3> QED
        BY <1>3, <2>3, <3>1 DEF CopyFresh, Unfinished
    <2>5. CASE row' = row
      BY <1>1, <1>6, <1>7, <2>4, <2>5 DEF SInv
    <2>6. CASE row' = [row EXCEPT ![t] = SetStatus(row[t], "FAILURE")]
      <3>1. row[t] \in Row /\ "FAILURE" \in Status
        BY <1>1 DEF TypeOK, Status, Terminal
      <3>2. row'[t].status = "FAILURE" /\ row'[t].quota = row[t].quota
        BY <1>1, <2>6, <3>1, SetStatusIs DEF TypeOK, Kept
      <3>3. Margin(t) \in Int /\ Margin(t)' \in Int /\ Margin(t)' >= Margin(t)
        <4>1. charge'[t].funding = charge[t].funding
          BY <1>3
        <4> QED
          BY <1>1, <1>5, <3>2, <4>1, MarginStays
      <3>4. Margin(t) >= 0
        BY DEF SInv, MarginLeft
      <3>5. MarginLeft(t)'
        BY <3>2, <3>3, <3>4 DEF MarginLeft, Unfinished, Terminal
      <3> QED
        BY <1>1, <1>6, <1>7, <2>3, <2>4, <3>5 DEF SInv
    <2> QED
      BY <2>2, <2>5, <2>6
  <1> QED
    BY <1>8, <1>9

\* A task is inserted with its quota left; the upstream, the clock and the administrator
\* change no row.
LEMMA SoleOthers ==
    ASSUME AllSettled, Sole, SInv, IInv',
           \/ \E t \in Task : Submit(t) \/ UpstreamEnds(t) \/ TimesOut(t)
           \/ DeleteChannel \/ UNCHANGED vars
    PROVE  SInv'
  <1>1. IInv /\ TypeOK /\ TypeOK'
    BY DEF SInv, IInv
  <1>2. UNCHANGED <<loop, job, crashes>>
    BY DEF Submit, UpstreamEnds, TimesOut, DeleteChannel, World, vars
  <1>3. faults' >= faults /\ crashes' >= crashes
    <2>1. Fault \/ faults' = faults
      BY DEF Submit, UpstreamEnds, TimesOut, DeleteChannel, vars
    <2> QED
      BY <1>1, <1>2, <2>1, TaskAssumption DEF TypeOK, Fault
  <1>4. faults' + crashes' >= faults + crashes
    BY <1>1, <1>3, FaultSums
  <1>5. ASSUME NEW u \in Task, row'[u] = row[u], charge'[u] = charge[u]
        PROVE  MarginLeft(u)'
    <2>1. MarginLeft(u) /\ charge'[u].funding = charge[u].funding
      BY <1>5 DEF SInv
    <2> QED
      BY <1>1, <1>2, <1>4, <1>5, <2>1, MarginKept
  <1>6. ASSUME NEW p \in Poller, NEW t \in Task, row[t].status = "NONE",
               \A u \in Task \ {t} : row'[u] = row[u] /\ charge'[u] = charge[u]
        PROVE  CopyFresh(p)' /\ BillCovered(p)'
    <2>1. job[p].step # "none" => job[p].task \in Task \ {t}
      BY <1>1, <1>6 DEF IInv, CopiesFit, Works, TypeOK, Job
    <2>2. CopyFresh(p) /\ BillCovered(p)
      BY DEF SInv
    <2>3. \A u \in loop[p].todo : u \in Task \ {t}
      BY <1>1, <1>6, <2>2 DEF CopyFresh, Unfinished, TypeOK
    <2>4. ASSUME NEW u \in Task \ {t}
          PROVE  /\ Unfinished(u)' <=> Unfinished(u)
                 /\ Margin(u) \in Int /\ Margin(u)' \in Int /\ Margin(u)' >= Margin(u)
      BY <1>1, <1>4, <1>6, MarginStays DEF Unfinished
    <2>5. CopyFresh(p)'
      BY <1>2, <1>6, <2>1, <2>2, <2>3, <2>4 DEF CopyFresh, BillsFirst
    <2>6. BillCovered(p)'
      <3>1. job[p].delta \in Int
        BY <1>1 DEF TypeOK, Job
      <3>2. ASSUME NEW u \in Task \ {t}, u = job[p].task
            PROVE  BillCovered(p)'
        <4>1. /\ row'[u] = row[u] /\ Margin(u) \in Int /\ Margin(u)' \in Int
              /\ Margin(u)' >= Margin(u) /\ row[u].quota \in Nat
          BY <1>1, <1>6, <2>4 DEF TypeOK, Row
        <4> QED
          BY <1>2, <2>2, <3>1, <3>2, <4>1 DEF BillCovered, BillsFirst
      <3>3. CASE job[p].step = "none"
        BY <1>2, <3>3 DEF BillCovered
      <3> QED
        BY <2>1, <3>2, <3>3
    <2> QED
      BY <2>5, <2>6
  <1>7. ASSUME NEW t \in Task, Submit(t)
        PROVE  SInv'
    <2>1. PICK q \in Quotas, perCall \in PerCalls, platform \in Platforms :
              /\ \E paid \in {q} \cup UnsettledQuotas :
                    charge' = [charge EXCEPT ![t] = [funding |-> paid, token |-> paid]]
              /\ \/ row' = [row EXCEPT ![t] = [status |-> "NOT_START", complete |-> FALSE,
                               quota |-> q, perCall |-> perCall, platform |-> platform]]
                 \/ row' = row
      BY <1>7 DEF Submit, Write
    <2>2. charge' = [charge EXCEPT ![t] = [funding |-> q, token |-> q]] /\ row[t].status = "NONE"
      BY <1>7, <2>1 DEF AllSettled, Submit
    <2>3. /\ \A u \in Task \ {t} : row'[u] = row[u] /\ charge'[u] = charge[u]
          /\ charge'[t].funding = q /\ q \in Nat
          /\ row'[t] = row[t] \/ (row'[t].quota = q)
      BY <1>1, <2>1, <2>2, TaskAssumption DEF TypeOK
    <2>4. MarginLeft(t)'
      <3> DEFINE r == row'[t].quota
                 m == faults' + crashes'
      <3>1. r \in Nat /\ m \in Nat
        <4>1. r \in Nat
          BY <1>1 DEF TypeOK, Row
        <4>2. faults' \in Nat /\ crashes' \in Nat
          BY <1>1, TaskAssumption DEF TypeOK
        <4>3. \A a, b \in Nat : a + b \in Nat
          OBVIOUS
        <4> QED
          BY <4>1, <4>2, <4>3, Zenon
      <3>2. r * m >= 0 /\ r * m \in Int
        <4> HIDE DEF r, m
        <4> QED
          BY <3>1, Room
      <3>3. Margin(t)' = q + r * m
        BY <2>3 DEF Margin
      <3>4. Unfinished(t)' => r = q
        BY <2>2, <2>3 DEF Unfinished
      <3> HIDE DEF r, m
      <3>5. Margin(t)' >= 0 /\ (Unfinished(t)' => Margin(t)' >= r)
        BY <2>3, <3>1, <3>2, <3>3, <3>4
      <3> QED
        BY <3>5 DEF MarginLeft, r
    <2> QED
      BY <1>5, <1>6, <2>2, <2>3, <2>4 DEF SInv
  <1>8. ASSUME UNCHANGED <<row, charge, faults>>
        PROVE  SInv'
    <2>1. ASSUME NEW p \in Poller
          PROVE  CopyFresh(p)' /\ BillCovered(p)'
      BY <1>2, <1>8 DEF SInv, CopyFresh, BillCovered, BillsFirst, Unfinished, Margin
    <2> QED
      BY <1>5, <1>8, <2>1 DEF SInv
  <1> QED
    BY <1>7, <1>8 DEF UpstreamEnds, TimesOut, DeleteChannel, vars

\* The poller gives a task up without a write.
LEMMA SoleSkips ==
    ASSUME Sole, SInv, IInv', NEW p \in Poller, job[p].step \in {"none", "fetch", "update"},
           row' = row, job'[p].step \in {"none", "fetch"}, charge' = charge, crashes' = crashes,
           faults' >= faults, loop'[p].copy = loop[p].copy, loop'[p].todo \subseteq loop[p].todo
    PROVE  SInv'
  <1>1. TypeOK /\ TypeOK' /\ (\A q \in Poller : q = p) /\ CopyFresh(p)
    BY DEF SInv, IInv, Sole
  <1>2. faults' + crashes' >= faults + crashes
    <2>1. crashes' >= crashes
      BY <1>1, TaskAssumption DEF TypeOK
    <2> QED
      BY <1>1, <2>1, FaultSums
  <1>3. CopyFresh(p)' /\ BillCovered(p)'
    BY <1>1 DEF CopyFresh, BillCovered, Unfinished
  <1>4. ASSUME NEW u \in Task
        PROVE  MarginLeft(u)'
    <2>1. MarginLeft(u) /\ charge'[u].funding = charge[u].funding /\ row'[u] = row[u]
      BY DEF SInv
    <2>2. \A q \in Poller : job[q].step \notin {"token", "save"}
      BY <1>1
    <2> QED
      BY <1>1, <1>2, <2>1, <2>2, MarginKept
  <1> QED
    BY <1>1, <1>3, <1>4 DEF SInv

\* The updates of rows that bill afterwards: the sweep and the update of a video.
LEMMA SoleUpdates ==
    ASSUME Sole, SInv, IInv', NEW p \in Poller,
           UpdateVideo(p) \/ \E t \in Task : SweepTask(p, t)
    PROVE  SInv'
  <1>1. IInv /\ TypeOK /\ CopyFresh(p) /\ loop \in [Poller -> Loop] /\ job \in [Poller -> Job]
    BY DEF SInv, IInv, TypeOK, Loop
  <1>2. CASE UpdateVideo(p)
    <2>1. PICK t \in Task : t = job[p].task
      BY <1>1 DEF Job
    <2>2. /\ job[p].step = "update" /\ UNCHANGED <<loop, charge, crashes>> /\ faults' >= faults
          /\ Won(p, t) \/ (row' = row /\ job' = [job EXCEPT ![p] = NoJob])
      BY <1>1, <1>2, <2>1, UpdateDoes DEF FaultsGrow
    <2>3. Unfinished(t) /\ t \notin loop[p].todo /\ row[t].platform # "suno"
      BY <1>1, <2>1, <2>2 DEF CopyFresh, IInv, WritersFit
    <2>4. CASE Won(p, t)
      BY <2>2, <2>3, <2>4, SoleWon
    <2>5. CASE row' = row /\ job' = [job EXCEPT ![p] = NoJob]
      BY <1>1, <2>2, <2>5, SoleSkips, IdleValues
    <2> QED
      BY <2>2, <2>4, <2>5
  <1>3. ASSUME NEW t \in Task, SweepTask(p, t)
        PROVE  SInv'
    <2>1. /\ loop[p].at = "sweep" /\ job[p].step = "none" /\ t \in loop[p].todo
          /\ loop' = [loop EXCEPT ![p].todo = @ \ {t}] /\ faults' >= faults
          /\ UNCHANGED <<charge, crashes>> /\ (Won(p, t) \/ (row' = row /\ job' = job))
      BY <1>1, <1>3, SweepDoes DEF FaultsGrow
    <2>2. Unfinished(t)
      BY <1>1, <2>1 DEF CopyFresh
    <2>3. /\ loop'[p].at = loop[p].at /\ loop'[p].copy = loop[p].copy
          /\ loop'[p].todo = loop[p].todo \ {t}
      BY <1>1, <2>1 DEF Loop
    <2>4. CASE Won(p, t)
      BY <2>1, <2>2, <2>3, <2>4, SoleWon
    <2>5. CASE row' = row /\ job' = job
      BY <2>1, <2>3, <2>5, SoleSkips
    <2> QED
      BY <2>1, <2>4, <2>5
  <1> QED
    BY <1>2, <1>3

\* A task is asked about, without an answer yet or at all.
LEMMA SoleAsks ==
    ASSUME Sole, SInv, IInv', NEW p \in Poller, NEW t \in Task,
           AskUpstream(p, t) \/ FetchFails(p, t)
    PROVE  SInv'
  <1>1. IInv /\ loop \in [Poller -> Loop] /\ job \in [Poller -> Job] /\ faults \in Int
    BY TaskAssumption DEF SInv, IInv, TypeOK, Loop
  <1>2. /\ job[p].step \in {"none", "fetch"} /\ UNCHANGED <<row, charge, crashes, faults>>
        /\ \E j \in Job : job' = [job EXCEPT ![p] = j] /\ j.step \in {"none", "fetch"}
        /\ loop' = loop \/ loop' = [loop EXCEPT ![p].todo = @ \ {t}]
    BY <1>1, AskDoes, FetchFailsDoes, IdleValues
  <1>3. /\ job'[p].step \in {"none", "fetch"} /\ loop'[p].copy = loop[p].copy
        /\ loop'[p].todo \subseteq loop[p].todo
    BY <1>1, <1>2 DEF Loop
  <1> QED
    BY <1>1, <1>2, <1>3, SoleSkips

\* The third invariant is inductive.
LEMMA SInvariance ==
    ASSUME AllSettled, Sole
    PROVE  /\ Init => SInv
           /\ SInv /\ [Next]_vars => SInv'
  <1>1. ASSUME Init
        PROVE  SInv
    <2>1. /\ \A p \in Poller : loop[p].todo = {} /\ job[p].step = "none"
          /\ \A t \in Task : row[t].status = "NONE" /\ row[t].quota = 0 /\ charge[t].funding = 0
          /\ faults = 0 /\ crashes = 0
      BY <1>1, IdleValues DEF Init
    <2>2. \A p \in Poller : CopyFresh(p) /\ BillCovered(p)
      BY <2>1 DEF CopyFresh, BillCovered
    <2>3. ASSUME NEW t \in Task
          PROVE  MarginLeft(t)
      <3>1. Margin(t) = 0 + 0 * (0 + 0)
        BY <2>1 DEF Margin
      <3>2. Margin(t) = 0 /\ ~Unfinished(t)
        BY <2>1, <3>1 DEF Unfinished
      <3> QED
        BY <3>2 DEF MarginLeft
    <2> QED
      BY <1>1, <2>2, <2>3, Invariance DEF SInv
  <1>2. ASSUME SInv, [Next]_vars
        PROVE  SInv'
    <2>1. IInv'
      BY <1>2, Invariance DEF SInv
    <2>2. ASSUME NEW p \in Poller, Poll(p) \/ Crash(p) \/ \E t \in Task : Answer(p, t)
          PROVE  SInv'
      BY <1>2, <2>1, <2>2, SoleUpdates, SoleFetch, SoleAsks, SoleSave, SoleBilling, SoleRest
      DEF Poll, PollTask, Answer
    <2> QED
      BY <1>2, <2>1, <2>2, SoleOthers DEF Next, Sole
  <1> QED
    BY <1>1, <1>2

\* With one polling process and no realtime query, what a task is given back beyond its
\* charge is bounded by its quota for every fault and crash.
THEOREM RefundsBounded == ASSUME AllSettled, Sole PROVE Spec => []RefundsByFaults
  <1>1. SInv => RefundsByFaults
    BY DEF SInv, MarginLeft, Margin, RefundsByFaults
  <1> QED
    BY <1>1, SInvariance, PTL DEF Spec
=============================================================================
