--------------------------- MODULE PushDelivery ---------------------------
(***************************************************************************)
(* The push lane of pushboy from the HTTP request to the counters of the   *)
(* publish job: the handlers and the scheduler feed the job pipeline, the  *)
(* master workers page through the recipients and feed the task pipeline,  *)
(* the sender workers call the provider and feed the DLQ pipeline, and the *)
(* one outcome worker writes batches of outcomes to Postgres.              *)
(*                                                                         *)
(* status, total, succ, fail and receipts are rows of Postgres; they       *)
(* survive a crash.  Everything else but audience is memory of the         *)
(* process.  sent, faults and crashes are history: nothing in the code     *)
(* corresponds to them and no guard reads sent.                            *)
(*                                                                         *)
(* The pipelines are open throughout (closing them is the subject of       *)
(* MemoryPipeline and Shutdown), so the errors a closed pipeline returns   *)
(* do not occur here.                                                      *)
(***************************************************************************)
EXTENDS Naturals, Sequences, FiniteSets

CONSTANTS
  Jobs,             \* ids of publish jobs
  Tokens,           \* ids of device tokens, ordered as the SQL orders them
  Volatile,         \* the tokens that may be registered and removed meanwhile
  Deletable,        \* the jobs whose topic or user may be deleted
  Masters, Senders, \* the worker pools of the push lane
  JobQueueSize, TaskQueueSize, DLQQueueSize,  \* capacities of the pipelines
  BatchSize,        \* page size of the fan-out (BATCH_SIZE)
  OutcomeBatchSize, \* flush threshold (OUTCOME_BATCH_SIZE)
  Faults,           \* the database calls that may fail
  MaxFaults,        \* bound: how many database calls fail
  MaxCrashes,       \* bound: how often the process is killed and restarted
  Nothing           \* "no job" of an idle master, "no task" of an idle sender

Task == [job : Jobs, token : Tokens]
Outcome == [job : Jobs, token : Tokens, ok : BOOLEAN]

(***************************************************************************)
(* The database calls whose failure the code handles (or ignores).         *)
(* "status", "fetch", "finalize", "recheck" and "apply" fail without       *)
(* effect; "insert", "claim", "finalizeCommit" and "commit" take effect    *)
(* although the caller gets an error (a connection lost before the answer).*)
(***************************************************************************)
FaultKinds == {"status", "fetch", "finalize", "recheck", "apply",
               "insert", "claim", "finalizeCommit", "commit"}

ASSUME PushDeliveryAssumption ==
  /\ IsFiniteSet(Jobs)
  /\ IsFiniteSet(Tokens) /\ Tokens \subseteq Nat \ {0}
  /\ Volatile \subseteq Tokens /\ Deletable \subseteq Jobs
  /\ IsFiniteSet(Senders)
  /\ {JobQueueSize, TaskQueueSize, DLQQueueSize} \subseteq Nat \ {0}
  /\ {BatchSize, OutcomeBatchSize} \subseteq Nat \ {0}
  /\ Faults \subseteq FaultKinds
  /\ {MaxFaults, MaxCrashes} \subseteq Nat
  /\ Nothing \notin Jobs /\ Nothing \notin Task

VARIABLES
  status, total, succ, fail, \* the row of each job in publish_jobs
  receipts,                  \* delivery_receipts: one row per failed task
  audience,                  \* tokens the fan-out query would return now
  caller,                    \* where the HTTP handler that created a job is
  claimed,                   \* jobs the scheduler claimed and has yet to submit
  jobQ, taskQ, dlq,          \* the buffers of the three pipelines
  master,                    \* local variables of the master workers
  sender,                    \* the task each sender worker holds
  held,                      \* outcome received, not yet taken by the batcher
  batch, phase,              \* outcomeBatch and whether flush() is running
  sent,                      \* history: tokens emitted for each job
  faults, crashes            \* history: faults and crashes so far

rows == <<status, total, succ, fail, receipts>>
lane == <<claimed, jobQ, taskQ, dlq, master, sender, held, batch, phase>>
vars == <<rows, audience, caller, lane, sent, faults, crashes>>

Statuses == {"QUEUED", "SCHEDULED", "IN_PROGRESS", "DISPATCHED", "COMPLETED",
             "FAILED"}
Terminal == {"COMPLETED", "FAILED"}
Exists(j) == status[j] \in Statuses

MasterPC == {"receive", "start", "fetch", "emit", "finalize", "recheck", "fail"}
IdleMaster == [pc |-> "receive", job |-> Nothing, cursor |-> 0, page |-> {},
               more |-> FALSE, count |-> 0]

Init ==
  /\ status = [j \in Jobs |-> "NONE"]
  /\ total = [j \in Jobs |-> 0]
  /\ succ = [j \in Jobs |-> 0]
  /\ fail = [j \in Jobs |-> 0]
  /\ receipts = {}
  /\ audience \in {A \in SUBSET Tokens : Tokens \ Volatile \subseteq A}
  /\ caller = [j \in Jobs |-> "idle"]
  /\ claimed = {}
  /\ jobQ = <<>> /\ taskQ = <<>> /\ dlq = <<>>
  /\ master = [m \in Masters |-> IdleMaster]
  /\ sender = [s \in Senders |-> Nothing]
  /\ held = <<>> /\ batch = <<>> /\ phase = "select"
  /\ sent = [j \in Jobs |-> {}]
  /\ faults = 0 /\ crashes = 0

-----------------------------------------------------------------------------
(***************************************************************************)
(* Database calls.                                                         *)
(***************************************************************************)
Fault(call) == call \in Faults /\ faults < MaxFaults /\ faults' = faults + 1
NoFault == UNCHANGED faults

\* INSERT INTO publish_jobs of a fresh id, with the counters at zero.
JobStatusForSchedule(scheduled) == IF scheduled THEN "SCHEDULED" ELSE "QUEUED"
InsertJob(j, st) == status' = [status EXCEPT ![j] = st]

\* UPDATE publish_jobs SET status = $1 WHERE id = $2: any row, whatever its status.
UpdateJobStatus(j, st) ==
  status' = [status EXCEPT ![j] = IF Exists(j) THEN st ELSE @]

\* The condition under which a job's row turns COMPLETED.
DoneAnyStatus(st, s, f, n) == s + f >= n
DoneAfterFailure(st, s, f, n) == st \in {"DISPATCHED", "FAILED"} /\ s + f >= n
Done(st, s, f, n) == st = "DISPATCHED" /\ s + f >= n

\* The rows the fan-out query returns after cursor, one page of them, whether
\* a row is left over, and the id the next page starts behind.
Recipients(j) == IF Exists(j) THEN audience ELSE {}
AheadInclusive(A, cursor) == {t \in A : t >= cursor}
Ahead(A, cursor) == {t \in A : t > cursor}
Page(A, cursor) ==
  {t \in Ahead(A, cursor) :
     Cardinality({u \in Ahead(A, cursor) : u < t}) < BatchSize}
HasMore(A, cursor) == Page(A, cursor) # Ahead(A, cursor)
IsNextCursorLookahead(c, A, cursor) ==
  LET fetched == {t \in Ahead(A, cursor) :
                    Cardinality({u \in Ahead(A, cursor) : u < t}) <= BatchSize}
  IN  c \in fetched /\ \A t \in fetched : t <= c
IsNextCursor(c, A, cursor) ==
  c \in Page(A, cursor) /\ \A t \in Page(A, cursor) : t <= c

-----------------------------------------------------------------------------
(***************************************************************************)
(* HTTP handlers: insert the row, then submit within two seconds, else     *)
(* mark the job FAILED.  A scheduled job is only inserted.                 *)
(***************************************************************************)
CreatePublishJob(j) ==
  /\ status[j] = "NONE"
  /\ \E scheduled \in BOOLEAN :
       /\ InsertJob(j, JobStatusForSchedule(scheduled))
       /\ \/ /\ caller' = [caller EXCEPT ![j] = IF scheduled THEN "accepted" ELSE "submit"]
             /\ NoFault
          \/ caller' = [caller EXCEPT ![j] = "rejected"] /\ Fault("insert")
  /\ UNCHANGED <<total, succ, fail, receipts, audience, lane, sent, crashes>>

EnqueueImmediateJob(j) ==
  /\ caller[j] = "submit"
  /\ Len(jobQ) < JobQueueSize
  /\ jobQ' = Append(jobQ, j)
  /\ caller' = [caller EXCEPT ![j] = "accepted"]
  /\ UNCHANGED <<rows, audience, claimed, taskQ, dlq, master, sender, held,
                 batch, phase, sent, faults, crashes>>

\* The two seconds are over.  Nothing in the code relates the deadline to the
\* state of the buffer: a select with both ready takes either.
EnqueueTimeoutAfterSend(j) ==
  /\ caller[j] = "submit"
  /\ caller' = [caller EXCEPT ![j] = "markFailed"]
  /\ jobQ' = IF Len(jobQ) < JobQueueSize THEN Append(jobQ, j) ELSE jobQ
  /\ UNCHANGED <<rows, audience, claimed, taskQ, dlq, master, sender, held,
                 batch, phase, sent, faults, crashes>>
EnqueueTimeout(j) ==
  /\ caller[j] = "submit"
  /\ caller' = [caller EXCEPT ![j] = "markFailed"]
  /\ UNCHANGED <<rows, audience, lane, sent, faults, crashes>>

MarkEnqueueFailed(j) ==
  /\ caller[j] = "markFailed"
  /\ caller' = [caller EXCEPT ![j] = "rejected"]
  /\ \/ UpdateJobStatus(j, "FAILED") /\ NoFault
     \/ UNCHANGED status /\ Fault("status")
  /\ UNCHANGED <<total, succ, fail, receipts, audience, lane, sent, crashes>>

(***************************************************************************)
(* The scheduler's tick: one UPDATE ... RETURNING turns the due jobs       *)
(* QUEUED; they are then submitted one by one, in the order the rows came  *)
(* back, which SQL leaves open.  If reading the rows fails after the       *)
(* update, the claimed jobs are forgotten.                                 *)
(***************************************************************************)
DueOrQueued == {j \in Jobs : status[j] \in {"SCHEDULED", "QUEUED"}}
Due == {j \in Jobs : status[j] = "SCHEDULED"}
GetScheduledJobs ==
  /\ claimed = {}
  /\ \E due \in SUBSET Due :
       /\ due # {}
       /\ status' = [j \in Jobs |-> IF j \in due THEN "QUEUED" ELSE status[j]]
       /\ \/ claimed' = due /\ NoFault
          \/ claimed' = {} /\ Fault("claim")
  /\ UNCHANGED <<total, succ, fail, receipts, audience, caller, jobQ, taskQ,
                 dlq, master, sender, held, batch, phase, sent, crashes>>

SubmitScheduledJob(j) ==
  /\ j \in claimed
  /\ Len(jobQ) < JobQueueSize
  /\ jobQ' = Append(jobQ, j)
  /\ claimed' = claimed \ {j}
  /\ UNCHANGED <<rows, audience, caller, taskQ, dlq, master, sender, held,
                 batch, phase, sent, faults, crashes>>

-----------------------------------------------------------------------------
(***************************************************************************)
(* Master workers: FanoutPushToken.                                        *)
(***************************************************************************)
MasterReceive(m) ==
  /\ master[m].pc = "receive"
  /\ jobQ # <<>>
  /\ jobQ' = Tail(jobQ)
  /\ master' = [master EXCEPT ![m] = [@ EXCEPT !.pc = "start", !.job = Head(jobQ)]]
  /\ UNCHANGED <<rows, audience, caller, claimed, taskQ, dlq, sender, held,
                 batch, phase, sent, faults, crashes>>

\* The result of the status update is ignored.
MarkInProgress(m) ==
  /\ master[m].pc = "start"
  /\ master' = [master EXCEPT ![m] = [@ EXCEPT !.pc = "fetch"]]
  /\ \/ UpdateJobStatus(master[m].job, "IN_PROGRESS") /\ NoFault
     \/ UNCHANGED status /\ Fault("status")
  /\ UNCHANGED <<total, succ, fail, receipts, audience, caller, claimed, jobQ,
                 taskQ, dlq, sender, held, batch, phase, sent, crashes>>

\* One page of recipients; an empty page ends the loop.
FetchPage(m) ==
  /\ master[m].pc = "fetch"
  /\ LET A == Recipients(master[m].job)
         cursor == master[m].cursor
         page == Page(A, cursor)
     IN  \/ /\ page # {}
            /\ \E c \in Tokens :
                 /\ IsNextCursor(c, A, cursor)
                 /\ master' = [master EXCEPT
                      ![m] = [@ EXCEPT !.pc = "emit", !.cursor = c, !.page = page,
                                       !.more = HasMore(A, cursor),
                                       !.count = master[m].count + Cardinality(page)]]
            /\ NoFault
         \/ /\ page = {}
            /\ master' = [master EXCEPT ![m] = [@ EXCEPT !.pc = "finalize", !.more = FALSE]]
            /\ NoFault
         \/ /\ master' = [master EXCEPT ![m] = [@ EXCEPT !.pc = "fail"]]
            /\ Fault("fetch")
  /\ UNCHANGED <<rows, audience, caller, claimed, jobQ, taskQ, dlq, sender,
                 held, batch, phase, sent, crashes>>

\* Where the loop goes after emitting one task of the page.
AfterEmit(rest, more) ==
  IF rest # {} THEN "emit" ELSE IF more THEN "fetch" ELSE "finalize"

Emit(m) ==
  /\ master[m].pc = "emit"
  /\ Len(taskQ) < TaskQueueSize
  /\ \E t \in master[m].page :
       /\ \A u \in master[m].page : t <= u
       /\ taskQ' = Append(taskQ, [job |-> master[m].job, token |-> t])
       /\ master' = [master EXCEPT
            ![m] = [@ EXCEPT !.page = master[m].page \ {t},
                             !.pc = AfterEmit(master[m].page \ {t}, master[m].more)]]
       /\ sent' = [sent EXCEPT ![master[m].job] = @ \cup {t}]
  /\ UNCHANGED <<rows, audience, caller, claimed, jobQ, dlq, sender, held,
                 batch, phase, faults, crashes>>

\* FinalizeJobDispatch writes the total and the status in one statement.
FinalStatusPending(n) == IF n = 0 THEN "COMPLETED" ELSE "PENDING"
FinalStatus(n) == IF n = 0 THEN "COMPLETED" ELSE "DISPATCHED"
FinalizeJobDispatch(m) ==
  LET j == master[m].job
  IN  /\ master[m].pc = "finalize"
      /\ \/ /\ total' = [total EXCEPT ![j] = IF Exists(j) THEN master[m].count ELSE @]
            /\ UpdateJobStatus(j, FinalStatus(master[m].count))
            /\ \/ master' = [master EXCEPT ![m] = [@ EXCEPT !.pc = "recheck"]] /\ NoFault
               \/ master' = [master EXCEPT ![m] = [@ EXCEPT !.pc = "fail"]] /\ Fault("finalizeCommit")
         \/ /\ UNCHANGED <<total, status>>
            /\ master' = [master EXCEPT ![m] = [@ EXCEPT !.pc = "fail"]]
            /\ Fault("finalize")
      /\ UNCHANGED <<succ, fail, receipts, audience, caller, claimed, jobQ, taskQ,
                     dlq, sender, held, batch, phase, sent, crashes>>

\* The outcomes may all have been applied before the total was written.
CompleteJobIfDoneSkipped(m) ==
  /\ master[m].pc = "recheck"
  /\ master' = [master EXCEPT ![m] = IdleMaster]
  /\ UNCHANGED <<rows, audience, caller, claimed, jobQ, taskQ, dlq, sender, held,
                 batch, phase, sent, faults, crashes>>
CompleteJobIfDone(m) ==
  LET j == master[m].job
  IN  /\ master[m].pc = "recheck"
      /\ master' = [master EXCEPT ![m] = IdleMaster]
      /\ \/ /\ status' = [status EXCEPT
                 ![j] = IF Done(@, succ[j], fail[j], total[j]) THEN "COMPLETED" ELSE @]
            /\ NoFault
         \/ UNCHANGED status /\ Fault("recheck")
      /\ UNCHANGED <<total, succ, fail, receipts, audience, caller, claimed, jobQ,
                     taskQ, dlq, sender, held, batch, phase, sent, crashes>>

\* The fan-out failed: the job is marked FAILED, whatever was emitted already.
MarkFanoutFailed(m) ==
  /\ master[m].pc = "fail"
  /\ master' = [master EXCEPT ![m] = IdleMaster]
  /\ \/ UpdateJobStatus(master[m].job, "FAILED") /\ NoFault
     \/ UNCHANGED status /\ Fault("status")
  /\ UNCHANGED <<total, succ, fail, receipts, audience, caller, claimed, jobQ,
                 taskQ, dlq, sender, held, batch, phase, sent, crashes>>

-----------------------------------------------------------------------------
(***************************************************************************)
(* Sender workers.                                                         *)
(***************************************************************************)
SenderReceive(s) ==
  /\ sender[s] = Nothing
  /\ taskQ # <<>>
  /\ sender' = [sender EXCEPT ![s] = Head(taskQ)]
  /\ taskQ' = Tail(taskQ)
  /\ UNCHANGED <<rows, audience, caller, claimed, jobQ, dlq, master, held, batch,
                 phase, sent, faults, crashes>>

\* The provider accepts or refuses the notification (an unknown platform is a
\* refusal); either way one outcome goes to the DLQ pipeline.
DispatchPushTask(s) ==
  /\ sender[s] # Nothing
  /\ Len(dlq) < DLQQueueSize
  /\ \E ok \in BOOLEAN :
       dlq' = Append(dlq, [job |-> sender[s].job, token |-> sender[s].token, ok |-> ok])
  /\ sender' = [sender EXCEPT ![s] = Nothing]
  /\ UNCHANGED <<rows, audience, caller, claimed, jobQ, taskQ, master, held, batch,
                 phase, sent, faults, crashes>>

-----------------------------------------------------------------------------
(***************************************************************************)
(* The outcome worker: a receiving goroutine hands outcomes over an        *)
(* unbuffered channel to the goroutine that collects and flushes them.     *)
(***************************************************************************)
OutcomeReceive ==
  /\ held = <<>> /\ dlq # <<>>
  /\ held' = <<Head(dlq)>>
  /\ dlq' = Tail(dlq)
  /\ UNCHANGED <<rows, audience, caller, claimed, jobQ, taskQ, master, sender,
                 batch, phase, sent, faults, crashes>>

OutcomeCollect ==
  /\ phase = "select" /\ held # <<>>
  /\ batch' = Append(batch, Head(held))
  /\ held' = <<>>
  /\ phase' = IF Len(batch') >= OutcomeBatchSize THEN "flush" ELSE "select"
  /\ UNCHANGED <<rows, audience, caller, claimed, jobQ, taskQ, dlq, master, sender,
                 sent, faults, crashes>>

\* The ticker; with an empty batch flush() returns at once.
FlushTick ==
  /\ phase = "select" /\ batch # <<>>
  /\ phase' = "flush"
  /\ UNCHANGED <<rows, audience, caller, claimed, jobQ, taskQ, dlq, master, sender,
                 held, batch, sent, faults, crashes>>

Of(q, j) == {i \in DOMAIN q : q[i].job = j}
OfResult(q, j, ok) == {i \in DOMAIN q : q[i].job = j /\ q[i].ok = ok}
FailedTasks(q) ==
  {[job |-> q[i].job, token |-> q[i].token] : i \in {k \in DOMAIN q : ~q[k].ok}}

\* COPY into delivery_receipts: the job must exist (foreign key) and the
\* receipt must be new (primary key, a uuid made once per task).
ReceiptsInsertableOrSkipped ==
  \A t \in FailedTasks(batch) : Exists(t.job)
ReceiptsInsertable ==
  \A t \in FailedTasks(batch) : Exists(t.job) /\ t \notin receipts

\* What a committed ApplyPushOutcomeBatch adds to the counters of j, and its
\* whole effect.
SuccessDelta(j) == IF Exists(j) THEN Cardinality(OfResult(batch, j, TRUE)) ELSE 0
FailureDelta(j) == IF Exists(j) THEN Cardinality(OfResult(batch, j, FALSE)) ELSE 0
ApplyOutcomes ==
  /\ receipts' = receipts \cup FailedTasks(batch)
  /\ succ' = [j \in Jobs |-> succ[j] + SuccessDelta(j)]
  /\ fail' = [j \in Jobs |-> fail[j] + FailureDelta(j)]
  /\ status' = [j \in Jobs |->
       IF Of(batch, j) # {} /\ Done(status[j], succ'[j], fail'[j], total[j])
       THEN "COMPLETED" ELSE status[j]]

\* flush(): on success the batch is cleared, on any error it is kept and
\* goes into the next flush with whatever arrived meanwhile.
FlushLosesBatch ==
  /\ phase = "flush" /\ phase' = "select" /\ batch' = <<>>
  /\ \/ ReceiptsInsertable /\ ApplyOutcomes /\ NoFault
     \/ ~ReceiptsInsertable /\ UNCHANGED <<status, succ, fail, receipts>> /\ NoFault
     \/ UNCHANGED <<status, succ, fail, receipts>> /\ Fault("apply")
  /\ UNCHANGED <<total, audience, caller, claimed, jobQ, taskQ, dlq, master,
                 sender, held, sent, crashes>>
Flush ==
  /\ phase = "flush"
  /\ phase' = "select"
  /\ \/ ReceiptsInsertable /\ ApplyOutcomes /\ batch' = <<>> /\ NoFault
     \/ ReceiptsInsertable /\ ApplyOutcomes /\ batch' = batch /\ Fault("commit")
     \/ /\ UNCHANGED <<status, succ, fail, receipts, batch>>
        /\ \/ ~ReceiptsInsertable /\ NoFault
           \/ Fault("apply")
  /\ UNCHANGED <<total, audience, caller, claimed, jobQ, taskQ, dlq, master,
                 sender, held, sent, crashes>>

-----------------------------------------------------------------------------
(***************************************************************************)
(* The rest of the world.                                                  *)
(***************************************************************************)
\* DeleteTopic or DeleteUser: the job row goes by cascade, its receipts too.
DeleteTarget(j) ==
  /\ j \in Deletable /\ Exists(j)
  /\ status' = [status EXCEPT ![j] = "DELETED"]
  /\ total' = [total EXCEPT ![j] = 0]
  /\ succ' = [succ EXCEPT ![j] = 0]
  /\ fail' = [fail EXCEPT ![j] = 0]
  /\ receipts' = {t \in receipts : t.job # j}
  /\ UNCHANGED <<audience, caller, lane, sent, faults, crashes>>

\* A token of the audience is removed (deleted, soft-deleted, unsubscribed) or
\* comes back (registered, subscribed).
ChangeAudience(t) ==
  /\ t \in Volatile
  /\ audience' = IF t \in audience THEN audience \ {t} ELSE audience \cup {t}
  /\ UNCHANGED <<rows, caller, lane, sent, faults, crashes>>

\* The process is killed and started again.  Nothing reads the rows of
\* unfinished jobs back (FetchPendingJobs has no caller).
Crash ==
  /\ crashes < MaxCrashes
  /\ crashes' = crashes + 1
  /\ caller' = [j \in Jobs |-> IF caller[j] \in {"submit", "markFailed"}
                              THEN "rejected" ELSE caller[j]]
  /\ claimed' = {}
  /\ jobQ' = <<>> /\ taskQ' = <<>> /\ dlq' = <<>>
  /\ master' = [m \in Masters |-> IdleMaster]
  /\ sender' = [s \in Senders |-> Nothing]
  /\ held' = <<>> /\ batch' = <<>> /\ phase' = "select"
  /\ UNCHANGED <<rows, audience, sent, faults>>

\* Every goroutine of the process waits for input: the server may stay so.
Idle ==
  /\ \A j \in Jobs : caller[j] \in {"idle", "accepted", "rejected"}
  /\ claimed = {} /\ jobQ = <<>> /\ taskQ = <<>> /\ dlq = <<>>
  /\ \A m \in Masters : master[m].pc = "receive"
  /\ \A s \in Senders : sender[s] = Nothing
  /\ held = <<>> /\ batch = <<>>
  /\ UNCHANGED vars

MasterStep(m) ==
  \/ MasterReceive(m) \/ MarkInProgress(m) \/ FetchPage(m) \/ Emit(m)
  \/ FinalizeJobDispatch(m) \/ CompleteJobIfDone(m) \/ MarkFanoutFailed(m)
SenderStep(s) == SenderReceive(s) \/ DispatchPushTask(s)
HandlerStep(j) == EnqueueImmediateJob(j) \/ EnqueueTimeout(j) \/ MarkEnqueueFailed(j)

Next ==
  \/ \E j \in Jobs : CreatePublishJob(j) \/ HandlerStep(j) \/ DeleteTarget(j)
  \/ GetScheduledJobs
  \/ \E j \in Jobs : SubmitScheduledJob(j)
  \/ \E m \in Masters : MasterStep(m)
  \/ \E s \in Senders : SenderStep(s)
  \/ OutcomeReceive \/ OutcomeCollect \/ FlushTick \/ Flush
  \/ \E t \in Tokens : ChangeAudience(t)
  \/ Crash
  \/ Idle

Spec == Init /\ [][Next]_vars

(***************************************************************************)
(* Every goroutine is scheduled, the two tickers fire, and the database    *)
(* and the provider answer.  Requests, deletions and crashes need not      *)
(* happen.                                                                 *)
(***************************************************************************)
Fairness ==
  /\ \A j \in Jobs : WF_vars(HandlerStep(j)) /\ WF_vars(SubmitScheduledJob(j))
  /\ WF_vars(GetScheduledJobs)
  /\ \A m \in Masters : WF_vars(MasterStep(m))
  /\ \A s \in Senders : WF_vars(SenderStep(s))
  /\ WF_vars(OutcomeReceive) /\ WF_vars(OutcomeCollect)
  /\ WF_vars(FlushTick) /\ WF_vars(Flush)

FairSpec == Spec /\ Fairness

-----------------------------------------------------------------------------
(***************************************************************************)
(* Properties.                                                             *)
(***************************************************************************)
MasterState == [pc : MasterPC, job : Jobs \cup {Nothing}, cursor : Nat,
                page : SUBSET Tokens, more : BOOLEAN, count : Nat]

\* Type invariant; the pipelines never exceed their capacities.
TypeOK ==
  /\ status \in [Jobs -> Statuses \cup {"NONE", "DELETED"}]
  /\ total \in [Jobs -> Nat]
  /\ succ \in [Jobs -> Nat]
  /\ fail \in [Jobs -> Nat]
  /\ receipts \subseteq Task
  /\ audience \subseteq Tokens
  /\ caller \in [Jobs -> {"idle", "submit", "markFailed", "accepted", "rejected"}]
  /\ claimed \subseteq Jobs
  /\ jobQ \in Seq(Jobs) /\ Len(jobQ) <= JobQueueSize
  /\ taskQ \in Seq(Task) /\ Len(taskQ) <= TaskQueueSize
  /\ dlq \in Seq(Outcome) /\ Len(dlq) <= DLQQueueSize
  /\ master \in [Masters -> MasterState]
  /\ \A m \in Masters : master[m].pc # "receive" => master[m].job \in Jobs
  /\ sender \in [Senders -> Task \cup {Nothing}]
  /\ held \in Seq(Outcome) /\ Len(held) <= 1
  /\ batch \in Seq(Outcome)
  /\ phase \in {"select", "flush"}
  /\ sent \in [Jobs -> SUBSET Tokens]
  /\ faults \in Nat /\ crashes \in Nat

\* The tasks of job j that are somewhere between emit and the database.
Sending(j) == {s \in Senders : sender[s] # Nothing /\ sender[s].job = j}
Outstanding(j) ==
  Cardinality(Of(taskQ, j)) + Cardinality(Sending(j)) + Cardinality(Of(dlq, j))
    + Cardinality(Of(held, j)) + Cardinality(Of(batch, j))

\* No task is lost or counted twice on its way through five places owned by
\* four kinds of goroutines (masters.go:39, senders.go:40, outcome.go:71-130):
\* what was emitted for a job is either outstanding or in its counters.
\* Only a crash loses tasks.
TasksConserved ==
  \A j \in Jobs : Exists(j) =>
    LET accounted == succ[j] + fail[j] + Outstanding(j)
    IN  IF crashes = 0 THEN accounted = Cardinality(sent[j])
                       ELSE accounted <= Cardinality(sent[j])

\* A job is COMPLETED only when its total is the number of tasks emitted for
\* it, every one of them has been counted, and none is still under way, in
\* whatever order the outcome worker and the master that finalizes the job
\* wrote to the row (postgres.go:657-681, 845-890, 927-941).
CompletedMeansAccounted ==
  \A j \in Jobs : status[j] = "COMPLETED" =>
    /\ total[j] = Cardinality(sent[j])
    /\ succ[j] + fail[j] = total[j]
    /\ Outstanding(j) = 0

\* A job whose request was answered with an error is never sent, so the client
\* may repeat the request (server.go:107-122): a timeout of the submission
\* means that no worker will ever see the job.
RejectedNeverSent ==
  \A j \in Jobs : caller[j] = "rejected" => sent[j] = {}

\* The failure counter of a job and its rows in delivery_receipts agree: they
\* are written by one transaction, also when a batch is applied again after a
\* commit whose result was not seen (postgres.go:856-887, outcome.go:106-110).
FailuresHaveReceipts ==
  \A j \in Jobs : fail[j] = Cardinality({t \in receipts : t.job = j})

\* A dispatched job whose outcomes are all counted is about to be completed by
\* the master that dispatched it (fanout.go:66): nobody else would.
CompletionNotMissed ==
  \A j \in Jobs :
    Done(status[j], succ[j], fail[j], total[j]) =>
      \E m \in Masters : master[m].pc = "recheck" /\ master[m].job = j

\* The fan-out reaches every token that was registered all along, whatever
\* tokens come and go between two pages (fanout.go:22-59, postgres.go:231-303).
StableTokensReached ==
  \A j \in Jobs :
    status[j] \in {"DISPATCHED", "COMPLETED"} => Tokens \ Volatile \subseteq sent[j]

\* A job that was reported COMPLETED or FAILED never changes its status again
\* (UpdateJobStatus writes without looking, postgres.go:646-655).
TerminalStatusFinal ==
  [][\A j \in Jobs :
       status[j] \in Terminal => status'[j] \in {status[j], "DELETED"}]_vars

\* A token is emitted at most once for a job: not by two pages, not by two
\* masters, not again after a restart (fanout.go:40-52, postgres.go:951-972).
EmittedAtMostOnce ==
  [][Len(taskQ') > Len(taskQ) =>
       LET t == taskQ'[Len(taskQ')] IN t.token \notin sent[t.job]]_vars

\* The life of a job as a client sees it, whatever goes on in the lane: its row
\* and its notifications change as PublishJob allows, in every interleaving of
\* handlers, scheduler, masters, senders and outcome worker.  One step may move
\* several jobs (a tick of the scheduler, a batch of outcomes).
Life(j) == INSTANCE PublishJob WITH
  status <- status[j], total <- total[j], succ <- succ[j], fail <- fail[j],
  sent <- sent[j]
JobLife ==
  /\ \A j \in Jobs : Life(j)!Init
  /\ [][\A j \in Jobs : [Life(j)!Next]_(Life(j)!vars)]_vars

\* A job that reached the job pipeline ends COMPLETED (or deleted), although
\* status updates and outcome writes may fail in between.
AcceptedJobCompletes ==
  \A j \in Jobs :
    (\E i \in DOMAIN jobQ : jobQ[i] = j) ~> status[j] \in {"COMPLETED", "DELETED"}
=============================================================================
