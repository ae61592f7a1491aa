----------------------------- MODULE LADispatch -----------------------------
(***************************************************************************)
(* The live activity lane of pushboy, for one scope: the activities of one *)
(* type shown to one user or to the subscribers of one topic.              *)
(*                                                                         *)
(* A request starts, updates or ends an activity.  It works on the job row *)
(* of the activity (live_activity_jobs), inserts a dispatch row            *)
(* (live_activity_dispatches) and submits the dispatch to the pipeline; a  *)
(* master worker pages through the tokens, a sender delivers, and the      *)
(* outcome worker counts and completes the dispatch.                       *)
(*                                                                         *)
(* Request r stands for the r-th value of created_at, which a request      *)
(* reads from the clock before its first database call: its steps may come *)
(* at any time, also after those of a later request.  r also names the     *)
(* dispatch row of the request and, for a start, the job row it inserts.   *)
(*                                                                         *)
(* Payloads are left out, and so is the room in the pipelines, which are   *)
(* those of the push lane (PushDelivery, MemoryPipeline): a submission may *)
(* time out at any moment.  A worker is refused by the next pipeline only  *)
(* when the process is killed (Shutdown), which Crash stands for.          *)
(***************************************************************************)
EXTENDS Naturals, Sequences, FiniteSets

CONSTANTS
  Requests,     \* the requests, numbered by created_at
  Past,         \* start requests that were accepted and delivered long ago
  Menu,         \* Menu[r]: what request r may ask for
  Activities,   \* activity ids
  Tokens,       \* ids of live activity tokens, ordered as SQL orders them
  Kind,         \* "start" or "update" (APNs), or "fcm", of each token
  Volatile,     \* the tokens that may be invalidated and registered meanwhile
  Perishable,   \* the jobs that may expire meanwhile
  Results,      \* what the providers answer: "ok", "invalidToken", "refused"
  Masters,      \* how many master workers the lane has
  BatchSize,    \* page size of the fan-out (BATCH_SIZE)
  Failing,      \* the calls that may fail without effect
  Unsure,       \* the calls that may take effect although they report an error
  MaxFaults,    \* bound: how many calls fail
  MaxCrashes    \* bound: how often the process is killed and restarted

Actions == {"start", "update", "end"}
Wanted == [action : Actions, act : Activities, by : {"id", "scope"}]

ASSUME LADispatchAssumption ==
  /\ IsFiniteSet(Requests) /\ Requests \subseteq Nat \ {0} /\ Past \subseteq Requests
  /\ Activities # {} /\ \A r \in Requests : Menu[r] \subseteq Wanted
  /\ \A r \in Past : \A w \in Menu[r] : w.action = "start"
  /\ IsFiniteSet(Tokens) /\ Tokens \subseteq Nat \ {0} /\ Volatile \subseteq Tokens
  /\ Kind \in [Tokens -> {"start", "update", "fcm"}]
  /\ Results \subseteq {"ok", "invalidToken", "refused"}
  /\ {Masters, BatchSize} \subseteq Nat \ {0} /\ {MaxFaults, MaxCrashes} \subseteq Nat

VARIABLES
  job,       \* status of each job row, "NONE" when there is none
  expired,   \* the jobs whose expires_at has passed
  row,       \* the dispatch rows: status and counters
  valid,     \* tokens of the scope that are neither invalidated nor expired
  assoc,     \* live_activity_token_activities: pairs of activity and token
  req,       \* local variables of the request handlers
  jobQ,      \* the dispatches in the live activity job pipeline
  fan,       \* local variables of the fan-out of each dispatch
  send,      \* what has become of the task of each dispatch and token
  pending,   \* outcomes on their way to the database
  faults, crashes  \* history

tables == <<job, expired, row, valid, assoc>>
lane == <<jobQ, fan, send, pending>>
vars == <<tables, req, lane, faults, crashes>>

JobStatus == {"NONE", "ACTIVE", "CLOSED", "FAILED"}
DispatchStatus == {"NONE", "ENQUEUE_PENDING", "QUEUED", "IN_PROGRESS", "DISPATCHED",
                   "COMPLETED", "SUPERSEDED", "FAILED"}
Settled == {"COMPLETED", "SUPERSEDED", "FAILED"}

NoRow == [status |-> "NONE", total |-> 0, succ |-> 0, fail |-> 0]
NoFan == [pc |-> "idle", cursor |-> 0, wide |-> FALSE, count |-> 0]
Idle(r) == [pc |-> "idle", action |-> "start", act |-> CHOOSE a \in Activities : TRUE,
            job |-> r, closing |-> {}]
StartTokens == {t \in Tokens : Kind[t] \in {"start", "fcm"}}
UpdateTokens == {t \in Tokens : Kind[t] \in {"update", "fcm"}}

\* A start of the past reached everyone: its outcomes have associated the FCM
\* tokens with the activity, and the APNs devices their update tokens when they
\* registered them.
StartedBefore(started) ==
  /\ \A r \in Past : \E w \in Menu[r] : w.act = started[r]
  /\ req = [r \in Requests |->
       IF r \in Past THEN [Idle(r) EXCEPT !.pc = "accepted", !.act = started[r]] ELSE Idle(r)]
  /\ assoc = {started[r] : r \in Past} \X UpdateTokens
Init ==
  /\ job = [r \in Requests |-> IF r \in Past THEN "ACTIVE" ELSE "NONE"]
  /\ expired = {}
  /\ row = [r \in Requests |->
       IF r \in Past THEN [status |-> "COMPLETED", total |-> Cardinality(StartTokens),
                           succ |-> Cardinality(StartTokens), fail |-> 0]
                     ELSE NoRow]
  /\ valid = Tokens
  /\ \E started \in [Past -> Activities] : StartedBefore(started)
  /\ jobQ = <<>>
  /\ fan = [r \in Requests |-> [NoFan EXCEPT !.pc = IF r \in Past THEN "done" ELSE "idle"]]
  /\ send = [r \in Requests |-> [t \in Tokens |->
       IF r \in Past /\ t \in StartTokens THEN "ok" ELSE "none"]]
  /\ pending = {}
  /\ faults = 0 /\ crashes = 0

-----------------------------------------------------------------------------
(***************************************************************************)
(* Calls to the database and to the pipeline.  A call answers "ok", has    *)
(* "failed" without effect, or is "unsure": the caller gets an error       *)
(* although the statement took effect.                                     *)
(***************************************************************************)
Answers == {"ok", "failed", "unsure"}
Call(name, answer) ==
  \/ answer = "ok" /\ UNCHANGED faults
  \/ /\ \/ answer = "failed" /\ name \in Failing
        \/ answer = "unsure" /\ name \in Unsure
     /\ faults < MaxFaults
     /\ faults' = faults + 1
TakesEffect(answer) == answer # "failed"

JobOf(d) == req[d].job
ActivityOf(d) == req[JobOf(d)].act
OfActivity(a) == {j \in Requests : job[j] # "NONE" /\ req[j].act = a}
Active == {j \in Requests : job[j] = "ACTIVE"}
Usable(j) == job[j] = "ACTIVE" /\ j \notin expired

\* The jobs a request finds: that of the activity, whatever its status, or
\* the one that is active in the scope.
Found(w) ==
  IF w.by = "id" THEN OfActivity(w.act) ELSE {j \in Active : Usable(j)}

\* UPDATE live_activity_jobs ... WHERE status = 'ACTIVE' AND closed_at IS NULL.
IfActive(j, st) == [job EXCEPT ![j] = IF @ = "ACTIVE" THEN st ELSE @]
SetStatus(d, st) == [row EXCEPT ![d].status = st]

Goto(r, pc) == req' = [req EXCEPT ![r].pc = pc]
GotoWith(r, pc, w, j) ==
  req' = [req EXCEPT ![r].pc = pc, ![r].action = w.action, ![r].act = w.act, ![r].job = j]

-----------------------------------------------------------------------------
(***************************************************************************)
(* Start: one transaction under the advisory lock of the activity and the  *)
(* lock of the scope's row looks for a job of the activity, closes what is *)
(* active in the scope and inserts the job.                                *)
(***************************************************************************)
ScopeUnlockedAlways == TRUE
ScopeUnlocked == \A r \in Requests : req[r].pc # "insert"

StartLookup(r, w) ==
  /\ req[r].pc = "idle" /\ w \in Menu[r] /\ w.action = "start"
  /\ ScopeUnlocked
  /\ \E answer \in Answers :
       /\ Call("start", answer)
       /\ \/ ~TakesEffect(answer) /\ GotoWith(r, "rejected", w, r)
          \/ /\ answer = "ok"
             /\ IF OfActivity(w.act) # {}
                THEN \E j \in OfActivity(w.act) : GotoWith(r, "alreadyStarted", w, j)
                ELSE req' = [req EXCEPT ![r].pc = "insert", ![r].action = w.action,
                                        ![r].act = w.act, ![r].closing = Active]
  /\ UNCHANGED <<tables, lane, crashes>>

\* The index on active jobs of a scope refuses the row when another start got
\* in between; the request then answers with the job it finds.
StartInsert(r) ==
  /\ req[r].pc = "insert"
  /\ \E answer \in Answers :
       /\ Call("insert", answer)
       /\ IF Active \subseteq req[r].closing
          THEN /\ job' = IF TakesEffect(answer)
                         THEN [j \in Requests |->
                                 IF j = r THEN "ACTIVE"
                                 ELSE IF j \in Active THEN "CLOSED" ELSE job[j]]
                         ELSE job
               /\ req' = [req EXCEPT ![r].pc = IF answer = "ok" THEN "row" ELSE "rejected",
                                     ![r].closing = {}]
          ELSE \E j \in Active \ req[r].closing :
                 /\ req' = [req EXCEPT ![r].pc = "alreadyStarted", ![r].job = j,
                                       ![r].closing = {}]
                 /\ UNCHANGED job
  /\ UNCHANGED <<expired, row, valid, assoc, lane, crashes>>

\* RollbackLAStartJob: deletes the job unless it is closed or has a dispatch.
RollbackStart(r) ==
  /\ req[r].pc = "rollback"
  /\ \E answer \in Answers :
       /\ Call("rollback", answer)
       /\ job' = [job EXCEPT ![r] =
            IF TakesEffect(answer) /\ @ = "ACTIVE"
               /\ \A d \in Requests : JobOf(d) = r => row[d].status = "NONE"
            THEN "NONE" ELSE @]
  /\ Goto(r, "rejected")
  /\ UNCHANGED <<expired, row, valid, assoc, lane, crashes>>

(***************************************************************************)
(* Update and end look for the job; an update also writes its payload to   *)
(* the job, provided that is still active.                                 *)
(***************************************************************************)
UpdateFind(r, w) ==
  /\ req[r].pc = "idle" /\ w \in Menu[r] /\ w.action = "update"
  /\ UNCHANGED <<tables, lane, faults, crashes>>
  /\ \/ \E j \in Found(w) : Usable(j) /\ GotoWith(r, "touch", w, j)
     \/ (\A j \in Found(w) : ~Usable(j)) /\ GotoWith(r, "rejected", w, r)

UpdateLAJobPayloadIfActive(r) ==
  /\ req[r].pc = "touch"
  /\ \E answer \in Answers :
       /\ Call("touch", answer)
       /\ Goto(r, IF answer = "ok" /\ Usable(JobOf(r)) THEN "row" ELSE "rejected")
  /\ UNCHANGED <<tables, lane, crashes>>

EndFind(r, w) ==
  /\ req[r].pc = "idle" /\ w \in Menu[r] /\ w.action = "end"
  /\ UNCHANGED <<tables, lane, faults, crashes>>
  /\ \/ \E j \in Found(w) \ expired :
          \/ job[j] = "ACTIVE" /\ GotoWith(r, "row", w, j)
          \/ job[j] = "CLOSED" /\ GotoWith(r, "closed", w, j)
     \/ /\ \A j \in Found(w) : j \in expired \/ job[j] = "FAILED"
        /\ GotoWith(r, "rejected", w, r)

(***************************************************************************)
(* The dispatch row is inserted outside the transaction above, then        *)
(* submitted; the row says ENQUEUE_PENDING until the pipeline has it.      *)
(***************************************************************************)
CreateLADispatch(r) ==
  /\ req[r].pc = "row"
  /\ \E answer \in Answers :
       /\ Call("row", answer)
       /\ LET written == TakesEffect(answer) /\ job[JobOf(r)] # "NONE"
          IN  /\ row' = IF written THEN SetStatus(r, "ENQUEUE_PENDING") ELSE row
              /\ Goto(r, IF answer = "ok" /\ written THEN "submit"
                         ELSE IF req[r].action = "start" THEN "rollback" ELSE "rejected")
  /\ UNCHANGED <<job, expired, valid, assoc, lane, crashes>>

Submit(r) ==
  /\ req[r].pc = "submit"
  /\ \E answer \in {"ok", "failed"} :
       /\ Call("submit", answer)
       /\ jobQ' = IF TakesEffect(answer) THEN Append(jobQ, r) ELSE jobQ
       /\ Goto(r, IF answer = "ok" THEN "mark" ELSE "markFailed")
  /\ UNCHANGED <<tables, fan, send, pending, crashes>>

\* The pipeline owns the dispatch: the request is accepted whatever happens to
\* this update of the row.
MarkLADispatchEnqueuedOrReject(r) ==
  /\ req[r].pc = "mark"
  /\ \E answer \in Answers :
       /\ Call("mark", answer)
       /\ row' = IF TakesEffect(answer) /\ row[r].status = "ENQUEUE_PENDING"
                 THEN SetStatus(r, "QUEUED") ELSE row
       /\ Goto(r, IF answer = "ok" THEN "accepted" ELSE "rejected")
  /\ UNCHANGED <<job, expired, valid, assoc, lane, crashes>>
MarkLADispatchEnqueued(r) ==
  /\ req[r].pc = "mark"
  /\ \E answer \in Answers :
       /\ Call("mark", answer)
       /\ row' = IF TakesEffect(answer) /\ row[r].status = "ENQUEUE_PENDING"
                 THEN SetStatus(r, "QUEUED") ELSE row
  /\ Goto(r, "accepted")
  /\ UNCHANGED <<job, expired, valid, assoc, lane, crashes>>

MarkEnqueueFailed(r) ==
  /\ req[r].pc = "markFailed"
  /\ \E answer \in Answers :
       /\ Call("markFailed", answer)
       /\ row' = IF TakesEffect(answer) THEN SetStatus(r, "FAILED") ELSE row
  /\ Goto(r, IF req[r].action = "start" THEN "failJob" ELSE "rejected")
  /\ UNCHANGED <<job, expired, valid, assoc, lane, crashes>>

FailLAJobIfActive(r) ==
  /\ req[r].pc = "failJob"
  /\ \E answer \in Answers :
       /\ Call("failJob", answer)
       /\ job' = IF TakesEffect(answer) THEN IfActive(r, "FAILED") ELSE job
  /\ Goto(r, "rejected")
  /\ UNCHANGED <<expired, row, valid, assoc, lane, crashes>>

-----------------------------------------------------------------------------
(***************************************************************************)
(* Fan-out of a dispatch by a master worker.                               *)
(***************************************************************************)
Running == {d \in Requests : fan[d].pc \notin {"idle", "done"}}
FanGoto(d, pc) == fan' = [fan EXCEPT ![d].pc = pc]

Receive ==
  /\ jobQ # <<>> /\ Cardinality(Running) < Masters
  /\ jobQ' = Tail(jobQ)
  /\ LET d == Head(jobQ)
     IN  FanGoto(d, IF req[d].action = "update" THEN "guard" ELSE "progress")
  /\ UNCHANGED <<tables, req, send, pending, faults, crashes>>

UnfinishedOrAny == DispatchStatus
Unfinished == {"ENQUEUE_PENDING", "QUEUED", "IN_PROGRESS"}

\* Whether a newer update of the job has reached the pipeline.
SupersedingOnceInserted == DispatchStatus \ {"NONE", "SUPERSEDED"}
Superseding == {"QUEUED", "IN_PROGRESS", "DISPATCHED", "COMPLETED"}
Stale(d) ==
  /\ row[d].status \in {"QUEUED", "IN_PROGRESS"}
  /\ \E newer \in Requests :
       /\ newer > d /\ JobOf(newer) = JobOf(d) /\ req[newer].action = "update"
       /\ row[newer].status \in Superseding

\* SupersedeLADispatchIfStale, before the fan-out and before every page of it.
SupersedeIfStale(d, pc, next) ==
  /\ fan[d].pc = pc
  /\ \E answer \in Answers :
       /\ Call("supersede", answer)
       /\ row' = IF TakesEffect(answer) /\ Stale(d)
                 THEN [row EXCEPT ![d].status = "SUPERSEDED", ![d].total = fan[d].count]
                 ELSE row
       /\ FanGoto(d, IF answer # "ok" THEN "fail" ELSE IF Stale(d) THEN "done" ELSE next)
  /\ UNCHANGED <<job, expired, valid, assoc, req, jobQ, send, pending, crashes>>

BeforePage(d) == IF req[d].action = "update" THEN "check" ELSE "scope"
MarkInProgress(d) ==
  /\ fan[d].pc = "progress"
  /\ \E answer \in Answers :
       /\ Call("progress", answer)
       /\ row' = IF TakesEffect(answer) THEN SetStatus(d, "IN_PROGRESS") ELSE row
       /\ FanGoto(d, IF answer = "ok" THEN BeforePage(d) ELSE "fail")
  /\ UNCHANGED <<job, expired, valid, assoc, req, jobQ, send, pending, crashes>>

\* getLADispatchFanoutScope: until the start has been counted in full the
\* devices that show the activity are not all associated with it.
StartUnderWayUntilDispatched == {"ENQUEUE_PENDING", "QUEUED", "IN_PROGRESS"}
StartUnderWay == {"ENQUEUE_PENDING", "QUEUED", "IN_PROGRESS", "DISPATCHED"}
StartPending(j) ==
  \E s \in Requests :
    JobOf(s) = j /\ req[s].action = "start" /\ row[s].status \in StartUnderWay

LoadScope(d) ==
  /\ fan[d].pc = "scope"
  /\ \E answer \in {"ok", "failed"} :
       /\ Call("scope", answer)
       /\ fan' = [fan EXCEPT ![d].pc = IF answer = "ok" THEN "page" ELSE "fail",
                             ![d].wide = StartPending(JobOf(d))]
  /\ UNCHANGED <<tables, req, jobQ, send, pending, crashes>>

Recipients(d, wide) ==
  valid \cap (IF req[d].action = "start" THEN StartTokens
              ELSE IF wide THEN UpdateTokens
              ELSE {t \in UpdateTokens : <<ActivityOf(d), t>> \in assoc})
AheadInclusive(d) == {t \in Recipients(d, fan[d].wide) : t >= fan[d].cursor}
Ahead(d) == {t \in Recipients(d, fan[d].wide) : t > fan[d].cursor}
Page(d) == {t \in Ahead(d) : Cardinality({u \in Ahead(d) : u < t}) < BatchSize}

\* GetLATokenBatchForDispatch's second query, then the page is emitted.
FanOutPage(d) ==
  /\ fan[d].pc = "page"
  /\ \E answer \in {"ok", "failed"} :
       /\ Call("page", answer)
       /\ IF answer = "ok"
          THEN /\ send' = [send EXCEPT ![d] = [t \in Tokens |->
                             IF t \in Page(d) THEN "task" ELSE send[d][t]]]
               /\ \E last \in Page(d) \cup {fan[d].cursor} :
                    /\ \A t \in Page(d) : t <= last
                    /\ fan' = [fan EXCEPT
                         ![d].pc = IF Page(d) = Ahead(d) THEN "complete" ELSE BeforePage(d),
                         ![d].count = @ + Cardinality(Page(d)),
                         ![d].cursor = last, ![d].wide = FALSE]
          ELSE FanGoto(d, "fail") /\ UNCHANGED send
  /\ UNCHANGED <<tables, req, jobQ, pending, crashes>>

\* completeLADispatchIfReadyTx; an end dispatch it completes closes its job.
IfReadyAnyStatus(x) ==
  IF x.status \in Unfinished \cup {"DISPATCHED"} /\ x.succ + x.fail >= x.total
  THEN [x EXCEPT !.status = "COMPLETED"] ELSE x
IfReady(x) ==
  IF x.status = "DISPATCHED" /\ x.succ + x.fail >= x.total
  THEN [x EXCEPT !.status = "COMPLETED"] ELSE x
CloseEnded(before, after) ==
  [j \in Requests |->
     IF job[j] = "ACTIVE"
        /\ \E d \in Requests : /\ JobOf(d) = j /\ req[d].action = "end"
                               /\ before[d].status # "COMPLETED"
                               /\ after[d].status = "COMPLETED"
     THEN "CLOSED" ELSE job[j]]

CompleteEnqueue(d) ==
  /\ fan[d].pc = "complete"
  /\ \E answer \in Answers :
       /\ Call("complete", answer)
       /\ LET counted == [row[d] EXCEPT !.total = fan[d].count, !.status = "DISPATCHED"]
              written == IF fan[d].count = 0 THEN [counted EXCEPT !.status = "COMPLETED"]
                                             ELSE IfReady(counted)
          IN  row' = IF TakesEffect(answer) THEN [row EXCEPT ![d] = written] ELSE row
       /\ job' = IF fan[d].count = 0 THEN job ELSE CloseEnded(row, row')
       /\ FanGoto(d, IF answer # "ok" THEN "fail"
                     ELSE IF fan[d].count = 0 /\ req[d].action # "update"
                          THEN "finishEmpty" ELSE "done")
  /\ UNCHANGED <<expired, valid, assoc, req, jobQ, send, pending, crashes>>

\* The rest of completeEmptyLADispatch, a statement of its own.
FinishEmpty(d) ==
  /\ fan[d].pc = "finishEmpty"
  /\ \E answer \in Answers :
       /\ Call("finishEmpty", answer)
       /\ job' = IF TakesEffect(answer)
                 THEN IfActive(JobOf(d), IF req[d].action = "start" THEN "FAILED" ELSE "CLOSED")
                 ELSE job
       /\ FanGoto(d, IF answer = "ok" THEN "done" ELSE "fail")
  /\ UNCHANGED <<expired, row, valid, assoc, req, jobQ, send, pending, crashes>>

\* FailLADispatchEnqueue leaves a row alone that is dispatched or settled.
FailEnqueue(d) ==
  /\ fan[d].pc = "fail"
  /\ \E answer \in Answers :
       /\ Call("failEnqueue", answer)
       /\ row' = IF TakesEffect(answer) /\ row[d].status \in Unfinished
                 THEN [row EXCEPT ![d].status = "FAILED", ![d].total = fan[d].count]
                 ELSE row
  /\ FanGoto(d, IF req[d].action = "start" THEN "failStart" ELSE "done")
  /\ UNCHANGED <<job, expired, valid, assoc, req, jobQ, send, pending, crashes>>

FailStart(d) ==
  /\ fan[d].pc = "failStart"
  /\ \E answer \in Answers :
       /\ Call("failJob", answer)
       /\ job' = IF TakesEffect(answer) THEN IfActive(JobOf(d), "FAILED") ELSE job
  /\ FanGoto(d, "done")
  /\ UNCHANGED <<expired, row, valid, assoc, req, jobQ, send, pending, crashes>>

-----------------------------------------------------------------------------
(***************************************************************************)
(* Senders and the outcome worker.                                         *)
(***************************************************************************)
DispatchLATask(d, t, result) ==
  /\ send[d][t] = "task"
  /\ send' = [send EXCEPT ![d][t] = result]
  /\ pending' = pending \cup {<<d, t>>}
  /\ UNCHANGED <<tables, req, jobQ, fan, faults, crashes>>

\* One batch, in one transaction.  A batch whose transaction reports an error is
\* kept for the next flush, also when it took effect: nothing tells that an
\* outcome was counted before, so that the next flush counts it again.
CountedUnchecked(d, batch) ==
  LET of(results) == Cardinality({o \in batch : o[1] = d /\ send[d][o[2]] \in results})
  IN  [row[d] EXCEPT !.succ = @ + of({"ok"}), !.fail = @ + of({"invalidToken", "refused"})]
Counted(d, batch) ==
  LET of(results) == Cardinality({o \in batch : o[1] = d /\ send[d][o[2]] \in results})
  IN  IF \E o \in batch : o[1] = d
      THEN IfReady([row[d] EXCEPT !.succ = @ + of({"ok"}),
                                  !.fail = @ + of({"invalidToken", "refused"})])
      ELSE row[d]

ApplyLAOutcomeBatch(batch) ==
  /\ batch \subseteq pending /\ batch # {}
  /\ \E answer \in Answers :
       /\ Call("apply", answer)
       /\ pending' = IF answer = "ok" THEN pending \ batch ELSE pending
       /\ IF TakesEffect(answer)
          THEN /\ valid' = valid \ {o[2] : o \in {p \in batch : send[p[1]][p[2]] = "invalidToken"}}
               /\ assoc' = assoc \cup
                    {<<ActivityOf(o[1]), o[2]>> : o \in {p \in batch :
                       /\ send[p[1]][p[2]] = "ok" /\ req[p[1]].action = "start"
                       /\ Kind[p[2]] = "fcm"}}
               /\ row' = [d \in Requests |-> Counted(d, batch)]
               /\ job' = CloseEnded(row, row')
          ELSE UNCHANGED <<valid, assoc, row, job>>
  /\ UNCHANGED <<expired, req, jobQ, fan, send, crashes>>

-----------------------------------------------------------------------------
(***************************************************************************)
(* Registrations and invalidations of tokens, the clock, and a kill of the *)
(* process: the tables survive it.                                         *)
(***************************************************************************)
RegisterLAToken(t, a) ==
  /\ t \in Volatile /\ Kind[t] # "start" /\ OfActivity(a) # {}
  /\ valid' = valid \cup {t}
  /\ assoc' = assoc \cup {<<a, t>>}
  /\ UNCHANGED <<job, expired, row, req, lane, faults, crashes>>

InvalidateLAToken(t) ==
  /\ t \in Volatile /\ valid' = valid \ {t}
  /\ UNCHANGED <<job, expired, row, assoc, req, lane, faults, crashes>>

Expire(j) ==
  /\ j \in Perishable /\ job[j] # "NONE" /\ expired' = expired \cup {j}
  /\ UNCHANGED <<job, row, valid, assoc, req, lane, faults, crashes>>

Answered == {"accepted", "alreadyStarted", "closed", "rejected", "gone"}
Crash ==
  /\ crashes < MaxCrashes /\ crashes' = crashes + 1
  /\ req' = [r \in Requests |->
       IF req[r].pc \in Answered \cup {"idle"} THEN req[r]
       ELSE [req[r] EXCEPT !.pc = "gone", !.closing = {}]]
  /\ jobQ' = <<>> /\ pending' = {}
  /\ fan' = [d \in Requests |-> IF d \in Running THEN [NoFan EXCEPT !.pc = "done"] ELSE fan[d]]
  /\ send' = [d \in Requests |-> [t \in Tokens |->
       IF send[d][t] = "task" THEN "lost" ELSE send[d][t]]]
  /\ UNCHANGED <<tables, faults>>

-----------------------------------------------------------------------------
Arrive(r) ==
  \E w \in Menu[r] : StartLookup(r, w) \/ UpdateFind(r, w) \/ EndFind(r, w)
RequestStep(r) ==
  \/ StartInsert(r) \/ RollbackStart(r) \/ UpdateLAJobPayloadIfActive(r)
  \/ CreateLADispatch(r) \/ Submit(r) \/ MarkLADispatchEnqueued(r)
  \/ MarkEnqueueFailed(r) \/ FailLAJobIfActive(r)
FanoutStep(d) ==
  \/ SupersedeIfStale(d, "guard", "progress") \/ MarkInProgress(d)
  \/ SupersedeIfStale(d, "check", "scope") \/ LoadScope(d) \/ FanOutPage(d)
  \/ CompleteEnqueue(d) \/ FinishEmpty(d) \/ FailEnqueue(d) \/ FailStart(d)
SendStep == \E d \in Requests, t \in Tokens, result \in Results : DispatchLATask(d, t, result)
Flush == \E batch \in SUBSET pending : ApplyLAOutcomeBatch(batch)

Next ==
  \/ \E r \in Requests : Arrive(r) \/ RequestStep(r) \/ FanoutStep(r) \/ Expire(r)
  \/ Receive \/ SendStep \/ Flush
  \/ \E t \in Tokens : InvalidateLAToken(t) \/ \E a \in Activities : RegisterLAToken(t, a)
  \/ Crash

Spec == Init /\ [][Next]_vars

\* Handlers and workers are scheduled, the database and the providers answer,
\* the ticker of the outcome worker fires.  No request need arrive.
Fairness ==
  /\ \A r \in Requests : WF_vars(RequestStep(r)) /\ WF_vars(FanoutStep(r))
  /\ WF_vars(Receive) /\ WF_vars(SendStep) /\ WF_vars(Flush)
FairSpec == Spec /\ Fairness

-----------------------------------------------------------------------------
(***************************************************************************)
(* Properties.                                                             *)
(***************************************************************************)
RequestPC == Answered \cup {"idle", "insert", "rollback", "touch", "row", "submit", "mark",
                            "markFailed", "failJob"}
FanoutPC == {"idle", "guard", "progress", "check", "scope", "page", "complete",
             "finishEmpty", "fail", "failStart", "done"}

\* Type invariant; no more fan-outs run than there are masters, and none emits
\* more tasks than there are tokens.
TypeOK ==
  /\ job \in [Requests -> JobStatus]
  /\ expired \subseteq Perishable
  /\ row \in [Requests -> [status : DispatchStatus, total : Nat, succ : Nat, fail : Nat]]
  /\ valid \subseteq Tokens /\ assoc \subseteq Activities \X Tokens
  /\ req \in [Requests -> [pc : RequestPC, action : Actions, act : Activities,
                           job : Requests, closing : SUBSET Requests]]
  /\ jobQ \in Seq(Requests)
  /\ fan \in [Requests -> [pc : FanoutPC, cursor : Nat, wide : BOOLEAN, count : Nat]]
  /\ Cardinality(Running) <= Masters
  /\ \A d \in Requests : fan[d].count <= Cardinality(Tokens)
  /\ send \in [Requests -> [Tokens -> {"none", "task", "lost", "ok"} \cup Results]]
  /\ pending \subseteq Requests \X Tokens
  /\ faults \in Nat /\ crashes \in Nat

Emitted(d) == {t \in Tokens : send[d][t] # "none"}

\* A request that was answered with an error is sent to nobody, so a client
\* may repeat it: only a failed submission is reported, not a failure to note
\* a successful one (server/live_activity.go:47-68).
RejectedNotSent ==
  \A r \in Requests : req[r].pc = "rejected" =>
    Emitted(r) = {} /\ fan[r].pc = "idle" /\ \A i \in DOMAIN jobQ : jobQ[i] # r

\* A dispatch that is completed, superseded or failed stays so, although its
\* request, its master and the outcome worker all write the status, and a
\* master may take a completion for failed that took effect
\* (live_activity_postgres.go:586-620, 709-781, 920-945).
SettledIsFinal ==
  [][\A d \in Requests :
       row[d].status \in Settled => row'[d].status = row[d].status]_vars

\* The totals of a dispatch that is through its fan-out are what was emitted;
\* COMPLETED means that every outcome is in, and what is not yet COMPLETED
\* still waits for one: an outcome may be applied before or after the total is
\* written (live_activity_postgres.go:709-740, 898-945).  Not when "apply" is
\* Unsure: a commit of outcomes that takes effect and reports an error is
\* repeated and counts them twice (live_activity_postgres.go:818, outcome.go:106).
Accounted ==
  \A d \in Requests :
    LET x == row[d]
        out == {t \in Tokens : send[d][t] = "task" \/ <<d, t>> \in pending}
    IN  /\ x.status \in {"DISPATCHED", "COMPLETED", "SUPERSEDED"} =>
             x.total = Cardinality(Emitted(d))
        /\ x.status = "COMPLETED" => x.succ + x.fail = x.total /\ out = {}
        /\ x.status = "DISPATCHED" => out # {} \/ crashes > 0

\* A device that was sent the start of an activity over FCM gets its updates
\* while the activity is active: until the outcome of the start has associated
\* the token, updates go to all tokens of the scope, and the switch to the
\* associated tokens comes no sooner (live_activity_postgres.go:622-652,
\* 799-816, 920-933).  Like Accounted, it needs that "apply" is not Unsure.
StartedStaysReachable ==
  \A j \in Active : \A t \in valid :
    /\ Kind[t] = "fcm" /\ send[j][t] = "ok"
    /\ row[j].status \in {"QUEUED", "IN_PROGRESS", "DISPATCHED", "COMPLETED"}
    => StartPending(j) \/ <<req[j].act, t>> \in assoc

\* The newest update that reached the pipeline is not superseded, neither by an
\* older one nor by one whose submission failed, and once it is dispatched it
\* has gone to every device known to show the activity
\* (live_activity_postgres.go:760-781, fanout_la.go:40-71).
Reached(d) ==
  /\ req[d].action = "update" /\ row[d].status \notin {"NONE", "ENQUEUE_PENDING"}
  /\ req[d].pc \in {"mark", "accepted", "gone"}
NewestUpdateReaches ==
  \A d \in Requests :
    Reached(d) /\ (\A e \in Requests : e > d /\ JobOf(e) = JobOf(d) => ~Reached(e)) =>
      /\ row[d].status # "SUPERSEDED"
      /\ JobOf(d) \in Past /\ row[d].status \in {"DISPATCHED", "COMPLETED"} =>
           UpdateTokens \ Volatile \subseteq
             Emitted(d) \cup {t \in Tokens : \E e \in Requests : send[e][t] = "invalidToken"}

\* "already_started" answers with a job of the activity that was asked for,
\* although another start of the scope may run at the same time
\* (live_activity_postgres.go:276-294, 350-361).
AlreadyStartedIsOwn ==
  \A r \in Requests : req[r].pc = "alreadyStarted" => req[JobOf(r)].act = req[r].act

\* openapi.yaml:561: "Existing Live Activity was already started or closed."
\* An answer "already_started" means that the job is active, or was until it
\* was closed.
AlreadyStartedMeansStarted ==
  \A r \in Requests : req[r].pc = "alreadyStarted" => job[JobOf(r)] \in {"ACTIVE", "CLOSED"}

\* Every dispatch that entered the pipeline is settled, and the end of an
\* activity closes it (or it failed meanwhile).
DispatchSettles ==
  \A d \in Requests :
    (\E i \in DOMAIN jobQ : jobQ[i] = d) ~>
      /\ row[d].status \in Settled
      /\ req[d].action = "end" /\ row[d].status = "COMPLETED" => job[JobOf(d)] # "ACTIVE"
=============================================================================
