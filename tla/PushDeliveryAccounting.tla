----------------------- MODULE PushDeliveryAccounting -----------------------
(***************************************************************************)
(* What becomes of the tasks of a job, proved for PushDelivery: each is in *)
(* one place until it is counted, a completed job is counted in full and   *)
(* reached every stable token, and what has ended stays ended.             *)
(***************************************************************************)
EXTENDS PushDeliverySafety, WellFoundedInduction

-----------------------------------------------------------------------------
(***************************************************************************)
(* Which steps touch the tasks, and which the rows.                        *)
(***************************************************************************)
tasks == <<taskQ, sender, dlq, held, batch, sent>>

LEMMA TaskSteps ==
  ASSUME [Next]_vars
  PROVE  \/ \E m \in Masters : Emit(m)
         \/ \E s \in Senders : SenderStep(s)
         \/ OutcomeReceive \/ OutcomeCollect \/ Flush \/ Crash
         \/ \E j \in Jobs : DeleteTarget(j)
         \/ UNCHANGED <<tasks, succ, fail, receipts, crashes>>
<1> USE DEF rows, lane, vars, tasks
<1>1. ASSUME NEW j \in Jobs, CreatePublishJob(j) \/ HandlerStep(j) \/ SubmitScheduledJob(j)
      PROVE  UNCHANGED <<tasks, succ, fail, receipts, crashes>>
  BY <1>1 DEF CreatePublishJob, HandlerStep, EnqueueImmediateJob, EnqueueTimeout,
              MarkEnqueueFailed, SubmitScheduledJob
<1>2. ASSUME NEW m \in Masters, MasterStep(m), ~Emit(m)
      PROVE  UNCHANGED <<tasks, succ, fail, receipts, crashes>>
  BY <1>2 DEF MasterStep, MasterReceive, MarkInProgress, FetchPage, FinalizeJobDispatch,
              CompleteJobIfDone, MarkFanoutFailed
<1>3. ASSUME GetScheduledJobs \/ FlushTick \/ \E t \in Tokens : ChangeAudience(t)
      PROVE  UNCHANGED <<tasks, succ, fail, receipts, crashes>>
  BY <1>3 DEF GetScheduledJobs, FlushTick, ChangeAudience
<1> QED
  BY <1>1, <1>2, <1>3 DEF Next, Idle

\* The sender's and the outcome worker's steps leave the rest alone.
LEMMA SenderFrame ==
  ASSUME NEW s \in Senders, SenderStep(s)
  PROVE  UNCHANGED <<rows, audience, caller, claimed, jobQ, master, held, batch, phase,
                     sent, faults, crashes>>
BY DEF SenderStep, SenderReceive, DispatchPushTask

LEMMA OutcomeFrame ==
  /\ OutcomeReceive \/ OutcomeCollect => UNCHANGED rows
  /\ OutcomeReceive \/ OutcomeCollect \/ Flush =>
       UNCHANGED <<total, audience, caller, claimed, jobQ, taskQ, master, sender, sent, crashes>>
BY DEF OutcomeReceive, OutcomeCollect, Flush, rows

LEMMA EmitFrame ==
  ASSUME NEW m \in Masters, Emit(m)
  PROVE  UNCHANGED <<rows, audience, caller, claimed, jobQ, dlq, sender, held, batch, phase,
                     faults, crashes>>
BY DEF Emit

\* How one step may change the status of a job.
LEMMA StatusSteps ==
  ASSUME TypeOK, [Next]_vars, NEW j \in Jobs, status'[j] # status[j]
  PROVE  \/ CreatePublishJob(j) /\ status[j] = "NONE" /\ status'[j] \in {"QUEUED", "SCHEDULED"}
         \/ MarkEnqueueFailed(j) /\ Exists(j) /\ status'[j] = "FAILED"
         \/ GetScheduledJobs /\ status[j] = "SCHEDULED" /\ status'[j] = "QUEUED"
         \/ \E m \in Masters :
              /\ master[m].job = j /\ Exists(j)
              /\ \/ MarkInProgress(m) /\ status'[j] = "IN_PROGRESS"
                 \/ /\ FinalizeJobDispatch(m)
                    /\ status'[j] = FinalStatus(master[m].count)
                    /\ total'[j] = master[m].count
                 \/ CompleteJobIfDone(m) /\ status[j] = "DISPATCHED" /\ status'[j] = "COMPLETED"
                    /\ Done(status[j], succ[j], fail[j], total[j])
                 \/ MarkFanoutFailed(m) /\ status'[j] = "FAILED"
         \/ /\ Flush /\ ApplyOutcomes /\ Of(batch, j) # {}
            /\ status[j] = "DISPATCHED" /\ status'[j] = "COMPLETED"
            /\ succ'[j] + fail'[j] >= total[j]
         \/ DeleteTarget(j) /\ Exists(j) /\ status'[j] = "DELETED"
<1> USE DEF rows, lane, vars
<1>0. status \in [Jobs -> Statuses \cup {"NONE", "DELETED"}] /\ total \in [Jobs -> Nat]
  BY DEF TypeOK
<1>1. ASSUME NEW k \in Jobs, CreatePublishJob(k)
      PROVE  k = j /\ status[j] = "NONE" /\ status'[j] \in {"QUEUED", "SCHEDULED"}
  BY <1>0, <1>1 DEF CreatePublishJob, InsertJob, JobStatusForSchedule
<1>2. ASSUME NEW k \in Jobs, HandlerStep(k)
      PROVE  k = j /\ MarkEnqueueFailed(j) /\ Exists(j) /\ status'[j] = "FAILED"
  BY <1>0, <1>2 DEF HandlerStep, EnqueueImmediateJob, EnqueueTimeout, MarkEnqueueFailed,
                    UpdateJobStatus
<1>3. ASSUME NEW k \in Jobs, DeleteTarget(k)
      PROVE  k = j /\ Exists(j) /\ status'[j] = "DELETED"
  BY <1>0, <1>3 DEF DeleteTarget
<1>4. GetScheduledJobs => status[j] = "SCHEDULED" /\ status'[j] = "QUEUED"
  BY <1>0 DEF GetScheduledJobs, Due
<1>5. ASSUME NEW m \in Masters, MasterStep(m)
      PROVE  /\ master[m].job = j /\ Exists(j)
             /\ \/ MarkInProgress(m) /\ status'[j] = "IN_PROGRESS"
                \/ /\ FinalizeJobDispatch(m)
                   /\ status'[j] = FinalStatus(master[m].count)
                   /\ total'[j] = master[m].count
                \/ CompleteJobIfDone(m) /\ status[j] = "DISPATCHED" /\ status'[j] = "COMPLETED"
                   /\ Done(status[j], succ[j], fail[j], total[j])
                \/ MarkFanoutFailed(m) /\ status'[j] = "FAILED"
  <2>1. CASE MarkInProgress(m)
    BY <1>0, <2>1 DEF MarkInProgress, UpdateJobStatus
  <2>2. CASE FinalizeJobDispatch(m)
    BY <1>0, <2>2 DEF FinalizeJobDispatch, UpdateJobStatus
  <2>3. CASE CompleteJobIfDone(m)
    BY <1>0, <2>3 DEF CompleteJobIfDone, Done, Exists, Statuses
  <2>4. CASE MarkFanoutFailed(m)
    BY <1>0, <2>4 DEF MarkFanoutFailed, UpdateJobStatus
  <2>5. ~(MasterReceive(m) \/ FetchPage(m) \/ Emit(m))
    BY DEF MasterReceive, FetchPage, Emit
  <2> QED
    BY <1>5, <2>1, <2>2, <2>3, <2>4, <2>5 DEF MasterStep
<1>6. Flush => /\ ApplyOutcomes /\ Of(batch, j) # {}
               /\ status[j] = "DISPATCHED" /\ status'[j] = "COMPLETED"
               /\ succ'[j] + fail'[j] >= total[j]
  BY <1>0 DEF Flush, ApplyOutcomes, Done
<1>7. ASSUME \/ \E k \in Jobs : SubmitScheduledJob(k)
             \/ \E s \in Senders : SenderStep(s)
             \/ OutcomeReceive \/ OutcomeCollect \/ FlushTick \/ Crash
             \/ \E t \in Tokens : ChangeAudience(t)
             \/ UNCHANGED vars
      PROVE  FALSE
  BY <1>7, SenderFrame, OutcomeFrame
     DEF SubmitScheduledJob, FlushTick, Crash, ChangeAudience
<1> QED
  BY <1>1, <1>2, <1>3, <1>4, <1>5, <1>6, <1>7 DEF Next, Idle

\* A deleted job stays deleted.
LEMMA DeletedStays ==
  ASSUME TypeOK, [Next]_vars, NEW j \in Jobs, status[j] = "DELETED"
  PROVE  status'[j] = "DELETED"
BY StatusSteps DEF Exists, Statuses

-----------------------------------------------------------------------------
(***************************************************************************)
(* OnePlace: a task moves from place to place and is never in two.         *)
(***************************************************************************)
Same(x, y) == x.job = y.job /\ x.token = y.token

LEMMA AtAppend ==
  ASSUME NEW T, NEW q \in Seq(T), NEW y \in T
  PROVE  /\ \A x : At(Append(q, y), x) <=> At(q, x) \/ Same(x, y)
         /\ NoneTwice(q) /\ ~At(q, y) => NoneTwice(Append(q, y))
<1>1. /\ DOMAIN Append(q, y) = 1 .. Len(q) + 1 /\ DOMAIN q = 1 .. Len(q) /\ Len(q) \in Nat
      /\ Append(q, y)[Len(q) + 1] = y
      /\ \A i \in 1 .. Len(q) : Append(q, y)[i] = q[i]
  OBVIOUS
<1> QED
  BY <1>1 DEF At, NoneTwice, Same

LEMMA AtTail ==
  ASSUME NEW T, NEW q \in Seq(T), q # <<>>
  PROVE  /\ \A x : At(q, x) <=> At(Tail(q), x) \/ Same(x, Head(q))
         /\ NoneTwice(q) => NoneTwice(Tail(q)) /\ \A x : Same(x, Head(q)) => ~At(Tail(q), x)
<1>1. /\ DOMAIN Tail(q) = 1 .. Len(q) - 1 /\ DOMAIN q = 1 .. Len(q) /\ Len(q) \in Nat \ {0}
      /\ Head(q) = q[1]
      /\ \A i \in 1 .. Len(q) - 1 : Tail(q)[i] = q[i + 1]
  OBVIOUS
<1>2. ASSUME NEW x, At(q, x)
      PROVE  At(Tail(q), x) \/ Same(x, Head(q))
  <2>1. PICK i \in 1 .. Len(q) : q[i].job = x.job /\ q[i].token = x.token
    BY <1>1, <1>2 DEF At
  <2>2. CASE i = 1
    BY <1>1, <2>1, <2>2 DEF Same
  <2>3. CASE i # 1
    <3>1. i - 1 \in DOMAIN Tail(q) /\ Tail(q)[i - 1] = q[i]
      BY <1>1, <2>3
    <3> QED
      BY <2>1, <3>1 DEF At
  <2> QED
    BY <2>2, <2>3
<1>3. ASSUME NEW x, At(Tail(q), x) \/ Same(x, Head(q))
      PROVE  At(q, x)
  BY <1>1, <1>3 DEF At, Same
<1>4. ASSUME NoneTwice(q)
      PROVE  NoneTwice(Tail(q)) /\ \A x : Same(x, Head(q)) => ~At(Tail(q), x)
  BY <1>1, <1>4 DEF NoneTwice, At, Same
<1> QED
  BY <1>2, <1>3, <1>4

LEMMA AtOnly ==
  ASSUME NEW T, NEW q \in Seq(T), Len(q) <= 1, q # <<>>
  PROVE  Head(q) \in T /\ \A x : At(q, x) <=> Same(x, Head(q))
<1>1. Len(q) \in Nat \ {0}
  OBVIOUS
<1>2. Len(q) = 1
  BY <1>1
<1>3. /\ \A i : i \in DOMAIN q <=> i = 1
      /\ Head(q) = q[1] /\ q[1] \in T
  BY <1>2
<1> QED
  BY <1>3 DEF At, Same

LEMMA AtEmpty == NoneTwice(<<>>) /\ \A x : ~At(<<>>, x)
BY DEF NoneTwice, At

\* Tasks are told apart by job and token, and an outcome is about one task.
TaskOf(o) == [job |-> o.job, token |-> o.token]
LEMMA TaskIdentity ==
  /\ \A x, y \in Task : Same(x, y) <=> x = y
  /\ \A o \in Outcome : TaskOf(o) \in Task
  /\ \A x \in Task, o \in Outcome : Same(x, o) <=> x = TaskOf(o)
BY DEF Task, Outcome, Same, TaskOf

\* Where a task is, by the goroutine that owns it, and the place that follows.
Located(x) == At(taskQ, x) \/ InHand(x) \/ At(dlq, x) \/ At(held, x) \/ At(batch, x)

LEMMA OnePlaceEmit ==
  ASSUME TypeOK, Paging, OnePlace, NEW m \in Masters, Emit(m)
  PROVE  OnePlace'
<1> DEFINE j == master[m].job
<1>1. PICK t \in master[m].page :
        /\ \A u \in master[m].page : t <= u
        /\ taskQ' = Append(taskQ, [job |-> j, token |-> t])
        /\ sent' = [sent EXCEPT ![j] = @ \cup {t}]
  BY EmitMoves
<1>2. /\ j \in Jobs /\ t \in Tokens /\ sent \in [Jobs -> SUBSET Tokens]
      /\ taskQ \in Seq(Task)
  BY EmitMoves DEF TypeOK, MasterState
<1>3. t \notin sent[j]
  BY <1>1, EmitFresh
<1> DEFINE x == [job |-> j, token |-> t]
<1>4. x \in Task /\ x.job = j /\ x.token = t
  BY <1>2 DEF Task
<1>5. ~Located(x)
  BY <1>3, <1>4 DEF OnePlace, Located
<1>6. UNCHANGED <<dlq, sender, held, batch>>
  BY EmitFrame
<1>7. \A y \in Task : y.token \in sent[y.job] => y.token \in sent'[y.job]
  BY <1>1, <1>2 DEF Task
<1>8. t \in sent'[j]
  BY <1>1, <1>2
<1> HIDE DEF x, j
<1>9. /\ \A y : At(taskQ', y) <=> At(taskQ, y) \/ Same(y, x)
      /\ NoneTwice(taskQ')
      /\ \A y \in Task : Same(y, x) <=> y = x
  BY <1>1, <1>2, <1>4, <1>5, AtAppend, TaskIdentity DEF OnePlace, Located, x
<1>10. /\ \A y : InHand(y)' <=> InHand(y)
       /\ \A y : At(dlq', y) <=> At(dlq, y)
       /\ \A y : At(held', y) <=> At(held, y)
       /\ \A y : At(batch', y) <=> At(batch, y)
  BY <1>6 DEF InHand
<1> QED
  BY <1>4, <1>5, <1>6, <1>7, <1>8, <1>9, <1>10 DEF OnePlace, Located

LEMMA OnePlaceSender ==
  ASSUME TypeOK, OnePlace, NEW s \in Senders, SenderStep(s)
  PROVE  OnePlace'
<1>0. /\ taskQ \in Seq(Task) /\ dlq \in Seq(Outcome)
      /\ sender \in [Senders -> Task \cup {Nothing}]
      /\ UNCHANGED <<held, batch, sent>>
  BY SenderFrame DEF TypeOK
<1>a. /\ \A y : At(held', y) <=> At(held, y)
      /\ \A y : At(batch', y) <=> At(batch, y)
  BY <1>0
<1>1. CASE SenderReceive(s)
  <2> DEFINE x == Head(taskQ)
  <2>1. /\ taskQ # <<>> /\ taskQ' = Tail(taskQ) /\ sender[s] = Nothing
        /\ sender' = [sender EXCEPT ![s] = x] /\ dlq' = dlq
    BY <1>1 DEF SenderReceive
  <2>2. x \in Task
    BY <1>0, <2>1
  <2>3. \A y \in Task : Same(y, x) <=> y = x
    BY <2>2, TaskIdentity
  <2>4. /\ \A y : At(taskQ, y) <=> At(taskQ', y) \/ Same(y, x)
        /\ NoneTwice(taskQ') /\ ~At(taskQ', x)
    BY <1>0, <2>1, AtTail DEF OnePlace, Same
  <2>5. At(taskQ, x)
    BY <2>4 DEF Same
  <2> HIDE DEF x
  <2>6. \A y \in Task : InHand(y)' <=> InHand(y) \/ y = x
    BY <1>0, <2>1, <2>2, ConstantTypes DEF InHand
  <2>7. \A r, z \in Senders : sender'[r] = sender'[z] => r = z \/ sender'[r] = Nothing
    BY <1>0, <2>1, <2>2, <2>5 DEF OnePlace, InHand
  <2> QED
    BY <1>0, <1>a, <2>1, <2>2, <2>3, <2>4, <2>5, <2>6, <2>7 DEF OnePlace
<1>2. CASE DispatchPushTask(s)
  <2> DEFINE x == sender[s]
  <2>1. PICK ok \in BOOLEAN : dlq' = Append(dlq, [job |-> x.job, token |-> x.token, ok |-> ok])
    BY <1>2 DEF DispatchPushTask
  <2> DEFINE o == [job |-> x.job, token |-> x.token, ok |-> ok]
  <2>2. /\ x # Nothing /\ x \in Task /\ taskQ' = taskQ
        /\ sender' = [sender EXCEPT ![s] = Nothing]
    BY <1>0, <1>2 DEF DispatchPushTask
  <2>3. o \in Outcome /\ TaskOf(o) = x /\ Same(o, x)
    BY <2>2 DEF Outcome, Task, TaskOf, Same
  <2>4. InHand(x)
    BY DEF InHand
  <2> HIDE DEF o, x
  <2>5. ~At(dlq, x) /\ ~At(dlq, o)
    BY <2>2, <2>3, <2>4 DEF OnePlace, At, Same
  <2>6. /\ \A y : At(dlq', y) <=> At(dlq, y) \/ Same(y, o)
        /\ NoneTwice(dlq')
    BY <1>0, <2>1, <2>3, <2>5, AtAppend DEF OnePlace, o
  <2>7. \A y \in Task : Same(y, o) <=> y = x
    BY <2>3, TaskIdentity
  <2>8. \A y \in Task : InHand(y)' <=> InHand(y) /\ y # x
    BY <1>0, <2>2, ConstantTypes DEF InHand, OnePlace, x
  <2>9. \A r, z \in Senders : sender'[r] = sender'[z] => r = z \/ sender'[r] = Nothing
    BY <1>0, <2>2 DEF OnePlace
  <2> QED
    BY <1>0, <1>a, <2>2, <2>4, <2>6, <2>7, <2>8, <2>9 DEF OnePlace
<1> QED
  BY <1>1, <1>2 DEF SenderStep

LEMMA OnePlaceOutcome ==
  ASSUME TypeOK, OnePlace, OutcomeReceive \/ OutcomeCollect \/ Flush
  PROVE  OnePlace'
<1>0. /\ dlq \in Seq(Outcome) /\ held \in Seq(Outcome) /\ batch \in Seq(Outcome)
      /\ Len(held) <= 1
      /\ UNCHANGED <<taskQ, sender, sent>>
  BY OutcomeFrame DEF TypeOK
<1>a. /\ \A y : InHand(y)' <=> InHand(y)
      /\ \A y : At(taskQ', y) <=> At(taskQ, y)
  BY <1>0 DEF InHand
<1>1. CASE OutcomeReceive
  <2>1. /\ held = <<>> /\ dlq # <<>> /\ held' = <<Head(dlq)>> /\ dlq' = Tail(dlq)
        /\ batch' = batch
    BY <1>1 DEF OutcomeReceive
  <2>2. /\ \A y : At(dlq, y) <=> At(dlq', y) \/ Same(y, Head(dlq))
        /\ NoneTwice(dlq') /\ \A y : Same(y, Head(dlq)) => ~At(dlq', y)
    BY <1>0, <2>1, AtTail DEF OnePlace
  <2>3. \A y : At(held', y) <=> Same(y, Head(dlq))
    BY <2>1 DEF At, Same
  <2> QED
    BY <1>0, <1>a, <2>1, <2>2, <2>3, AtEmpty DEF OnePlace
<1>2. CASE OutcomeCollect
  <2> DEFINE o == Head(held)
  <2>1. held # <<>> /\ batch' = Append(batch, o) /\ held' = <<>> /\ dlq' = dlq
    BY <1>2 DEF OutcomeCollect
  <2>2. o \in Outcome /\ \A y : At(held, y) <=> Same(y, o)
    BY <1>0, <2>1, AtOnly
  <2>4. TaskOf(o) \in Task /\ Same(TaskOf(o), o)
    BY <2>2, TaskIdentity DEF TaskOf, Same
  <2> HIDE DEF o
  <2>5. ~At(batch, TaskOf(o)) /\ ~At(batch, o)
    BY <2>2, <2>4 DEF OnePlace, At, Same
  <2>6. /\ \A y : At(batch', y) <=> At(batch, y) \/ Same(y, o)
        /\ NoneTwice(batch')
    BY <1>0, <2>1, <2>2, <2>5, AtAppend DEF OnePlace
  <2> QED
    BY <1>0, <1>a, <2>1, <2>2, <2>6, AtEmpty DEF OnePlace
<1>3. CASE Flush
  <2>1. UNCHANGED <<dlq, held>> /\ (batch' = batch \/ batch' = <<>>)
    BY <1>3 DEF Flush
  <2> QED
    BY <1>0, <1>a, <2>1, AtEmpty DEF OnePlace
<1> QED
  BY <1>1, <1>2, <1>3

LEMMA OnePlaceStep == TypeOK /\ Paging /\ OnePlace /\ [Next]_vars => OnePlace'
<1> SUFFICES ASSUME TypeOK, Paging, OnePlace, [Next]_vars
             PROVE  OnePlace'
  OBVIOUS
<1>1. CASE UNCHANGED tasks
  BY <1>1 DEF OnePlace, InHand, tasks
<1>2. CASE Crash
  <2>1. /\ taskQ' = <<>> /\ dlq' = <<>> /\ held' = <<>> /\ batch' = <<>>
        /\ sender' = [s \in Senders |-> Nothing]
    BY <1>2 DEF Crash
  <2>2. \A y \in Task : ~InHand(y)'
    BY <2>1, ConstantTypes DEF InHand
  <2> QED
    BY <2>1, <2>2, AtEmpty DEF OnePlace
<1>3. ASSUME NEW j \in Jobs, DeleteTarget(j)
      PROVE  UNCHANGED tasks
  BY <1>3 DEF DeleteTarget, tasks, lane
<1> QED
  BY <1>1, <1>2, <1>3, TaskSteps, OnePlaceEmit, OnePlaceSender, OnePlaceOutcome DEF tasks

LEMMA OnePlaceInvariant == Spec => []OnePlace
<1>1. Init => OnePlace
  <2> SUFFICES ASSUME Init PROVE OnePlace
    OBVIOUS
  <2>1. /\ taskQ = <<>> /\ dlq = <<>> /\ held = <<>> /\ batch = <<>>
        /\ sender = [s \in Senders |-> Nothing]
    BY DEF Init
  <2>2. \A y \in Task : ~InHand(y)
    BY <2>1, ConstantTypes DEF InHand
  <2> QED
    BY <2>1, <2>2, AtEmpty DEF OnePlace
<1> QED
  BY <1>1, TypeCorrect, PagingInvariant, OnePlaceStep, PTL DEF Spec

-----------------------------------------------------------------------------
(***************************************************************************)
(* FailuresHaveReceipts: counter and receipts move together.               *)
(***************************************************************************)
ReceiptsOf(j) == {t \in receipts : t.job = j}

LEMMA FinitelyManyTasks ==
  ASSUME NEW S \in SUBSET Task, NEW j, \A t \in S : t.job = j
  PROVE  IsFiniteSet(S) /\ Cardinality(S) \in Nat
<1> DEFINE f == [t \in S |-> t.token]
<1>1. f \in [S -> Tokens]
  BY DEF Task
<1>2. \A a, b \in S : f[a] = f[b] => a = b
  BY DEF Task
<1> HIDE DEF f
<1>3. f \in Injection(S, Tokens)
  BY <1>1, <1>2 DEF Injection, IsInjective
<1>4. IsFiniteSet(S)
  BY <1>3, ConstantTypes, FS_Injection
<1> QED
  BY <1>4, FS_CardinalityType

\* The failures of a batch are as many as the receipts it makes.
LEMMA BatchReceipts ==
  ASSUME NEW q \in Seq(Outcome), NoneTwice(q), NEW j
  PROVE  LET F == {t \in FailedTasks(q) : t.job = j}
         IN  /\ IsFiniteSet(F) /\ Cardinality(F) \in Nat
             /\ Cardinality(F) = Cardinality(OfResult(q, j, FALSE))
<1> DEFINE F == {t \in FailedTasks(q) : t.job = j}
           S == OfResult(q, j, FALSE)
           f == [i \in S |-> TaskOf(q[i])]
<1>1. F \in SUBSET Task
  BY FailedTasksType
<1>2. IsFiniteSet(F) /\ Cardinality(F) \in Nat
  BY <1>1, FinitelyManyTasks
<1>3. \A i \in DOMAIN q : q[i].ok \in BOOLEAN
  <2> TAKE i \in DOMAIN q
  <2>1. q[i] \in Outcome
    OBVIOUS
  <2> QED
    BY <2>1 DEF Outcome
<1>4. f \in [S -> F]
  <2>1. ASSUME NEW i \in S
        PROVE  TaskOf(q[i]) \in FailedTasks(q) /\ TaskOf(q[i]).job = j
    <3>1. i \in DOMAIN q /\ q[i].job = j /\ ~q[i].ok
      BY DEF OfResult
    <3> QED
      BY <3>1 DEF FailedTasks, TaskOf
  <2> QED
    BY <2>1
<1>5. \A a, b \in S : f[a] = f[b] => a = b
  BY <1>3 DEF OfResult, NoneTwice, TaskOf
<1>6. \A t \in F : \E a \in S : f[a] = t
  <2> TAKE t \in F
  <2>1. PICK i \in DOMAIN q : ~q[i].ok /\ t = [job |-> q[i].job, token |-> q[i].token]
    BY DEF FailedTasks
  <2>2. i \in S
    BY <2>1, <1>3 DEF OfResult
  <2> QED
    BY <2>1, <2>2 DEF TaskOf
<1>7. IsFiniteSet(S)
  BY OfResultFinite
<1> HIDE DEF f, F, S
<1>8. f \in Bijection(S, F)
  BY <1>4, <1>5, <1>6 DEF Bijection, Injection, Surjection, IsInjective
<1>9. Cardinality(F) = Cardinality(S)
  BY <1>7, <1>8, FS_Bijection DEF ExistsBijection
<1> QED
  BY <1>2, <1>9 DEF F, S

LEMMA ReceiptsFlush ==
  ASSUME TypeOK, OnePlace, FailuresHaveReceipts, ReceiptsInsertable, ApplyOutcomes
  PROVE  FailuresHaveReceipts'
<1> SUFFICES ASSUME NEW j \in Jobs
             PROVE  fail'[j] = Cardinality(ReceiptsOf(j)')
  BY DEF FailuresHaveReceipts, ReceiptsOf
<1> DEFINE F == {t \in FailedTasks(batch) : t.job = j}
           R == ReceiptsOf(j)
<1>1. /\ batch \in Seq(Outcome) /\ receipts \subseteq Task /\ fail \in [Jobs -> Nat]
      /\ NoneTwice(batch)
  BY DEF TypeOK, OnePlace
<1>2. /\ IsFiniteSet(F) /\ Cardinality(F) \in Nat
      /\ Cardinality(F) = Cardinality(OfResult(batch, j, FALSE))
  BY <1>1, BatchReceipts
<1>3. IsFiniteSet(R) /\ Cardinality(R) \in Nat
  BY <1>1, FinitelyManyTasks DEF ReceiptsOf
<1>4. ReceiptsOf(j)' = R \cup F /\ R \cap F = {}
  BY DEF ReceiptsOf, ApplyOutcomes, ReceiptsInsertable
<1>5. ~Exists(j) => F = {}
  BY DEF ReceiptsInsertable
<1>6. FailureDelta(j) = Cardinality(F)
  BY <1>2, <1>5, FS_EmptySet DEF FailureDelta
<1>7. fail[j] = Cardinality(R)
  BY DEF FailuresHaveReceipts, ReceiptsOf
<1>8. fail'[j] = fail[j] + FailureDelta(j)
  BY <1>1 DEF ApplyOutcomes
<1> HIDE DEF F, R
<1>9. Cardinality(F) \in Nat /\ Cardinality(R \cap F) = 0
  BY <1>2, <1>4, FS_EmptySet
<1>10. Cardinality(R \cup F) = Cardinality(R) + Cardinality(F) - Cardinality(R \cap F)
  BY <1>2, <1>3, FS_Union
<1>11. Cardinality(R \cup F) = Cardinality(R) + Cardinality(F)
  BY <1>3, <1>9, <1>10
<1>12. fail'[j] = Cardinality(R) + Cardinality(F)
  BY <1>6, <1>7, <1>8
<1> QED
  BY <1>4, <1>11, <1>12

LEMMA ReceiptsDelete ==
  ASSUME TypeOK, FailuresHaveReceipts, NEW k \in Jobs, DeleteTarget(k)
  PROVE  FailuresHaveReceipts'
<1> SUFFICES ASSUME NEW j \in Jobs
             PROVE  fail'[j] = Cardinality(ReceiptsOf(j)')
  BY DEF FailuresHaveReceipts, ReceiptsOf
<1>1. fail' = [fail EXCEPT ![k] = 0] /\ receipts' = {t \in receipts : t.job # k}
  BY DEF DeleteTarget
<1>2. CASE j = k
  <2>1. ReceiptsOf(j)' = {} /\ fail'[j] = 0
    BY <1>1, <1>2 DEF ReceiptsOf, TypeOK
  <2> QED
    BY <2>1, FS_EmptySet
<1>3. CASE j # k
  <2>1. ReceiptsOf(j)' = ReceiptsOf(j) /\ fail'[j] = fail[j]
    BY <1>1, <1>3 DEF ReceiptsOf, TypeOK
  <2> QED
    BY <2>1 DEF FailuresHaveReceipts, ReceiptsOf
<1> QED
  BY <1>2, <1>3

\* The failure counter of every job is the number of its delivery receipts,
\* also when batches are applied twice and jobs are deleted meanwhile.
THEOREM FailuresReceipted == Spec => []FailuresHaveReceipts
<1>1. Init => FailuresHaveReceipts
  <2> SUFFICES ASSUME Init, NEW j \in Jobs
               PROVE  fail[j] = Cardinality({t \in receipts : t.job = j})
    BY DEF FailuresHaveReceipts
  <2>1. {t \in receipts : t.job = j} = {} /\ fail[j] = 0
    BY DEF Init
  <2> QED
    BY <2>1, FS_EmptySet
<1>2. TypeOK /\ OnePlace /\ FailuresHaveReceipts /\ [Next]_vars => FailuresHaveReceipts'
  <2> SUFFICES ASSUME TypeOK, OnePlace, FailuresHaveReceipts, [Next]_vars
               PROVE  FailuresHaveReceipts'
    OBVIOUS
  <2>1. CASE UNCHANGED <<fail, receipts>>
    BY <2>1 DEF FailuresHaveReceipts
  <2>2. CASE Flush
    BY <2>1, <2>2, ReceiptsFlush DEF Flush
  <2>3. \/ \E m \in Masters : Emit(m)
        \/ \E s \in Senders : SenderStep(s)
        \/ OutcomeReceive \/ OutcomeCollect \/ Crash
        => UNCHANGED <<fail, receipts>>
    BY EmitFrame, SenderFrame, OutcomeFrame DEF Crash, rows
  <2> QED
    BY <2>1, <2>2, <2>3, TaskSteps, ReceiptsDelete
<1> QED
  BY <1>1, <1>2, TypeCorrect, OnePlaceInvariant, PTL DEF Spec

-----------------------------------------------------------------------------
(***************************************************************************)
(* Conserved: what is outstanding and what is counted add up to what was   *)
(* sent.                                                                   *)
(***************************************************************************)
LEMMA CountTypes ==
  ASSUME TypeOK, NEW j \in Jobs
  PROVE  /\ Cardinality(Of(taskQ, j)) \in Nat /\ Cardinality(Of(dlq, j)) \in Nat
         /\ Cardinality(Of(held, j)) \in Nat /\ Cardinality(Of(batch, j)) \in Nat
         /\ IsFiniteSet(Sending(j)) /\ Cardinality(Sending(j)) \in Nat
         /\ succ[j] \in Nat /\ fail[j] \in Nat /\ total[j] \in Nat
         /\ Cardinality(sent[j]) \in Nat /\ IsFiniteSet(sent[j])
<1>1. /\ taskQ \in Seq(Task) /\ dlq \in Seq(Outcome) /\ held \in Seq(Outcome)
      /\ batch \in Seq(Outcome)
      /\ succ[j] \in Nat /\ fail[j] \in Nat /\ total[j] \in Nat /\ sent[j] \in SUBSET Tokens
  BY DEF TypeOK
<1>2. Sending(j) \subseteq Senders
  BY DEF Sending
<1>3. IsFiniteSet(Sending(j)) /\ Cardinality(Sending(j)) \in Nat
  BY <1>2, ConstantTypes, FS_Subset, FS_CardinalityType
<1> QED
  BY <1>1, <1>3, OfFinite, TokenSets

LEMMA OfOnlyTail ==
  ASSUME NEW T, NEW q \in Seq(T), Len(q) <= 1, q # <<>>, NEW j
  PROVE  Of(Tail(q), j) = {}
<1>1. Len(q) \in Nat \ {0} /\ DOMAIN Tail(q) = 1 .. Len(q) - 1
  OBVIOUS
<1>2. \A i : i \notin DOMAIN Tail(q)
  BY <1>1
<1> QED
  BY <1>2 DEF Of

\* The tasks of job j that are counted or outstanding.
Known(j) == succ[j] + fail[j] + Outstanding(j)

LEMMA KnownEmit ==
  ASSUME TypeOK, Paging, NEW m \in Masters, Emit(m), NEW j \in Jobs
  PROVE  \/ Known(j)' = Known(j) /\ sent'[j] = sent[j]
         \/ Known(j)' = Known(j) + 1 /\ Cardinality(sent'[j]) = Cardinality(sent[j]) + 1
<1> DEFINE k == master[m].job
<1>1. PICK t \in master[m].page :
        /\ taskQ' = Append(taskQ, [job |-> k, token |-> t])
        /\ sent' = [sent EXCEPT ![k] = @ \cup {t}]
  BY EmitMoves
<1> DEFINE x == [job |-> k, token |-> t]
           one == IF x.job = j THEN 1 ELSE 0
<1>2. /\ k \in Jobs /\ t \in Tokens /\ x \in Task /\ t \notin sent[k]
      /\ taskQ \in Seq(Task) /\ sent \in [Jobs -> SUBSET Tokens]
  BY EmitMoves, EmitFresh DEF TypeOK, MasterState, Task
<1>3. Cardinality(Of(taskQ', j)) = Cardinality(Of(taskQ, j)) + one
  BY <1>1, <1>2, OfAppend
<1>4. UNCHANGED <<succ, fail, sender, dlq, held, batch>>
  BY EmitFrame DEF rows
<1>5. Known(j)' = Known(j) + one
  <2> HIDE DEF one
  <2>1. one \in {0, 1}
    BY DEF one
  <2>2. Sending(j)' = Sending(j)
    BY <1>4 DEF Sending
  <2>3. Outstanding(j)' = Outstanding(j) + one /\ Outstanding(j) \in Nat
    BY <1>3, <1>4, <2>1, <2>2, CountTypes DEF Outstanding
  <2> QED
    BY <1>4, <2>1, <2>3, CountTypes DEF Known
<1>6. CASE k = j
  <2>1. sent'[j] = sent[j] \cup {t} /\ one = 1
    BY <1>1, <1>2, <1>6
  <2>2. Cardinality(sent'[j]) = Cardinality(sent[j]) + 1
    BY <2>1, <1>2, <1>6, CountTypes, FS_AddElement
  <2> QED
    BY <1>5, <2>1, <2>2
<1>7. CASE k # j
  <2>1. sent'[j] = sent[j] /\ one = 0
    BY <1>1, <1>2, <1>7
  <2>2. Known(j) \in Nat
    BY CountTypes DEF Known, Outstanding
  <2> QED
    BY <1>5, <2>1, <2>2
<1> QED
  BY <1>6, <1>7

LEMMA KnownSender ==
  ASSUME TypeOK, NEW s \in Senders, SenderStep(s), NEW j \in Jobs
  PROVE  Known(j)' = Known(j)
<1>0. /\ taskQ \in Seq(Task) /\ dlq \in Seq(Outcome)
      /\ sender \in [Senders -> Task \cup {Nothing}]
      /\ UNCHANGED <<succ, fail, held, batch>>
  BY SenderFrame DEF TypeOK, rows
<1>1. CASE SenderReceive(s)
  <2> DEFINE x == Head(taskQ)
             one == IF x.job = j THEN 1 ELSE 0
  <2>1. /\ taskQ # <<>> /\ taskQ' = Tail(taskQ) /\ sender[s] = Nothing
        /\ sender' = [sender EXCEPT ![s] = x] /\ dlq' = dlq
    BY <1>1 DEF SenderReceive
  <2>2. x \in Task /\ x # Nothing
    BY <1>0, <2>1, ConstantTypes
  <2>3. Cardinality(Of(taskQ', j)) = Cardinality(Of(taskQ, j)) - one
    BY <1>0, <2>1, OfTail
  <2>4. Cardinality(Sending(j)') = Cardinality(Sending(j)) + one
    <3>1. s \notin Sending(j)
      BY <2>1 DEF Sending
    <3>2. Sending(j)' = IF x.job = j THEN Sending(j) \cup {s} ELSE Sending(j)
      BY <1>0, <2>1, <2>2 DEF Sending
    <3>3. CASE x.job = j
      BY <3>1, <3>2, <3>3, CountTypes, FS_AddElement
    <3>4. CASE x.job # j
      BY <3>2, <3>4, CountTypes
    <3> QED
      BY <3>3, <3>4
  <2> HIDE DEF one
  <2>5. one \in {0, 1}
    BY DEF one
  <2> QED
    BY <1>0, <2>1, <2>3, <2>4, <2>5, CountTypes DEF Known, Outstanding
<1>2. CASE DispatchPushTask(s)
  <2> DEFINE x == sender[s]
             one == IF x.job = j THEN 1 ELSE 0
  <2>1. PICK ok \in BOOLEAN : dlq' = Append(dlq, [job |-> x.job, token |-> x.token, ok |-> ok])
    BY <1>2 DEF DispatchPushTask
  <2> DEFINE o == [job |-> x.job, token |-> x.token, ok |-> ok]
  <2>2. /\ x # Nothing /\ x \in Task /\ taskQ' = taskQ
        /\ sender' = [sender EXCEPT ![s] = Nothing]
    BY <1>0, <1>2 DEF DispatchPushTask
  <2>3. o \in Outcome /\ o.job = x.job
    BY <2>2 DEF Outcome, Task
  <2>4. Cardinality(Of(dlq', j)) = Cardinality(Of(dlq, j)) + one
    BY <1>0, <2>1, <2>3, OfAppend
  <2>5. Cardinality(Sending(j)') = Cardinality(Sending(j)) - one
    <3>1. s \in Sending(j) <=> x.job = j
      BY <2>2 DEF Sending
    <3>2. Sending(j)' = Sending(j) \ {s}
      BY <1>0, <2>2 DEF Sending
    <3>3. Cardinality(Sending(j) \ {s}) = IF s \in Sending(j) THEN Cardinality(Sending(j)) - 1
                                                             ELSE Cardinality(Sending(j))
      BY CountTypes, FS_RemoveElement
    <3>4. Cardinality(Sending(j)) \in Nat
      BY CountTypes
    <3>5. CASE x.job = j
      BY <3>1, <3>2, <3>3, <3>4, <3>5
    <3>6. CASE x.job # j
      BY <3>1, <3>2, <3>3, <3>4, <3>6
    <3> QED
      BY <3>5, <3>6
  <2> HIDE DEF one
  <2>6. one \in {0, 1}
    BY DEF one
  <2> QED
    BY <1>0, <2>2, <2>4, <2>5, <2>6, CountTypes DEF Known, Outstanding
<1> QED
  BY <1>1, <1>2 DEF SenderStep

\* The counters of a job that exists or was never sent grow by its outcomes.
LEMMA DeltaSum ==
  ASSUME TypeOK, NEW j \in Jobs, Exists(j) \/ Cardinality(Of(batch, j)) = 0, ApplyOutcomes
  PROVE  succ'[j] + fail'[j] = succ[j] + fail[j] + Cardinality(Of(batch, j))
<1> DEFINE a == Cardinality(OfResult(batch, j, TRUE))
           b == Cardinality(OfResult(batch, j, FALSE))
<1>1. a \in Nat /\ b \in Nat /\ Cardinality(Of(batch, j)) = a + b
  BY OfSplit, OfResultFinite DEF TypeOK
<1>2. SuccessDelta(j) = (IF Exists(j) THEN a ELSE 0)
  BY DEF SuccessDelta
<1>3. FailureDelta(j) = (IF Exists(j) THEN b ELSE 0)
  BY DEF FailureDelta
<1>4. succ'[j] = succ[j] + SuccessDelta(j) /\ fail'[j] = fail[j] + FailureDelta(j)
  BY DEF ApplyOutcomes
<1> HIDE DEF a, b
<1> QED
  BY <1>1, <1>2, <1>3, <1>4, CountTypes

LEMMA KnownOutcome ==
  ASSUME TypeOK, OutcomeReceive \/ OutcomeCollect \/ Flush, "commit" \notin Faults,
         NEW j \in Jobs, Exists(j) \/ Cardinality(Of(batch, j)) = 0
  PROVE  Known(j)' = Known(j)
<1>0. /\ dlq \in Seq(Outcome) /\ held \in Seq(Outcome) /\ batch \in Seq(Outcome)
      /\ Len(held) <= 1
      /\ UNCHANGED <<taskQ, sender>>
      /\ Sending(j)' = Sending(j)
  BY OutcomeFrame DEF TypeOK, Sending
<1>1. CASE OutcomeReceive
  <2> DEFINE o == Head(dlq)
             one == IF o.job = j THEN 1 ELSE 0
  <2>1. /\ held = <<>> /\ dlq # <<>> /\ held' = Append(<<>>, o) /\ dlq' = Tail(dlq)
        /\ UNCHANGED <<batch, succ, fail>>
    BY <1>1 DEF OutcomeReceive, rows
  <2>2. o \in Outcome
    BY <1>0, <2>1
  <2>3. Cardinality(Of(dlq', j)) = Cardinality(Of(dlq, j)) - one
    BY <1>0, <2>1, OfTail
  <2>4. Cardinality(Of(held', j)) = Cardinality(Of(held, j)) + one
    BY <1>0, <2>1, <2>2, OfAppend
  <2> HIDE DEF one
  <2>5. one \in {0, 1}
    BY DEF one
  <2> QED
    BY <1>0, <2>1, <2>3, <2>4, <2>5, CountTypes DEF Known, Outstanding
<1>2. CASE OutcomeCollect
  <2> DEFINE o == Head(held)
             one == IF o.job = j THEN 1 ELSE 0
  <2>1. /\ held # <<>> /\ batch' = Append(batch, o) /\ held' = <<>>
        /\ UNCHANGED <<dlq, succ, fail>>
    BY <1>2 DEF OutcomeCollect, rows
  <2>2. o \in Outcome
    BY <1>0, <2>1
  <2>3. Cardinality(Of(batch', j)) = Cardinality(Of(batch, j)) + one
    BY <1>0, <2>1, <2>2, OfAppend
  <2>4. Cardinality(Of(held', j)) = Cardinality(Of(held, j)) - one
    <3>1. Cardinality(Of(Tail(held), j)) = Cardinality(Of(held, j)) - one
      BY <1>0, <2>1, OfTail
    <3>2. Of(Tail(held), j) = {}
      BY <1>0, <2>1, OfOnlyTail
    <3>3. Of(held', j) = {}
      BY <2>1 DEF Of
    <3> QED
      BY <3>1, <3>2, <3>3
  <2> HIDE DEF one
  <2>5. one \in {0, 1}
    BY DEF one
  <2> QED
    BY <1>0, <2>1, <2>3, <2>4, <2>5, CountTypes DEF Known, Outstanding
<1>3. CASE Flush
  <2>1. CASE ApplyOutcomes /\ batch' = <<>>
    <3>1. UNCHANGED <<dlq, held>>
      BY <1>3 DEF Flush
    <3>2. Cardinality(Of(batch', j)) = 0
      BY <2>1, OfEmpty
    <3>3. succ'[j] + fail'[j] = succ[j] + fail[j] + Cardinality(Of(batch, j))
      BY <2>1, DeltaSum
    <3> DEFINE c == succ'[j] + fail'[j]
    <3> HIDE DEF c
    <3>4. Outstanding(j)' + Cardinality(Of(batch, j)) = Outstanding(j)
      BY <1>0, <3>1, <3>2, CountTypes DEF Outstanding
    <3>5. Outstanding(j)' \in Nat /\ Outstanding(j) \in Nat
      BY <1>0, <3>1, <3>2, CountTypes DEF Outstanding
    <3> QED
      BY <3>3, <3>4, <3>5, CountTypes DEF Known
  <2>2. CASE UNCHANGED <<succ, fail, batch>>
    <3>1. UNCHANGED <<dlq, held>>
      BY <1>3 DEF Flush
    <3> QED
      BY <1>0, <2>2, <3>1 DEF Known, Outstanding
  <2> QED
    BY <1>3, <2>1, <2>2 DEF Flush, Fault
<1> QED
  BY <1>1, <1>2, <1>3

\* Conserved, but for the step that deletes the job or crashes.
LEMMA ConservedStep ==
  ASSUME "commit" \notin Faults
  PROVE  TypeOK /\ Placement /\ Paging /\ Conserved /\ [Next]_vars => Conserved'
<1> SUFFICES ASSUME TypeOK, Placement, Paging, Conserved, [Next]_vars,
                    NEW j \in Jobs, status'[j] # "DELETED"
             PROVE  /\ crashes' = 0 => Known(j)' = Cardinality(sent'[j])
                    /\ Known(j)' <= Cardinality(sent'[j])
  BY DEF Conserved, Known
<1>1. status[j] # "DELETED"
  BY DeletedStays
<1>2. /\ crashes = 0 => Known(j) = Cardinality(sent[j])
      /\ Known(j) <= Cardinality(sent[j])
  BY <1>1 DEF Conserved, Known
<1>3. /\ Known(j) \in Nat /\ Outstanding(j) \in Nat /\ Cardinality(sent[j]) \in Nat
      /\ succ[j] + fail[j] \in Nat /\ Cardinality(Of(batch, j)) <= Known(j)
      /\ crashes \in Nat
  <2>1. crashes \in Nat
    BY DEF TypeOK
  <2> QED
    BY <2>1, CountTypes DEF Known, Outstanding
<1>4. Exists(j) \/ Cardinality(Of(batch, j)) = 0
  <2>1. CASE status[j] = "NONE"
    <3>1. Cardinality(sent[j]) = 0
      BY <2>1, FS_EmptySet DEF Placement, Untouched, Fresh
    <3> QED
      BY <3>1, <1>2, <1>3, CountTypes
  <2> QED
    BY <2>1, <1>1 DEF TypeOK, Exists
<1>5. CASE UNCHANGED <<tasks, succ, fail, receipts, crashes>>
  <2>1. UNCHANGED <<taskQ, sender, dlq, held, batch, sent, succ, fail, crashes>>
    BY <1>5 DEF tasks
  <2> QED
    BY <1>2, <2>1 DEF Known, Outstanding, Sending
<1>6. ASSUME NEW m \in Masters, Emit(m)
      PROVE  /\ crashes' = 0 => Known(j)' = Cardinality(sent'[j])
             /\ Known(j)' <= Cardinality(sent'[j])
  BY <1>2, <1>3, <1>6, KnownEmit, EmitFrame
<1>7. ASSUME NEW s \in Senders, SenderStep(s)
      PROVE  /\ crashes' = 0 => Known(j)' = Cardinality(sent'[j])
             /\ Known(j)' <= Cardinality(sent'[j])
  BY <1>2, <1>7, KnownSender, SenderFrame
<1>8. CASE OutcomeReceive \/ OutcomeCollect \/ Flush
  BY <1>2, <1>4, <1>8, KnownOutcome, OutcomeFrame
<1>9. CASE Crash
  <2>1. /\ UNCHANGED <<succ, fail, sent>> /\ crashes' = crashes + 1
        /\ taskQ' = <<>> /\ dlq' = <<>> /\ held' = <<>> /\ batch' = <<>>
        /\ sender' = [s \in Senders |-> Nothing]
    BY <1>9 DEF Crash, rows
  <2>2. Sending(j)' = {}
    BY <2>1 DEF Sending
  <2>3. Outstanding(j)' = 0
    BY <2>1, <2>2, OfEmpty, FS_EmptySet DEF Outstanding
  <2>4. Known(j)' = succ[j] + fail[j]
    BY <2>1, <2>3, CountTypes DEF Known
  <2>5. Known(j) = succ[j] + fail[j] + Outstanding(j)
    BY DEF Known
  <2>6. Known(j)' <= Known(j)
    BY <2>4, <2>5, <1>3
  <2> QED
    BY <1>2, <1>3, <2>1, <2>4, <2>6
<1>10. ASSUME NEW k \in Jobs, DeleteTarget(k)
       PROVE  /\ crashes' = 0 => Known(j)' = Cardinality(sent'[j])
              /\ Known(j)' <= Cardinality(sent'[j])
  <2>1. k # j
    BY <1>10 DEF DeleteTarget, TypeOK
  <2>2. /\ UNCHANGED <<taskQ, sender, dlq, held, batch, sent, crashes>>
        /\ succ'[j] = succ[j] /\ fail'[j] = fail[j]
    BY <1>10, <2>1 DEF DeleteTarget, TypeOK, lane
  <2> QED
    BY <1>2, <2>2 DEF Known, Outstanding, Sending
<1> QED
  BY <1>5, <1>6, <1>7, <1>8, <1>9, <1>10, TaskSteps

LEMMA ConservedInvariant ==
  ASSUME "commit" \notin Faults
  PROVE  Spec => []Conserved
<1>1. Init => Conserved
  <2> SUFFICES ASSUME Init, NEW j \in Jobs
               PROVE  /\ succ[j] + fail[j] + Outstanding(j) = Cardinality(sent[j])
                      /\ Cardinality(sent[j]) = 0
    BY DEF Conserved
  <2>1. /\ taskQ = <<>> /\ dlq = <<>> /\ held = <<>> /\ batch = <<>>
        /\ succ[j] = 0 /\ fail[j] = 0 /\ sent[j] = {} /\ Sending(j) = {}
    BY DEF Init, Sending
  <2>2. Cardinality(sent[j]) = 0 /\ Outstanding(j) = 0
    BY <2>1, OfEmpty, FS_EmptySet DEF Outstanding
  <2> QED
    BY <2>1, <2>2
<1> QED
  BY <1>1, TypeCorrect, PlacementInvariant, PagingInvariant, ConservedStep, PTL DEF Spec

\* No task is lost or counted twice between the fan-out and the counters, as
\* long as a transaction reported as failed has not been committed.
THEOREM TasksAccounted ==
  ASSUME "commit" \notin Faults
  PROVE  Spec => []TasksConserved
<1>1. Conserved => TasksConserved
  BY DEF Conserved, TasksConserved, Exists, Statuses
<1> QED
  BY <1>1, ConservedInvariant, PTL

-----------------------------------------------------------------------------
(***************************************************************************)
(* How a job moves between its handler, the scheduler, the queue and a     *)
(* master, and who writes its total and its tokens.                        *)
(***************************************************************************)
LEMMA JobMoves ==
  ASSUME TypeOK, [Next]_vars, NEW j \in Jobs
  PROVE  /\ j \in claimed' => j \in claimed \/ status[j] = "SCHEDULED"
         /\ Queued(j)' => Queued(j) \/ j \in claimed \/ caller[j] = "submit"
<1> USE DEF rows, lane, vars
<1>0. claimed \subseteq Jobs /\ jobQ \in Seq(Jobs)
  BY DEF TypeOK
<1>1. j \in claimed' => j \in claimed \/ status[j] = "SCHEDULED"
  <2>1. CASE GetScheduledJobs
    BY <2>1 DEF GetScheduledJobs, Due
  <2>2. CASE claimed' \subseteq claimed
    BY <2>2
  <2>3. ~GetScheduledJobs => claimed' \subseteq claimed
    BY SenderFrame, OutcomeFrame
       DEF Next, CreatePublishJob, HandlerStep, EnqueueImmediateJob, EnqueueTimeout,
           MarkEnqueueFailed, DeleteTarget, SubmitScheduledJob, MasterStep, MasterReceive,
           MarkInProgress, FetchPage, Emit, FinalizeJobDispatch, CompleteJobIfDone,
           MarkFanoutFailed, FlushTick, ChangeAudience, Crash, Idle
  <2> QED
    BY <2>1, <2>2, <2>3
<1>2. \/ (jobQ' = jobQ \/ jobQ' = <<>>)
      \/ (jobQ # <<>> /\ jobQ' = Tail(jobQ))
      \/ \E k \in Jobs : jobQ' = Append(jobQ, k) /\ (k \in claimed \/ caller[k] = "submit")
  <2>1. ASSUME NEW k \in Jobs, EnqueueImmediateJob(k) \/ SubmitScheduledJob(k)
        PROVE  jobQ' = Append(jobQ, k) /\ (k \in claimed \/ caller[k] = "submit")
    BY <2>1 DEF EnqueueImmediateJob, SubmitScheduledJob
  <2>2. ASSUME NEW m \in Masters, MasterStep(m)
        PROVE  jobQ' = jobQ \/ (jobQ # <<>> /\ jobQ' = Tail(jobQ))
    BY <2>2 DEF MasterStep, MasterReceive, MarkInProgress, FetchPage, Emit,
                FinalizeJobDispatch, CompleteJobIfDone, MarkFanoutFailed
  <2>3. ASSUME NEW k \in Jobs, ~EnqueueImmediateJob(k),
               CreatePublishJob(k) \/ HandlerStep(k) \/ DeleteTarget(k)
        PROVE  jobQ' = jobQ
    BY <2>3 DEF CreatePublishJob, HandlerStep, EnqueueTimeout, MarkEnqueueFailed, DeleteTarget
  <2>4. Crash => jobQ' = <<>>
    BY DEF Crash
  <2>5. \/ GetScheduledJobs \/ FlushTick \/ \E t \in Tokens : ChangeAudience(t)
        \/ \E s \in Senders : SenderStep(s)
        \/ OutcomeReceive \/ OutcomeCollect \/ Flush
        => jobQ' = jobQ
    BY SenderFrame, OutcomeFrame DEF GetScheduledJobs, FlushTick, ChangeAudience
  <2> QED
    BY <2>1, <2>2, <2>3, <2>4, <2>5 DEF Next, Idle
<1>3. CASE jobQ' = jobQ \/ jobQ' = <<>>
  BY <1>1, <1>3 DEF Queued
<1>4. CASE jobQ # <<>> /\ jobQ' = Tail(jobQ)
  <2>1. /\ Len(jobQ) \in Nat \ {0} /\ DOMAIN jobQ = 1 .. Len(jobQ)
        /\ DOMAIN jobQ' = 1 .. Len(jobQ) - 1
        /\ \A i \in 1 .. Len(jobQ) - 1 : jobQ'[i] = jobQ[i + 1]
    BY <1>0, <1>4
  <2>2. \A i \in DOMAIN jobQ' : i + 1 \in DOMAIN jobQ /\ jobQ'[i] = jobQ[i + 1]
    BY <2>1
  <2> QED
    BY <1>1, <2>2 DEF Queued
<1>5. ASSUME NEW k \in Jobs, jobQ' = Append(jobQ, k), k \in claimed \/ caller[k] = "submit"
      PROVE  Queued(j)' => Queued(j) \/ j \in claimed \/ caller[j] = "submit"
  <2>1. /\ DOMAIN jobQ' = 1 .. Len(jobQ) + 1 /\ DOMAIN jobQ = 1 .. Len(jobQ)
        /\ jobQ'[Len(jobQ) + 1] = k
        /\ \A i \in 1 .. Len(jobQ) : jobQ'[i] = jobQ[i]
        /\ Len(jobQ) \in Nat
    BY <1>0, <1>5
  <2>2. \A i \in DOMAIN jobQ' : jobQ'[i] = k \/ (i \in DOMAIN jobQ /\ jobQ'[i] = jobQ[i])
    BY <2>1
  <2> QED
    BY <1>5, <2>2 DEF Queued
<1> QED
  BY <1>1, <1>2, <1>3, <1>4, <1>5

LEMMA MasterMoves ==
  ASSUME TypeOK, [Next]_vars, NEW m \in Masters, master'[m] # master[m]
  PROVE  \/ MasterStep(m) /\ Others(m)
         \/ Crash /\ \A n \in Masters : master'[n].pc = "receive"
<1> USE DEF rows, lane, vars
<1>1. Crash => \A n \in Masters : master'[n].pc = "receive"
  BY IdleMasterType DEF Crash
<1>2. ASSUME NEW n \in Masters, MasterStep(n)
      PROVE  Others(n)
  <2>1. CASE MarkInProgress(n)
    BY <2>1, ToPC DEF MarkInProgress
  <2>2. CASE CompleteJobIfDone(n) \/ MarkFanoutFailed(n)
    BY <2>2, ToIdle DEF CompleteJobIfDone, MarkFanoutFailed
  <2> QED
    BY <1>2, <2>1, <2>2, ReceiveMoves, FetchMoves, EmitMoves, FinalizeMoves DEF MasterStep
<1>3. ASSUME NEW n \in Masters, MasterStep(n)
      PROVE  n = m
  BY <1>2, <1>3 DEF Others
<1>4. UNCHANGED master \/ Crash \/ \E n \in Masters : MasterStep(n)
  BY SenderFrame, OutcomeFrame
     DEF Next, CreatePublishJob, HandlerStep, EnqueueImmediateJob, EnqueueTimeout,
         MarkEnqueueFailed, DeleteTarget, SubmitScheduledJob, GetScheduledJobs,
         FlushTick, ChangeAudience, Idle
<1> QED
  BY <1>1, <1>2, <1>3, <1>4

\* A master that works on job j after a step was sent it from the queue, or
\* worked on it before; in the latter case it stood still or is in the loop.
LEMMA WorkingMoves ==
  ASSUME TypeOK, [Next]_vars, NEW j \in Jobs, NEW m \in Masters, Working(m, j)'
  PROVE  \/ Working(m, j) /\ master'[m] = master[m]
         \/ Queued(j) /\ ~Working(m, j) /\ master'[m].pc = "start"
         \/ /\ Working(m, j)
            /\ MarkInProgress(m) \/ FetchPage(m) \/ Emit(m) \/ FinalizeJobDispatch(m)
<1>1. CASE master'[m] = master[m]
  BY <1>1 DEF Working
<1>2. CASE MasterReceive(m)
  <2>1. jobQ \in Seq(Jobs) /\ jobQ # <<>>
    BY <1>2 DEF TypeOK, MasterReceive
  <2>2. 1 \in DOMAIN jobQ /\ Head(jobQ) = jobQ[1]
    BY <2>1
  <2>3. /\ master[m].pc = "receive" /\ master'[m].pc = "start" /\ master'[m].job = Head(jobQ)
    BY <1>2, ReceiveMoves
  <2> QED
    BY <2>2, <2>3 DEF Working, Queued
<1>3. ~(CompleteJobIfDone(m) \/ MarkFanoutFailed(m))
  BY ToIdle DEF CompleteJobIfDone, MarkFanoutFailed, Working
<1>4. ASSUME MarkInProgress(m) \/ FetchPage(m) \/ Emit(m) \/ FinalizeJobDispatch(m)
      PROVE  Working(m, j)
  <2>1. MarkInProgress(m) => master[m].pc # "receive" /\ master'[m].job = master[m].job
    BY ToPC DEF MarkInProgress, SamePaging
  <2> QED
    BY <1>4, <2>1, FetchMoves, EmitMoves, FinalizeMoves DEF Working, SamePaging
<1> QED
  BY <1>1, <1>2, <1>3, <1>4, MasterMoves DEF MasterStep, Working

LEMMA RowSteps ==
  ASSUME TypeOK, [Next]_vars, NEW j \in Jobs
  PROVE  /\ sent'[j] # sent[j] => \E m \in Masters : Emit(m) /\ Working(m, j)
         /\ total'[j] # total[j] =>
              \/ DeleteTarget(j)
              \/ \E m \in Masters : FinalizeJobDispatch(m) /\ Working(m, j)
         /\ succ[j] \in Nat /\ fail[j] \in Nat
         /\ status'[j] # "DELETED" => succ'[j] >= succ[j] /\ fail'[j] >= fail[j]
<1> USE DEF rows, lane, vars
<1>0. /\ sent \in [Jobs -> SUBSET Tokens] /\ total \in [Jobs -> Nat] /\ batch \in Seq(Outcome)
      /\ succ \in [Jobs -> Nat] /\ fail \in [Jobs -> Nat]
      /\ status \in [Jobs -> Statuses \cup {"NONE", "DELETED"}]
  BY DEF TypeOK
<1>1. ASSUME NEW m \in Masters, Emit(m)
      PROVE  /\ sent'[j] # sent[j] => Emit(m) /\ Working(m, j)
             /\ UNCHANGED <<total, succ, fail>>
  BY <1>0, <1>1, EmitMoves, EmitFrame DEF Working
<1>2. ASSUME NEW m \in Masters, FinalizeJobDispatch(m)
      PROVE  /\ total'[j] # total[j] => FinalizeJobDispatch(m) /\ Working(m, j)
             /\ UNCHANGED <<sent, succ, fail>>
  BY <1>0, <1>2 DEF FinalizeJobDispatch, Working
<1>3. ASSUME NEW k \in Jobs, DeleteTarget(k)
      PROVE  /\ total'[j] # total[j] => DeleteTarget(j)
             /\ UNCHANGED sent
             /\ status'[j] # "DELETED" => succ'[j] = succ[j] /\ fail'[j] = fail[j]
  BY <1>0, <1>3 DEF DeleteTarget
<1>4. ASSUME Flush
      PROVE  UNCHANGED <<sent, total>> /\ succ'[j] >= succ[j] /\ fail'[j] >= fail[j]
  <2>1. UNCHANGED <<sent, total>>
    BY <1>4, OutcomeFrame
  <2>2. SuccessDelta(j) \in Nat /\ FailureDelta(j) \in Nat
    BY <1>0, OfResultFinite DEF SuccessDelta, FailureDelta
  <2>3. UNCHANGED <<succ, fail>> \/
          (succ'[j] = succ[j] + SuccessDelta(j) /\ fail'[j] = fail[j] + FailureDelta(j))
    BY <1>4 DEF Flush, ApplyOutcomes
  <2>4. succ[j] \in Nat /\ fail[j] \in Nat
    BY <1>0
  <2> QED
    BY <2>1, <2>2, <2>3, <2>4
<1>5. ASSUME \A m \in Masters : ~Emit(m) /\ ~FinalizeJobDispatch(m),
             \A k \in Jobs : ~DeleteTarget(k), ~Flush
      PROVE  UNCHANGED <<sent, total, succ, fail>>
  BY <1>5, SenderFrame, OutcomeFrame
     DEF Next, CreatePublishJob, HandlerStep, EnqueueImmediateJob, EnqueueTimeout,
         MarkEnqueueFailed, SubmitScheduledJob, MasterStep, MasterReceive, GetScheduledJobs,
         MarkInProgress, FetchPage, CompleteJobIfDone, MarkFanoutFailed, FlushTick,
         ChangeAudience, Crash, Idle
<1>6. succ[j] \in Nat /\ fail[j] \in Nat
  BY <1>0
<1> QED
  BY <1>1, <1>2, <1>3, <1>4, <1>5, <1>6

-----------------------------------------------------------------------------
(***************************************************************************)
(* Dispatched and Counted: what the row of an ended job says.              *)
(***************************************************************************)

\* The master that dispatches job j has sent what it counted, and no one else
\* has the job.
LEMMA AtFinalize ==
  ASSUME TypeOK, Placement, Paging, NEW m \in Masters, NEW j \in Jobs,
         FinalizeJobDispatch(m), Working(m, j)
  PROVE  /\ master[m].count = Cardinality(sent[j])
         /\ j \notin claimed /\ ~Queued(j)
         /\ \A n \in Masters : Working(n, j) => n = m
<1>1. master[m].pc = "finalize" /\ master[m].job = j
  BY DEF FinalizeJobDispatch, Working
<1>2. master[m].count = Cardinality(sent[j]) + Cardinality({})
  BY <1>1 DEF Paging, PagingOf
<1>3. master[m].count = Cardinality(sent[j])
  BY <1>2, CountTypes, FS_EmptySet
<1> QED
  BY <1>3 DEF Placement, Fresh

LEMMA DispatchedStep ==
  TypeOK /\ Placement /\ Paging /\ Dispatched /\ [Next]_vars => Dispatched'
<1> SUFFICES ASSUME TypeOK, Placement, Paging, Dispatched, [Next]_vars,
                    NEW j \in Jobs, status'[j] \in {"DISPATCHED", "COMPLETED"}
             PROVE  /\ total'[j] = Cardinality(sent'[j])
                    /\ j \notin claimed' /\ ~Queued(j)'
                    /\ \A m \in Masters : Working(m, j)' => master'[m].pc \in {"recheck", "fail"}
  BY DEF Dispatched
<1>1. CASE status[j] \in {"DISPATCHED", "COMPLETED"}
  <2>1. /\ total[j] = Cardinality(sent[j]) /\ j \notin claimed /\ ~Queued(j)
        /\ \A m \in Masters : Working(m, j) => master[m].pc \in {"recheck", "fail"}
    BY <1>1 DEF Dispatched
  <2>2. caller[j] # "submit"
    BY <1>1, UnacceptedSubset DEF Placement
  <2>3. \A m \in Masters : Working(m, j) =>
          ~(MarkInProgress(m) \/ FetchPage(m) \/ Emit(m) \/ FinalizeJobDispatch(m))
    BY <2>1 DEF MarkInProgress, FetchPage, Emit, FinalizeJobDispatch
  <2>4. ~DeleteTarget(j)
    BY DEF DeleteTarget, TypeOK
  <2>5. total'[j] = total[j] /\ sent'[j] = sent[j]
    BY <2>3, <2>4, RowSteps
  <2> QED
    BY <1>1, <2>1, <2>2, <2>3, <2>5, JobMoves, WorkingMoves
<1>2. CASE status[j] \notin {"DISPATCHED", "COMPLETED"}
  <2>1. PICK m \in Masters :
          /\ FinalizeJobDispatch(m) /\ master[m].job = j
          /\ total'[j] = master[m].count
    BY <1>2, StatusSteps
  <2>2. Working(m, j)
    BY <2>1 DEF FinalizeJobDispatch, Working
  <2>3. UNCHANGED <<claimed, jobQ, sent>>
    BY <2>1 DEF FinalizeJobDispatch
  <2>4. \A n \in Masters : Working(n, j)' => n = m
    BY <2>1, <2>2, AtFinalize, FinalizeMoves DEF Others, Working
  <2> QED
    BY <2>1, <2>2, <2>3, <2>4, AtFinalize, FinalizeMoves DEF Queued
<1> QED
  BY <1>1, <1>2

LEMMA DispatchedInvariant == Spec => []Dispatched
<1>1. Init => Dispatched
  BY DEF Init, Dispatched
<1> QED
  BY <1>1, TypeCorrect, PlacementInvariant, PagingInvariant, DispatchedStep, PTL DEF Spec

LEMMA CountedStep ==
  TypeOK /\ Placement /\ Paging /\ Dispatched /\ Counted /\ [Next]_vars => Counted'
<1> SUFFICES ASSUME TypeOK, Dispatched, Counted, [Next]_vars, NEW j \in Jobs,
                    Placement, Paging, status'[j] = "COMPLETED"
             PROVE  succ'[j] + fail'[j] >= total'[j]
  BY DEF Counted
<1>1. /\ succ[j] \in Nat /\ fail[j] \in Nat /\ total[j] \in Nat
      /\ succ'[j] \in Nat /\ fail'[j] \in Nat /\ total'[j] \in Nat
  <2>1. TypeOK'
    BY TypeStep
  <2> QED
    BY <2>1 DEF TypeOK
<1>2. succ'[j] >= succ[j] /\ fail'[j] >= fail[j] /\ ~DeleteTarget(j)
  BY RowSteps DEF DeleteTarget, TypeOK
<1>3. CASE status[j] \in {"COMPLETED", "DISPATCHED"}
  <2>1. \A m \in Masters : ~(FinalizeJobDispatch(m) /\ Working(m, j))
    BY <1>3 DEF Dispatched, FinalizeJobDispatch
  <2>2. total'[j] = total[j]
    BY <1>2, <2>1, RowSteps
  <2>3. CASE status[j] = "COMPLETED"
    BY <2>2, <2>3, <1>1, <1>2 DEF Counted
  <2>4. CASE status[j] = "DISPATCHED"
    <3>1. \/ Done(status[j], succ[j], fail[j], total[j])
          \/ succ'[j] + fail'[j] >= total[j]
      BY <2>4, <2>1, StatusSteps DEF FinalizeJobDispatch, Working
    <3> QED
      BY <3>1, <2>2, <1>1, <1>2 DEF Done
  <2> QED
    BY <1>3, <2>3, <2>4
<1>4. CASE status[j] \notin {"COMPLETED", "DISPATCHED"}
  <2>1. PICK m \in Masters : /\ FinalizeJobDispatch(m) /\ total'[j] = master[m].count
                             /\ status'[j] = FinalStatus(master[m].count)
    BY <1>4, StatusSteps
  <2>2. total'[j] = 0
    BY <2>1 DEF FinalStatus
  <2> QED
    BY <1>1, <2>2
<1> QED
  BY <1>3, <1>4

LEMMA CountedInvariant == Spec => []Counted
<1>1. Init => Counted
  BY DEF Init, Counted
<1> QED
  BY <1>1, TypeCorrect, PlacementInvariant, PagingInvariant, DispatchedInvariant, CountedStep,
     PTL DEF Spec

\* A completed job is counted in full: its total is the number of tokens sent
\* for it, each was counted once, and nothing of it is under way.
THEOREM CompletedAccounted ==
  ASSUME "commit" \notin Faults
  PROVE  Spec => []CompletedMeansAccounted
<1>1. TypeOK /\ Conserved /\ Dispatched /\ Counted => CompletedMeansAccounted
  <2> SUFFICES ASSUME TypeOK, Conserved, Dispatched, Counted,
                      NEW j \in Jobs, status[j] = "COMPLETED"
               PROVE  /\ total[j] = Cardinality(sent[j])
                      /\ succ[j] + fail[j] = total[j]
                      /\ Outstanding(j) = 0
    BY DEF CompletedMeansAccounted
  <2>1. /\ total[j] = Cardinality(sent[j])
        /\ succ[j] + fail[j] >= total[j]
        /\ succ[j] + fail[j] + Outstanding(j) <= Cardinality(sent[j])
    BY DEF Conserved, Dispatched, Counted
  <2>2. Outstanding(j) \in Nat
    BY CountTypes DEF Outstanding
  <2> QED
    BY <2>1, <2>2, CountTypes
<1> QED
  BY <1>1, TypeCorrect, ConservedInvariant, DispatchedInvariant, CountedInvariant, PTL

-----------------------------------------------------------------------------
(***************************************************************************)
(* Finished: who may still write the status of a job that has ended.       *)
(***************************************************************************)
LEMMA CallerMoves ==
  ASSUME TypeOK, [Next]_vars, NEW j \in Jobs, caller'[j] \in {"submit", "markFailed"}
  PROVE  caller[j] \in {"submit", "markFailed"} \/ status[j] = "NONE"
<1> USE DEF rows, lane, vars
<1>0. caller \in [Jobs -> {"idle", "submit", "markFailed", "accepted", "rejected"}]
  BY DEF TypeOK
<1>1. ASSUME NEW k \in Jobs, CreatePublishJob(k) \/ HandlerStep(k)
      PROVE  caller[j] \in {"submit", "markFailed"} \/ status[j] = "NONE"
  BY <1>0, <1>1 DEF CreatePublishJob, HandlerStep, EnqueueImmediateJob, EnqueueTimeout,
                    MarkEnqueueFailed
<1>2. ASSUME NEW m \in Masters, MasterStep(m)
      PROVE  caller' = caller
  BY <1>2 DEF MasterStep, MasterReceive, MarkInProgress, FetchPage, Emit,
              FinalizeJobDispatch, CompleteJobIfDone, MarkFanoutFailed
<1>3. ~Crash
  BY <1>0 DEF Crash
<1>4. \/ \E k \in Jobs : SubmitScheduledJob(k) \/ DeleteTarget(k)
      \/ GetScheduledJobs \/ FlushTick \/ \E t \in Tokens : ChangeAudience(t)
      \/ \E s \in Senders : SenderStep(s)
      \/ OutcomeReceive \/ OutcomeCollect \/ Flush \/ UNCHANGED vars
      => caller' = caller
  BY SenderFrame, OutcomeFrame
     DEF SubmitScheduledJob, DeleteTarget, GetScheduledJobs, FlushTick, ChangeAudience
<1> QED
  BY <1>1, <1>2, <1>3, <1>4 DEF Next, Idle

LEMMA FinishedStep ==
  ASSUME "finalizeCommit" \notin Faults
  PROVE  TypeOK /\ Placement /\ Paging /\ Dispatched /\ Finished /\ [Next]_vars => Finished'
<1> SUFFICES ASSUME TypeOK, Placement, Paging, Dispatched, Finished, [Next]_vars, NEW j \in Jobs
             PROVE  /\ status'[j] = "FAILED" =>
                         /\ j \notin claimed' /\ ~Queued(j)'
                         /\ caller'[j] \notin {"submit", "markFailed"}
                         /\ \A m \in Masters : ~Working(m, j)'
                    /\ status'[j] \in {"DISPATCHED", "COMPLETED"} =>
                         \A m \in Masters : Working(m, j)' => master'[m].pc = "recheck"
  BY DEF Finished
<1>1. CASE status'[j] = "FAILED" /\ status[j] = "FAILED"
  <2>1. /\ j \notin claimed /\ ~Queued(j) /\ caller[j] \notin {"submit", "markFailed"}
        /\ \A m \in Masters : ~Working(m, j)
    BY <1>1 DEF Finished
  <2> QED
    BY <1>1, <2>1, JobMoves, CallerMoves, WorkingMoves
<1>2. CASE status'[j] = "FAILED" /\ status[j] # "FAILED"
  <2>1. CASE MarkEnqueueFailed(j)
    <3>1. Untouched(j)
      BY <2>1, UnacceptedSubset DEF MarkEnqueueFailed, Placement
    <3>2. UNCHANGED <<claimed, jobQ, master>> /\ caller'[j] = "rejected"
      BY <2>1 DEF MarkEnqueueFailed, TypeOK, lane
    <3> QED
      BY <1>2, <3>1, <3>2 DEF Untouched, Fresh, Queued, Working
  <2>2. ASSUME NEW m \in Masters, MarkFanoutFailed(m), master[m].job = j
        PROVE  /\ j \notin claimed' /\ ~Queued(j)'
               /\ caller'[j] \notin {"submit", "markFailed"}
               /\ \A n \in Masters : ~Working(n, j)'
    <3>1. Working(m, j)
      BY <2>2 DEF MarkFanoutFailed, Working
    <3>2. /\ j \notin claimed /\ ~Queued(j) /\ caller[j] \notin {"submit", "markFailed"}
          /\ \A n \in Masters : Working(n, j) => n = m
      BY <3>1, UnacceptedSubset DEF Placement, Untouched, Fresh
    <3>3. UNCHANGED <<claimed, jobQ, caller>> /\ Others(m) /\ master'[m].pc = "receive"
      BY <2>2, ToIdle DEF MarkFanoutFailed
    <3> QED
      BY <3>2, <3>3 DEF Queued, Working, Others
  <2> QED
    BY <1>2, <2>1, <2>2, StatusSteps DEF FinalStatus
<1>3. CASE status'[j] \in {"DISPATCHED", "COMPLETED"} /\ status[j] \in {"DISPATCHED", "COMPLETED"}
  <2>1. /\ ~Queued(j)
        /\ \A m \in Masters : Working(m, j) => master[m].pc = "recheck"
    BY <1>3 DEF Finished, Dispatched
  <2>2. \A m \in Masters : master[m].pc = "recheck" =>
          ~(MarkInProgress(m) \/ FetchPage(m) \/ Emit(m) \/ FinalizeJobDispatch(m))
    BY DEF MarkInProgress, FetchPage, Emit, FinalizeJobDispatch
  <2> QED
    BY <1>3, <2>1, <2>2, WorkingMoves
<1>4. CASE status'[j] \in {"DISPATCHED", "COMPLETED"} /\ status[j] \notin {"DISPATCHED", "COMPLETED"}
  <2>1. PICK m \in Masters : FinalizeJobDispatch(m) /\ master[m].job = j
    BY <1>4, StatusSteps
  <2>2. Working(m, j)
    BY <2>1 DEF FinalizeJobDispatch, Working
  <2>3. master' = [master EXCEPT ![m] = [@ EXCEPT !.pc = "recheck"]]
    BY <1>4, <2>1 DEF FinalizeJobDispatch, Fault
  <2>4. Others(m) /\ master'[m].pc = "recheck"
    BY <2>3, ToPC
  <2>5. \A n \in Masters : Working(n, j)' => n = m
    BY <2>1, <2>2, <2>4, AtFinalize DEF Others, Working
  <2> QED
    BY <1>4, <2>4, <2>5
<1> QED
  BY <1>1, <1>2, <1>3, <1>4

LEMMA FinishedInvariant ==
  ASSUME "finalizeCommit" \notin Faults
  PROVE  Spec => []Finished
<1>1. Init => Finished
  BY DEF Init, Finished
<1> QED
  BY <1>1, TypeCorrect, PlacementInvariant, PagingInvariant, DispatchedInvariant, FinishedStep,
     PTL DEF Spec

\* A job that was reported COMPLETED or FAILED keeps that status, although the
\* statements that write it look at nothing, as long as a dispatch reported as
\* failed was not written.
THEOREM TerminalStaysFinal ==
  ASSUME "finalizeCommit" \notin Faults
  PROVE  Spec => TerminalStatusFinal
<1> DEFINE Kept == \A j \in Jobs :
             status[j] \in Terminal => status'[j] \in {status[j], "DELETED"}
<1>1. ASSUME TypeOK, Placement, Dispatched, Finished, [Next]_vars
      PROVE  Kept
  <2> SUFFICES ASSUME NEW j \in Jobs, status[j] \in {"COMPLETED", "FAILED"},
                      status'[j] # status[j]
               PROVE  status'[j] = "DELETED"
    BY DEF Terminal
  <2>1. ~(MarkEnqueueFailed(j) /\ status'[j] = "FAILED")
    BY <1>1, UnacceptedSubset DEF MarkEnqueueFailed, Placement
  <2>2. ASSUME NEW m \in Masters, master[m].job = j
        PROVE  ~(MarkInProgress(m) \/ FinalizeJobDispatch(m) \/ MarkFanoutFailed(m))
    <3>1. ~Working(m, j) \/ master[m].pc = "recheck"
      BY <1>1 DEF Finished
    <3> QED
      BY <2>2, <3>1 DEF Working, MarkInProgress, FinalizeJobDispatch, MarkFanoutFailed
  <2> QED
    BY <1>1, <2>1, <2>2, StatusSteps
<1> QED
  BY <1>1, TypeCorrect, PlacementInvariant, DispatchedInvariant, FinishedInvariant,
     PTL DEF Spec, TerminalStatusFinal

-----------------------------------------------------------------------------
(***************************************************************************)
(* CompletionNotMissed: the last to write looks whether the job is done.   *)
(***************************************************************************)
AllCounted(j) == Done(status[j], succ[j], fail[j], total[j])
LookedAt(j) == \E m \in Masters : master[m].pc = "recheck" /\ master[m].job = j

LEMMA NotMissedStep ==
  ASSUME {"recheck", "finalizeCommit"} \cap Faults = {}
  PROVE  TypeOK /\ (crashes = 0 => CompletionNotMissed) /\ [Next]_vars =>
           (crashes = 0 => CompletionNotMissed)'
<1> SUFFICES ASSUME TypeOK, crashes = 0 => CompletionNotMissed, [Next]_vars, crashes' = 0,
                    NEW j \in Jobs, AllCounted(j)'
             PROVE  LookedAt(j)'
  BY DEF CompletionNotMissed, AllCounted, LookedAt
<1>0. /\ status \in [Jobs -> Statuses \cup {"NONE", "DELETED"}] /\ crashes \in Nat
      /\ batch \in Seq(Outcome) /\ succ \in [Jobs -> Nat] /\ fail \in [Jobs -> Nat]
  BY DEF TypeOK
<1>1. ~Crash /\ CompletionNotMissed
  <2>1. ~Crash
    BY <1>0 DEF Crash
  <2>2. crashes' = crashes
    <3>1. \A k \in Jobs : DeleteTarget(k) => UNCHANGED crashes
      BY DEF DeleteTarget
    <3> QED
      BY <2>1, <3>1, TaskSteps, EmitFrame, SenderFrame, OutcomeFrame
  <2> QED
    BY <2>1, <2>2
<1>2. status'[j] = "DISPATCHED" /\ succ'[j] + fail'[j] >= total'[j]
  BY DEF AllCounted, Done
<1>3. ASSUME NEW m \in Masters, FinalizeJobDispatch(m), master[m].job = j,
             \/ status'[j] # status[j] \/ total'[j] # total[j]
      PROVE  LookedAt(j)'
  <2>1. master' = [master EXCEPT ![m] = [@ EXCEPT !.pc = "recheck"]]
    BY <1>3 DEF FinalizeJobDispatch, Fault
  <2> QED
    BY <1>3, <2>1, ToPC DEF LookedAt, SamePaging
<1>4. CASE status[j] # "DISPATCHED"
  BY <1>2, <1>3, <1>4, StatusSteps
<1>5. CASE status[j] = "DISPATCHED" /\ total'[j] # total[j]
  <2>1. ~DeleteTarget(j)
    BY <1>0, <1>2 DEF DeleteTarget
  <2> QED
    BY <1>3, <1>5, <2>1, RowSteps DEF Working
<1>6. CASE status[j] = "DISPATCHED" /\ total'[j] = total[j]
  <2>1. CASE succ'[j] = succ[j] /\ fail'[j] = fail[j]
    <3>1. PICK m \in Masters : master[m].pc = "recheck" /\ master[m].job = j
      BY <1>1, <1>2, <1>6, <2>1 DEF CompletionNotMissed, Done
    <3>2. ~CompleteJobIfDone(m)
      BY <1>0, <1>2, <1>6, <2>1, <3>1 DEF CompleteJobIfDone, Done, Fault
    <3>3. ~(MasterStep(m) /\ Others(m))
      BY <3>1, <3>2 DEF MasterStep, MasterReceive, MarkInProgress, FetchPage, Emit,
                        FinalizeJobDispatch, MarkFanoutFailed
    <3>4. master'[m] = master[m]
      BY <1>1, <3>3, MasterMoves
    <3> QED
      BY <3>1, <3>4 DEF LookedAt
  <2>2. CASE ~(succ'[j] = succ[j] /\ fail'[j] = fail[j])
    <3>1. ApplyOutcomes
      <4>1. \A k \in Jobs : ~DeleteTarget(k) \/ (succ'[j] = succ[j] /\ fail'[j] = fail[j])
        BY <1>0, <1>2 DEF DeleteTarget
      <4>2. \A m \in Masters : Emit(m) => UNCHANGED <<succ, fail>>
        BY EmitFrame DEF rows
      <4>3. \A s \in Senders : SenderStep(s) => UNCHANGED <<succ, fail>>
        BY SenderFrame DEF rows
      <4>4. OutcomeReceive \/ OutcomeCollect => UNCHANGED <<succ, fail>>
        BY OutcomeFrame DEF rows
      <4>5. Flush => ApplyOutcomes \/ UNCHANGED <<succ, fail>>
        BY DEF Flush
      <4> QED
        BY <1>1, <2>2, <4>1, <4>2, <4>3, <4>4, <4>5, TaskSteps
    <3>2. Of(batch, j) = {}
      BY <1>0, <1>2, <1>6, <3>1 DEF ApplyOutcomes, Done
    <3>3. \A ok : OfResult(batch, j, ok) = {}
      BY <3>2 DEF Of, OfResult
    <3>4. SuccessDelta(j) = 0 /\ FailureDelta(j) = 0
      BY <3>3, FS_EmptySet DEF SuccessDelta, FailureDelta
    <3>5. succ'[j] = succ[j] + SuccessDelta(j) /\ fail'[j] = fail[j] + FailureDelta(j)
      BY <3>1 DEF ApplyOutcomes
    <3>6. succ[j] \in Nat /\ fail[j] \in Nat
      BY <1>0
    <3> QED
      BY <2>2, <3>4, <3>5, <3>6
  <2> QED
    BY <2>1, <2>2
<1> QED
  BY <1>4, <1>5, <1>6

\* A dispatched job whose tasks are all counted is completed by the outcome
\* worker, or the master that dispatched it is about to look: none is forgotten
\* while the first process runs and its statements report what they did.
THEOREM CompletionSeen ==
  ASSUME {"recheck", "finalizeCommit"} \cap Faults = {}
  PROVE  Spec => [](crashes = 0 => CompletionNotMissed)
<1>1. Init => (crashes = 0 => CompletionNotMissed)
  BY DEF Init, CompletionNotMissed, Done
<1> QED
  BY <1>1, TypeCorrect, NotMissedStep, PTL DEF Spec

-----------------------------------------------------------------------------
(***************************************************************************)
(* Reaching: the fan-out passes over no token that stays registered.       *)
(***************************************************************************)
LEMMA LeastElement ==
  ASSUME NEW S \in SUBSET Nat, S # {}
  PROVE  \E n \in S : \A k \in S : ~(k < n)
<1> DEFINE R == {p \in Nat \X Nat : p[1] < p[2]}
<1>1. IsWellFoundedOn(R, Nat)
  BY NatLessThanWellFounded DEF OpToRel
<1>2. PICK n \in S : \A k \in S : ~(<<k, n>> \in R)
  BY <1>1, WFMin
<1>3. \A k \in S : ~(k < n)
  BY <1>2
<1> QED
  BY <1>3

\* A page holds every token between the cursor and its own last token, and it
\* is empty only when nothing is ahead.
LEMMA PageCovers ==
  ASSUME NEW A \in SUBSET Tokens, NEW cursor \in Nat
  PROVE  /\ \A c, t : /\ IsNextCursor(c, A, cursor)
                      /\ t \in A /\ cursor < t /\ t <= c
                      => t \in Page(A, cursor)
         /\ Page(A, cursor) = {} => Ahead(A, cursor) = {}
<1> DEFINE F == Ahead(A, cursor)
           Below(t) == {u \in F : u < t}
<1>1. F \subseteq A /\ F \in SUBSET Tokens /\ F \subseteq Nat /\ A \subseteq Nat
  BY ConstantTypes DEF Ahead
<1>2. \A t : IsFiniteSet(Below(t)) /\ Cardinality(Below(t)) \in Nat
  <2> TAKE t
  <2>1. Below(t) \in SUBSET Tokens
    BY <1>1
  <2> QED
    BY <2>1, TokenSets
<1>3. ASSUME NEW c, NEW t, IsNextCursor(c, A, cursor), t \in A, cursor < t, t <= c
      PROVE  t \in Page(A, cursor)
  <2>1. c \in F /\ Cardinality(Below(c)) < BatchSize
    BY <1>3 DEF IsNextCursor, Page
  <2>2. t \in F
    BY <1>3 DEF Ahead
  <2>3. Below(t) \subseteq Below(c)
    BY <1>1, <1>3, <2>1, <2>2
  <2>4. Cardinality(Below(t)) <= Cardinality(Below(c))
    BY <1>2, <2>3, FS_Subset
  <2>5. Cardinality(Below(t)) < BatchSize
    BY <1>2, <2>1, <2>4, ConstantTypes
  <2> QED
    BY <2>2, <2>5 DEF Page
<1>4. ASSUME F # {}
      PROVE  Page(A, cursor) # {}
  <2>1. PICK n \in F : \A k \in F : ~(k < n)
    BY <1>1, <1>4, LeastElement
  <2>2. Below(n) = {}
    BY <2>1
  <2>3. Cardinality(Below(n)) < BatchSize
    BY <2>2, FS_EmptySet, ConstantTypes
  <2> QED
    BY <2>3 DEF Page
<1> QED
  BY <1>3, <1>4

LEMMA FetchLoop ==
  ASSUME TypeOK, NEW m \in Masters, FetchPage(m)
  PROVE  LET r == master[m]
             q == master'[m]
             A == Recipients(r.job)
         IN  \/ /\ q.pc = "emit" /\ IsNextCursor(q.cursor, A, r.cursor)
                /\ q.page = Page(A, r.cursor)
                /\ q.more = HasMore(A, r.cursor)
             \/ /\ q.pc = "finalize" /\ Page(A, r.cursor) = {}
                /\ q.page = r.page /\ q.cursor = r.cursor
             \/ q.pc = "fail"
<1>1. master \in [Masters -> MasterState] /\ master[m] \in MasterState
  BY DEF TypeOK
<1> DEFINE A == Recipients(master[m].job)
           page == Page(A, master[m].cursor)
           more == HasMore(A, master[m].cursor)
           n == master[m].count + Cardinality(page)
<1>2. \/ /\ page = {}
         /\ master' = [master EXCEPT ![m] = [@ EXCEPT !.pc = "finalize", !.more = FALSE]]
      \/ master' = [master EXCEPT ![m] = [@ EXCEPT !.pc = "fail"]]
      \/ \E c \in Tokens :
           /\ IsNextCursor(c, A, master[m].cursor)
           /\ master' = [master EXCEPT
                ![m] = [@ EXCEPT !.pc = "emit", !.cursor = c, !.page = page,
                                 !.more = more, !.count = n]]
  BY DEF FetchPage
<1>3. CASE /\ page = {}
           /\ master' = [master EXCEPT ![m] = [@ EXCEPT !.pc = "finalize", !.more = FALSE]]
  <2>1. master'[m] = [master[m] EXCEPT !.pc = "finalize", !.more = FALSE]
    BY <1>1, <1>3
  <2> QED
    BY <1>1, <1>3, <2>1 DEF MasterState
<1>4. CASE master' = [master EXCEPT ![m] = [@ EXCEPT !.pc = "fail"]]
  BY <1>4, ToPC
<1>5. ASSUME NEW c \in Tokens, IsNextCursor(c, A, master[m].cursor),
             master' = [master EXCEPT
               ![m] = [@ EXCEPT !.pc = "emit", !.cursor = c, !.page = page,
                                !.more = more, !.count = n]]
      PROVE  /\ master'[m].pc = "emit" /\ master'[m].cursor = c
             /\ master'[m].page = page /\ master'[m].more = more
  <2> HIDE DEF page, more, n
  <2>1. master'[m] = [master[m] EXCEPT !.pc = "emit", !.cursor = c, !.page = page,
                                       !.more = more, !.count = n]
    BY <1>1, <1>5
  <2> QED
    BY <1>1, <2>1 DEF MasterState
<1> HIDE DEF page, more
<1> QED
  BY <1>2, <1>3, <1>4, <1>5 DEF page, more

LEMMA EmitLoop ==
  ASSUME TypeOK, NEW m \in Masters, Emit(m)
  PROVE  LET r == master[m]
             q == master'[m]
         IN  /\ q.more = r.more /\ r.more \in BOOLEAN /\ q.job = r.job
             /\ \E t \in r.page :
                  /\ q.page = r.page \ {t}
                  /\ q.pc = AfterEmit(q.page, r.more)
                  /\ q.cursor = r.cursor
                  /\ sent'[r.job] = sent[r.job] \cup {t}
<1>1. /\ master \in [Masters -> MasterState] /\ master[m] \in MasterState
      /\ sent \in [Jobs -> SUBSET Tokens] /\ master[m].job \in Jobs
  BY EmitMoves DEF TypeOK
<1>2. PICK t \in master[m].page :
        /\ master' = [master EXCEPT
             ![m] = [@ EXCEPT !.page = master[m].page \ {t},
                              !.pc = AfterEmit(master[m].page \ {t}, master[m].more)]]
        /\ sent' = [sent EXCEPT ![master[m].job] = @ \cup {t}]
  BY DEF Emit
<1> DEFINE rest == master[m].page \ {t}
           p == AfterEmit(rest, master[m].more)
<1> HIDE DEF p, rest
<1>3. master'[m] = [master[m] EXCEPT !.page = rest, !.pc = p]
  BY <1>1, <1>2 DEF p, rest
<1>4. /\ master'[m].page = rest /\ master'[m].pc = p /\ master'[m].job = master[m].job
      /\ master'[m].cursor = master[m].cursor /\ master'[m].more = master[m].more
      /\ master[m].more \in BOOLEAN
  BY <1>1, <1>3 DEF MasterState
<1>5. sent'[master[m].job] = sent[master[m].job] \cup {t}
  BY <1>1, <1>2
<1> QED
  BY <1>4, <1>5 DEF p, rest

LEMMA ReachingFetch ==
  ASSUME TypeOK, Placement, Paging, Reaching, NEW m \in Masters, FetchPage(m),
         status[master[m].job] # "DELETED"
  PROVE  ReachingOf(master'[m], sent[master[m].job])
<1> DEFINE r == master[m]
           q == master'[m]
           S == sent[r.job]
           A == Recipients(r.job)
<1>1. r.pc = "fetch" /\ r.job \in Jobs /\ r.cursor \in Nat
  BY DEF FetchPage, TypeOK, MasterState
<1>2. Exists(r.job)
  BY <1>1 DEF Placement, Untouched, Fresh, Working, Exists, TypeOK
<1>3. A \in SUBSET Tokens /\ Stable \subseteq A /\ Stable \subseteq Nat
  BY <1>2, ConstantTypes DEF Recipients, TypeOK, Reaching, Stable
<1>4. r.page = {} /\ \A t \in Stable : t <= r.cursor => t \in S
  BY <1>1 DEF Paging, PagingOf, Reaching, ReachingOf
<1>5. CASE /\ q.pc = "emit" /\ IsNextCursor(q.cursor, A, r.cursor)
           /\ q.page = Page(A, r.cursor)
           /\ q.more = HasMore(A, r.cursor)
  <2>1. \A t \in Stable : t <= q.cursor => t \in S \cup q.page
    <3> SUFFICES ASSUME NEW t \in Stable, t <= q.cursor, ~(t <= r.cursor)
                 PROVE  t \in q.page
      BY <1>4
    <3>1. t \in A /\ r.cursor < t
      BY <1>1, <1>3
    <3> HIDE DEF A, q, r
    <3> QED
      BY <1>1, <1>3, <1>5, <3>1, PageCovers
  <2>2. ~q.more => \A t \in Stable : r.cursor < t => t \in q.page
    BY <1>3, <1>5 DEF HasMore, Ahead
  <2>3. ~q.more => Stable \subseteq S \cup q.page
    BY <1>1, <1>3, <1>4, <2>2
  <2> QED
    BY <1>5, <2>1, <2>3 DEF ReachingOf
<1>6. CASE /\ q.pc = "finalize" /\ Page(A, r.cursor) = {}
           /\ q.page = r.page /\ q.cursor = r.cursor
  <2>1. Ahead(A, r.cursor) = {}
    BY <1>1, <1>3, <1>6, PageCovers
  <2>2. \A t \in Stable : ~(r.cursor < t)
    BY <1>3, <2>1 DEF Ahead
  <2>3. Stable \subseteq S
    BY <1>1, <1>3, <1>4, <2>2
  <2> QED
    BY <1>6, <2>3 DEF ReachingOf
<1>7. CASE q.pc = "fail"
  BY <1>7 DEF ReachingOf
<1> QED
  BY <1>5, <1>6, <1>7, FetchLoop

LEMMA ReachingEmit ==
  ASSUME TypeOK, Reaching, NEW m \in Masters, Emit(m), status[master[m].job] # "DELETED"
  PROVE  ReachingOf(master'[m], sent'[master[m].job])
<1> DEFINE r == master[m]
           q == master'[m]
           S == sent[r.job]
<1>1. PICK t \in r.page :
        /\ q.page = r.page \ {t} /\ q.pc = AfterEmit(q.page, r.more)
        /\ q.cursor = r.cursor /\ sent'[r.job] = S \cup {t}
  BY EmitLoop
<1>2. q.more = r.more /\ r.pc = "emit"
  BY EmitLoop, EmitMoves
<1>3. /\ \A x \in Stable : x <= r.cursor => x \in S \cup r.page
      /\ ~r.more => Stable \subseteq S \cup r.page
  BY <1>2 DEF Reaching, ReachingOf
<1>4. (S \cup {t}) \cup q.page = S \cup r.page
  BY <1>1
<1> HIDE DEF r, q, S
<1>5. q.pc = "finalize" => q.page = {} /\ ~r.more
  BY <1>1 DEF AfterEmit
<1> QED
  BY <1>1, <1>2, <1>3, <1>4, <1>5 DEF ReachingOf, r, q, S

LEMMA AudienceMoves ==
  ASSUME [Next]_vars
  PROVE  audience' = audience \/ \E t \in Volatile : audience' \in {audience \cup {t}, audience \ {t}}
<1> USE DEF rows, lane, vars
<1>1. ASSUME NEW t \in Tokens, ChangeAudience(t)
      PROVE  t \in Volatile /\ audience' \in {audience \cup {t}, audience \ {t}}
  BY <1>1 DEF ChangeAudience
<1>2. ASSUME NEW m \in Masters, MasterStep(m)
      PROVE  audience' = audience
  BY <1>2 DEF MasterStep, MasterReceive, MarkInProgress, FetchPage, Emit,
              FinalizeJobDispatch, CompleteJobIfDone, MarkFanoutFailed
<1>3. ASSUME NEW j \in Jobs,
             \/ CreatePublishJob(j) \/ HandlerStep(j) \/ SubmitScheduledJob(j) \/ DeleteTarget(j)
      PROVE  audience' = audience
  BY <1>3 DEF CreatePublishJob, HandlerStep, EnqueueImmediateJob, EnqueueTimeout,
              MarkEnqueueFailed, SubmitScheduledJob, DeleteTarget
<1> QED
  BY <1>1, <1>2, <1>3, SenderFrame, OutcomeFrame DEF Next, GetScheduledJobs, FlushTick, Crash, Idle

LEMMA ReachingStep == TypeOK /\ Placement /\ Paging /\ Reaching /\ [Next]_vars => Reaching'
<1> SUFFICES ASSUME TypeOK, Placement, Paging, Reaching, [Next]_vars
             PROVE  Reaching'
  OBVIOUS
<1>0. /\ master \in [Masters -> MasterState]
      /\ \A m \in Masters : master[m].pc # "receive" => master[m].job \in Jobs
      /\ Tokens \subseteq Nat \ {0}
  BY ConstantTypes DEF TypeOK
<1>1. Stable \subseteq audience'
  BY AudienceMoves DEF Reaching, Stable
<1>2. ASSUME NEW m \in Masters, master'[m].pc \in {"receive", "start"}
      PROVE  master'[m].cursor = 0
  <2>1. CASE master'[m] = master[m]
    BY <1>2, <2>1 DEF Reaching
  <2>2. CASE Crash
    BY <2>2 DEF Crash, IdleMaster
  <2>3. CASE MasterReceive(m)
    <3>1. master'[m] = [master[m] EXCEPT !.pc = "start", !.job = Head(jobQ)]
      BY <1>0, <2>3 DEF MasterReceive
    <3>2. master'[m].cursor = master[m].cursor
      BY <1>0, <3>1 DEF MasterState
    <3> QED
      BY <2>3, <3>2 DEF Reaching, MasterReceive
  <2>4. CASE CompleteJobIfDone(m) \/ MarkFanoutFailed(m)
    <3>1. master'[m] = IdleMaster
      BY <2>4, ToIdle DEF CompleteJobIfDone, MarkFanoutFailed
    <3> QED
      BY <3>1 DEF IdleMaster
  <2>5. ~(MarkInProgress(m) \/ FetchPage(m) \/ Emit(m) \/ FinalizeJobDispatch(m))
    <3>1. MarkInProgress(m) => master'[m].pc = "fetch"
      BY ToPC DEF MarkInProgress
    <3> QED
      BY <1>2, <3>1, FetchMoves, EmitMoves, FinalizeMoves
  <2> QED
    BY <2>1, <2>2, <2>3, <2>4, <2>5, MasterMoves DEF MasterStep
<1>3. ASSUME NEW m \in Masters, NEW j \in Jobs, Working(m, j)', status'[j] # "DELETED"
      PROVE  ReachingOf(master'[m], sent'[j])
  <2>1. status[j] # "DELETED"
    BY <1>3, DeletedStays
  <2>2. CASE Working(m, j) /\ master'[m] = master[m]
    <3>1. \A n \in Masters : Emit(n) /\ Working(n, j) => n = m
      BY <2>2 DEF Placement
    <3>2. CASE sent'[j] = sent[j]
      BY <2>1, <2>2, <3>2 DEF Reaching, Working
    <3>3. CASE Emit(m)
      <4>1. PICK t \in master[m].page : master'[m].page = master[m].page \ {t}
        BY <3>3, EmitMoves
      <4> QED
        BY <2>2, <4>1
    <3> QED
      BY <3>1, <3>2, <3>3, RowSteps
  <2>3. CASE master'[m].pc = "start"
    BY <2>3 DEF ReachingOf
  <2>4. CASE Working(m, j) /\ MarkInProgress(m)
    <3>1. /\ master'[m].pc = "fetch" /\ master'[m].cursor = master[m].cursor
          /\ master[m].pc = "start"
      BY <2>4, ToPC DEF MarkInProgress, SamePaging
    <3>2. master'[m].cursor = 0
      BY <3>1 DEF Reaching
    <3>3. \A t \in Stable : ~(t <= 0)
      BY <1>0 DEF Stable
    <3> QED
      BY <3>1, <3>2, <3>3 DEF ReachingOf
  <2>5. CASE Working(m, j) /\ FetchPage(m)
    <3>1. sent'[j] = sent[j]
      BY <2>5 DEF FetchPage
    <3> QED
      BY <2>1, <2>5, <3>1, ReachingFetch DEF Working
  <2>6. CASE Working(m, j) /\ Emit(m)
    BY <2>1, <2>6, ReachingEmit DEF Working
  <2>7. CASE Working(m, j) /\ FinalizeJobDispatch(m)
    BY <2>7, FinalizeMoves DEF ReachingOf
  <2> QED
    BY <1>3, <2>2, <2>3, <2>4, <2>5, <2>6, <2>7, WorkingMoves
<1>4. TypeOK'
  BY TypeStep
<1>5. ASSUME NEW m \in Masters, master'[m].pc # "receive", status'[master'[m].job] # "DELETED"
      PROVE  ReachingOf(master'[m], sent'[master'[m].job])
  <2>1. PICK j \in Jobs : j = master'[m].job
    BY <1>4, <1>5 DEF TypeOK
  <2>2. Working(m, j)'
    BY <1>5, <2>1 DEF Working
  <2> QED
    BY <1>3, <1>5, <2>1, <2>2
<1> QED
  BY <1>1, <1>2, <1>5 DEF Reaching

LEMMA ReachingInvariant == Spec => []Reaching
<1>1. Init => Reaching
  BY DEF Init, Reaching, IdleMaster, Stable
<1> QED
  BY <1>1, TypeCorrect, PlacementInvariant, PagingInvariant, ReachingStep, PTL DEF Spec

\* A dispatched job was sent to every token that was registered all along,
\* whatever other tokens came and went between two pages.
THEOREM StableReached == Spec => []StableTokensReached
<1>1. Init => StableTokensReached
  BY DEF Init, StableTokensReached
<1>2. TypeOK /\ Reaching /\ StableTokensReached /\ [Next]_vars => StableTokensReached'
  <2> SUFFICES ASSUME TypeOK, Reaching, StableTokensReached, [Next]_vars,
                      NEW j \in Jobs, status'[j] \in {"DISPATCHED", "COMPLETED"}
               PROVE  Stable \subseteq sent'[j]
    BY DEF StableTokensReached, Stable
  <2>1. sent[j] \subseteq sent'[j]
    <3>1. ASSUME NEW m \in Masters, Emit(m), Working(m, j)
          PROVE  sent[j] \subseteq sent'[j]
      BY <3>1, EmitLoop DEF Working
    <3> QED
      BY <3>1, RowSteps
  <2>2. Stable \subseteq sent[j]
    <3>1. CASE status[j] \in {"DISPATCHED", "COMPLETED"}
      BY <3>1 DEF StableTokensReached, Stable
    <3>2. CASE status[j] \notin {"DISPATCHED", "COMPLETED"}
      <4>1. PICK m \in Masters : FinalizeJobDispatch(m) /\ master[m].job = j /\ Exists(j)
        BY <3>2, StatusSteps
      <4>2. master[m].pc = "finalize" /\ status[j] # "DELETED"
        BY <4>1 DEF FinalizeJobDispatch, Exists, Statuses
      <4> QED
        BY <4>1, <4>2 DEF Reaching, ReachingOf
    <3> QED
      BY <3>1, <3>2
  <2> QED
    BY <2>1, <2>2
<1> QED
  BY <1>1, <1>2, TypeCorrect, ReachingInvariant, PTL DEF Spec

-----------------------------------------------------------------------------
\* The whole inductive invariant, when a statement reported as failed has had
\* no effect.
THEOREM InductiveInvariant ==
  ASSUME {"commit", "finalizeCommit"} \cap Faults = {}
  PROVE  Spec => []IInv
<1>1. /\ Spec => []Conserved
      /\ Spec => []Finished
  BY ConservedInvariant, FinishedInvariant
<1> QED
  BY <1>1, PlacementInvariant, PagingInvariant, DispatchedInvariant, CountedInvariant,
     ReachingInvariant, StableReached, OnePlaceInvariant, FailuresReceipted, PTL DEF IInv

-----------------------------------------------------------------------------
(***************************************************************************)
(* JobLife: the lane implements the life of each job.                      *)
(***************************************************************************)

\* The counters do not pass what was sent.
Bounded ==
  \A j \in Jobs : status[j] # "DELETED" => succ[j] + fail[j] <= Cardinality(sent[j])

LEMMA BoundedInvariant ==
  ASSUME "commit" \notin Faults
  PROVE  Spec => []Bounded
<1>1. TypeOK /\ Conserved => Bounded
  <2> SUFFICES ASSUME TypeOK, Conserved, NEW j \in Jobs, status[j] # "DELETED"
               PROVE  succ[j] + fail[j] <= Cardinality(sent[j])
    BY DEF Bounded
  <2>1. succ[j] + fail[j] + Outstanding(j) <= Cardinality(sent[j])
    BY DEF Conserved
  <2>2. /\ succ[j] \in Nat /\ fail[j] \in Nat /\ Cardinality(sent[j]) \in Nat
        /\ Outstanding(j) \in Nat
    BY CountTypes DEF Outstanding
  <2> QED
    BY <2>1, <2>2
<1> QED
  BY <1>1, TypeCorrect, ConservedInvariant, PTL

\* Only a batch of outcomes that is applied moves the counters of a job, but for
\* its deletion.
LEMMA CounterSteps ==
  ASSUME TypeOK, [Next]_vars, NEW j \in Jobs, ~DeleteTarget(j),
         succ'[j] # succ[j] \/ fail'[j] # fail[j]
  PROVE  ApplyOutcomes /\ Exists(j) /\ Of(batch, j) # {}
<1>0. /\ batch \in Seq(Outcome) /\ succ \in [Jobs -> Nat] /\ fail \in [Jobs -> Nat]
      /\ status \in [Jobs -> Statuses \cup {"NONE", "DELETED"}]
  BY DEF TypeOK
<1>1. ApplyOutcomes
  <2>1. \A k \in Jobs : DeleteTarget(k) => succ'[j] = succ[j] /\ fail'[j] = fail[j]
    BY <1>0 DEF DeleteTarget
  <2>2. \A m \in Masters : Emit(m) => UNCHANGED <<succ, fail>>
    BY EmitFrame DEF rows
  <2>3. \A s \in Senders : SenderStep(s) => UNCHANGED <<succ, fail>>
    BY SenderFrame DEF rows
  <2>4. OutcomeReceive \/ OutcomeCollect => UNCHANGED <<succ, fail>>
    BY OutcomeFrame DEF rows
  <2>5. Flush => ApplyOutcomes \/ UNCHANGED <<succ, fail>>
    BY DEF Flush
  <2>6. Crash => UNCHANGED <<succ, fail>>
    BY DEF Crash, rows
  <2> QED
    BY <2>1, <2>2, <2>3, <2>4, <2>5, <2>6, TaskSteps
<1>2. /\ succ'[j] = succ[j] + SuccessDelta(j) /\ fail'[j] = fail[j] + FailureDelta(j)
      /\ succ[j] \in Nat /\ fail[j] \in Nat
  BY <1>0, <1>1 DEF ApplyOutcomes
<1>3. Exists(j)
  <2>1. ~Exists(j) => SuccessDelta(j) = 0 /\ FailureDelta(j) = 0
    BY DEF SuccessDelta, FailureDelta
  <2> QED
    BY <1>2, <2>1
<1>4. ASSUME Of(batch, j) = {}
      PROVE  SuccessDelta(j) = 0 /\ FailureDelta(j) = 0
  <2>1. \A ok : OfResult(batch, j, ok) = {}
    BY <1>4 DEF Of, OfResult
  <2> QED
    BY <2>1, FS_EmptySet DEF SuccessDelta, FailureDelta
<1> QED
  BY <1>1, <1>2, <1>3, <1>4

\* A job in the hands of a master that has not finished it is under way, or
\* was deleted meanwhile.
LEMMA WorkingStatus ==
  ASSUME TypeOK, Placement, Finished, NEW m \in Masters, NEW j \in Jobs, Working(m, j),
         master[m].pc # "recheck"
  PROVE  status[j] \in {"QUEUED", "IN_PROGRESS", "DELETED"}
<1>1. status[j] \in Statuses \cup {"NONE", "DELETED"}
  BY DEF TypeOK
<1>2. status[j] \notin {"NONE", "SCHEDULED"}
  BY DEF Placement, Untouched, Fresh
<1>3. status[j] \notin {"FAILED", "DISPATCHED", "COMPLETED"}
  BY DEF Finished
<1> QED
  BY <1>1, <1>2, <1>3 DEF Statuses

\* The instance counts as this module does.
LEMMA LifeCardinality ==
  ASSUME NEW j, NEW S
  PROVE  Life(j)!Cardinality(S) = Cardinality(S)
BY DEF Life!Cardinality, Cardinality

LEMMA LifeStatus ==
  ASSUME "finalizeCommit" \notin Faults, TypeOK, Placement, Paging, Finished, Bounded,
         Bounded', [Next]_vars, NEW j \in Jobs, status'[j] # status[j]
  PROVE  Life(j)!Next
<1> USE DEF rows, lane, vars
<1>0. /\ status \in [Jobs -> Statuses \cup {"NONE", "DELETED"}] /\ total \in [Jobs -> Nat]
      /\ succ \in [Jobs -> Nat] /\ fail \in [Jobs -> Nat] /\ sent \in [Jobs -> SUBSET Tokens]
  BY DEF TypeOK
<1>1. CASE CreatePublishJob(j) /\ status[j] = "NONE" /\ status'[j] \in {"QUEUED", "SCHEDULED"}
  BY <1>1 DEF CreatePublishJob, Life!Next, Life!Create, Life!Become
<1>2. CASE MarkEnqueueFailed(j) /\ Exists(j) /\ status'[j] = "FAILED"
  <2>1. status[j] = "QUEUED"
    BY <1>2, UnacceptedSubset DEF MarkEnqueueFailed, Placement, Exists, Statuses
  <2> QED
    BY <1>2, <2>1 DEF MarkEnqueueFailed, Life!Next, Life!GiveUp, Life!Underway, Life!Become
<1>3. CASE GetScheduledJobs /\ status[j] = "SCHEDULED" /\ status'[j] = "QUEUED"
  BY <1>3 DEF GetScheduledJobs, Life!Next, Life!FallDue, Life!Become
<1>4. ASSUME NEW m \in Masters, master[m].job = j, Exists(j), MarkInProgress(m),
             status'[j] = "IN_PROGRESS"
      PROVE  Life(j)!Next
  <2>1. status[j] = "QUEUED"
    BY <1>4, WorkingStatus DEF MarkInProgress, Working, Exists, Statuses
  <2> QED
    BY <1>4, <2>1 DEF MarkInProgress, Life!Next, Life!Start, Life!Become
<1>5. ASSUME NEW m \in Masters, master[m].job = j, Exists(j), FinalizeJobDispatch(m),
             status'[j] = FinalStatus(master[m].count), total'[j] = master[m].count
      PROVE  Life(j)!Next
  <2>1. Working(m, j) /\ status[j] \in {"QUEUED", "IN_PROGRESS"}
    BY <1>5, WorkingStatus DEF FinalizeJobDispatch, Working, Exists, Statuses
  <2>2. master[m].count = Cardinality(sent[j])
    BY <1>5, <2>1, AtFinalize
  <2>3. Cardinality(sent[j]) = 0 <=> sent[j] = {}
    BY CountTypes, FS_EmptySet
  <2>4. UNCHANGED <<succ, fail, sent>>
    BY <1>5 DEF FinalizeJobDispatch
  <2> QED
    BY <1>5, <2>1, <2>2, <2>3, <2>4, LifeCardinality
       DEF FinalStatus, Life!Next, Life!Dispatch, Life!Underway
<1>6. ASSUME NEW m \in Masters, master[m].job = j, CompleteJobIfDone(m),
             status[j] = "DISPATCHED", status'[j] = "COMPLETED",
             Done(status[j], succ[j], fail[j], total[j])
      PROVE  Life(j)!Next
  <2>1. UNCHANGED <<total, succ, fail, sent>>
    BY <1>6 DEF CompleteJobIfDone
  <2>2. succ[j] + fail[j] <= Cardinality(sent[j])
    BY <1>6 DEF Bounded
  <2> QED
    BY <1>6, <2>1, <2>2, CountTypes, LifeCardinality DEF Done, Life!Next, Life!Count
<1>7. ASSUME NEW m \in Masters, master[m].job = j, Exists(j), MarkFanoutFailed(m),
             status'[j] = "FAILED"
      PROVE  Life(j)!Next
  <2>1. status[j] \in {"QUEUED", "IN_PROGRESS"}
    BY <1>7, WorkingStatus DEF MarkFanoutFailed, Working, Exists, Statuses
  <2> QED
    BY <1>7, <2>1 DEF MarkFanoutFailed, Life!Next, Life!GiveUp, Life!Underway, Life!Become
<1>8. CASE /\ Flush /\ ApplyOutcomes /\ status[j] = "DISPATCHED" /\ status'[j] = "COMPLETED"
           /\ succ'[j] + fail'[j] >= total[j]
  <2>1. UNCHANGED <<total, sent>>
    BY <1>8 DEF Flush
  <2>2. succ'[j] >= succ[j] /\ fail'[j] >= fail[j]
    BY <1>8, RowSteps
  <2>3. succ'[j] + fail'[j] <= Cardinality(sent'[j])
    BY <1>8 DEF Bounded
  <2>4. /\ succ'[j] \in Nat /\ fail'[j] \in Nat /\ succ[j] \in Nat /\ fail[j] \in Nat
        /\ Cardinality(sent[j]) \in Nat
    BY TypeStep, CountTypes DEF TypeOK
  <2> QED
    BY <1>8, <2>1, <2>2, <2>3, <2>4, LifeCardinality DEF Life!Next, Life!Count
<1>9. CASE DeleteTarget(j) /\ Exists(j) /\ status'[j] = "DELETED"
  BY <1>0, <1>9 DEF DeleteTarget, Exists, Statuses, Life!Next, Life!Delete
<1> QED
  BY <1>1, <1>2, <1>3, <1>4, <1>5, <1>6, <1>7, <1>8, <1>9, StatusSteps

LEMMA LifeRest ==
  ASSUME TypeOK, Placement, Paging, Finished, Dispatched, Counted, Bounded',
         [Next]_vars, NEW j \in Jobs, status'[j] = status[j]
  PROVE  Life(j)!Next \/ UNCHANGED Life(j)!vars
<1>0. /\ status \in [Jobs -> Statuses \cup {"NONE", "DELETED"}] /\ total \in [Jobs -> Nat]
      /\ sent \in [Jobs -> SUBSET Tokens]
  BY DEF TypeOK
<1>1. ~DeleteTarget(j)
  BY <1>0 DEF DeleteTarget, Exists, Statuses
<1>2. total'[j] = total[j]
  <2> SUFFICES ASSUME NEW m \in Masters, FinalizeJobDispatch(m), Working(m, j)
               PROVE  total'[j] = total[j]
    BY <1>1, RowSteps
  <2>1. master[m].job = j /\ status[j] \in {"QUEUED", "IN_PROGRESS", "DELETED"}
    BY WorkingStatus DEF FinalizeJobDispatch, Working
  <2>2. ASSUME Exists(j), UpdateJobStatus(j, FinalStatus(master[m].count))
        PROVE  FALSE
    BY <1>0, <2>1, <2>2 DEF UpdateJobStatus, FinalStatus
  <2> QED
    BY <1>0, <2>1, <2>2 DEF FinalizeJobDispatch
<1>3. ASSUME NEW m \in Masters, Emit(m), Working(m, j)
      PROVE  Life(j)!Next
  <2>1. master[m].job = j /\ status[j] \in {"QUEUED", "IN_PROGRESS", "DELETED"}
    BY <1>3, WorkingStatus DEF Emit, Working
  <2>2. UNCHANGED <<succ, fail>>
    BY <1>3, EmitFrame DEF rows
  <2>3. PICK t \in master[m].page : sent'[j] = sent[j] \cup {t}
    BY <1>3, <2>1, EmitLoop
  <2>4. t \in Tokens \ sent[j]
    <3>1. master[m] \in MasterState
      BY DEF TypeOK
    <3>2. t \in Tokens
      BY <3>1 DEF MasterState
    <3> QED
      BY <1>3, <2>1, <3>2, EmitFresh
  <2> QED
    BY <1>2, <2>1, <2>2, <2>3, <2>4 DEF Life!Next, Life!Send, Life!Underway
<1>4. CASE sent'[j] = sent[j] /\ (succ'[j] # succ[j] \/ fail'[j] # fail[j])
  <2>1. /\ succ'[j] \in Nat /\ fail'[j] \in Nat /\ succ[j] \in Nat /\ fail[j] \in Nat
        /\ Cardinality(sent[j]) \in Nat /\ total[j] \in Nat
    BY TypeStep, CountTypes DEF TypeOK
  <2>2. ApplyOutcomes /\ Exists(j) /\ Of(batch, j) # {}
    BY <1>1, <1>4, CounterSteps
  <2>3. status[j] # "DELETED"
    BY <2>2 DEF Exists, Statuses
  <2>4. succ'[j] >= succ[j] /\ fail'[j] >= fail[j]
    BY <2>3, RowSteps
  <2>5. succ'[j] + fail'[j] <= Cardinality(sent[j])
    BY <1>4, <2>3 DEF Bounded
  <2>6. status[j] # "SCHEDULED"
    <3>1. status[j] = "SCHEDULED" => sent[j] = {}
      BY DEF Placement, Untouched, Fresh
    <3> QED
      BY <1>4, <2>1, <2>4, <2>5, <3>1, FS_EmptySet
  <2>7. status[j] # "COMPLETED"
    <3>1. status[j] = "COMPLETED" => succ[j] + fail[j] >= Cardinality(sent[j])
      BY DEF Counted, Dispatched
    <3> QED
      BY <1>4, <2>1, <2>4, <2>5, <3>1
  <2>8. ~(status[j] = "DISPATCHED" /\ succ'[j] + fail'[j] >= total[j])
    BY <2>2 DEF ApplyOutcomes, Done
  <2> QED
    BY <1>2, <1>4, <2>1, <2>2, <2>4, <2>5, <2>6, <2>7, <2>8, LifeCardinality
       DEF Exists, Statuses, Life!Next, Life!Count
<1>5. CASE sent'[j] = sent[j] /\ succ'[j] = succ[j] /\ fail'[j] = fail[j]
  BY <1>2, <1>5 DEF Life!vars
<1> QED
  BY <1>3, <1>4, <1>5, RowSteps

\* Every step of the lane is, for every job, a step of its life or none: what
\* the handlers, workers and batches of the lane do together is what a client
\* may rely on, as long as a statement reported as failed was not written.
THEOREM LifeImplemented ==
  ASSUME {"commit", "finalizeCommit"} \cap Faults = {}
  PROVE  Spec => JobLife
<1>1. Init => \A j \in Jobs : Life(j)!Init
  BY DEF Init, Life!Init
<1>2. ASSUME TypeOK, Placement, Paging, Dispatched, Counted, Finished, Bounded, Bounded',
             [Next]_vars
      PROVE  \A j \in Jobs : [Life(j)!Next]_(Life(j)!vars)
  BY <1>2, LifeStatus, LifeRest
<1>3. Spec => []Bounded /\ []Finished
  BY BoundedInvariant, FinishedInvariant
<1> QED
  BY <1>1, <1>2, <1>3, TypeCorrect, PlacementInvariant, PagingInvariant,
     DispatchedInvariant, CountedInvariant, PTL DEF Spec, JobLife
=============================================================================
