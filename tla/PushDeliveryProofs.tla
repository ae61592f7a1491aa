------------------------- MODULE PushDeliveryProofs -------------------------
(***************************************************************************)
(* Proofs about PushDelivery, for every number of jobs, tokens and workers *)
(* and every capacity.                                                     *)
(***************************************************************************)
EXTENDS PushDelivery, FiniteSetTheorems, TLAPS

-----------------------------------------------------------------------------
(***************************************************************************)
(* Counting the entries of a job in a pipeline.                            *)
(***************************************************************************)

\* The positions that hold entries of job j are finitely many.
LEMMA OfFinite ==
  ASSUME NEW T, NEW q \in Seq(T), NEW j
  PROVE  /\ IsFiniteSet(Of(q, j))
         /\ Cardinality(Of(q, j)) \in Nat
         /\ Of(q, j) \subseteq 1 .. Len(q)
<1>1. Of(q, j) \subseteq 1 .. Len(q)
  BY DEF Of
<1>2. IsFiniteSet(1 .. Len(q))
  BY FS_Interval
<1> QED
  BY <1>1, <1>2, FS_Subset, FS_CardinalityType

\* The same for the entries with a given result.
LEMMA OfResultFinite ==
  ASSUME NEW T, NEW q \in Seq(T), NEW j, NEW ok
  PROVE  /\ IsFiniteSet(OfResult(q, j, ok))
         /\ Cardinality(OfResult(q, j, ok)) \in Nat
<1>1. OfResult(q, j, ok) \subseteq 1 .. Len(q)
  BY DEF OfResult
<1>2. IsFiniteSet(1 .. Len(q))
  BY FS_Interval
<1> QED
  BY <1>1, <1>2, FS_Subset, FS_CardinalityType

\* An empty pipeline holds nothing.
LEMMA OfEmpty ==
  ASSUME NEW j
  PROVE  Cardinality(Of(<<>>, j)) = 0
<1>1. Of(<<>>, j) = {}
  BY DEF Of
<1> QED
  BY <1>1, FS_EmptySet

\* Submitting x adds one entry to the count of x's job.
LEMMA OfAppend ==
  ASSUME NEW T, NEW q \in Seq(T), NEW x \in T, NEW j
  PROVE  Cardinality(Of(Append(q, x), j)) =
           Cardinality(Of(q, j)) + (IF x.job = j THEN 1 ELSE 0)
<1> DEFINE n == Len(q) + 1
<1>1. IsFiniteSet(Of(q, j)) /\ Of(q, j) \subseteq 1 .. Len(q) /\ Cardinality(Of(q, j)) \in Nat
  BY OfFinite
<1>2. /\ DOMAIN Append(q, x) = 1 .. n
      /\ Append(q, x)[n] = x
      /\ \A i \in 1 .. Len(q) : Append(q, x)[i] = q[i]
  OBVIOUS
<1>3. CASE x.job = j
  <2>1. Of(Append(q, x), j) = Of(q, j) \cup {n}
    BY <1>2, <1>3 DEF Of
  <2>2. n \notin Of(q, j)
    BY <1>1
  <2> QED
    BY <2>1, <2>2, <1>1, <1>3, FS_AddElement
<1>4. CASE x.job # j
  <2>1. Of(Append(q, x), j) = Of(q, j)
    BY <1>2, <1>4 DEF Of
  <2> QED
    BY <2>1, <1>1, <1>4
<1> QED
  BY <1>3, <1>4

\* Receiving takes one entry off the count of the job at the head.
LEMMA OfTail ==
  ASSUME NEW T, NEW q \in Seq(T), q # <<>>, NEW j
  PROVE  Cardinality(Of(Tail(q), j)) =
           Cardinality(Of(q, j)) - (IF Head(q).job = j THEN 1 ELSE 0)
<1> DEFINE S == Of(Tail(q), j)
           R == Of(q, j) \ {1}
           f == [i \in S |-> i + 1]
<1>1. IsFiniteSet(Of(q, j)) /\ Cardinality(Of(q, j)) \in Nat
  BY OfFinite
<1>2. Tail(q) \in Seq(T) /\ Len(q) \in Nat \ {0} /\ Len(Tail(q)) = Len(q) - 1
  OBVIOUS
<1>3. \A i \in 1 .. Len(Tail(q)) : Tail(q)[i] = q[i + 1]
  OBVIOUS
<1>4. S \subseteq 1 .. Len(Tail(q)) /\ IsFiniteSet(S)
  BY <1>2, OfFinite
<1>5. Cardinality(R) = Cardinality(S)
  <2>1. f \in [S -> R]
    BY <1>2, <1>3, <1>4 DEF Of
  <2>2. \A a, b \in S : f[a] = f[b] => a = b
    BY <1>4
  <2>3. \A r \in R : \E a \in S : f[a] = r
    <3> TAKE r \in R
    <3>1. r - 1 \in S
      BY <1>2, <1>3 DEF Of
    <3> QED
      BY <3>1, <1>4, <1>2 DEF Of
  <2> HIDE DEF f, S, R
  <2>4. f \in Bijection(S, R)
    BY <2>1, <2>2, <2>3 DEF Bijection, Injection, Surjection, IsInjective
  <2> QED
    BY <2>4, <1>4, FS_Bijection DEF ExistsBijection
<1>6. Head(q) = q[1] /\ 1 \in DOMAIN q
  BY <1>2
<1>7. 1 \in Of(q, j) <=> Head(q).job = j
  BY <1>6 DEF Of
<1>8. Cardinality(R) = IF 1 \in Of(q, j) THEN Cardinality(Of(q, j)) - 1
                                         ELSE Cardinality(Of(q, j))
  BY <1>1, FS_RemoveElement
<1> HIDE DEF R
<1> QED
  BY <1>1, <1>5, <1>7, <1>8

\* Every entry of a batch is a success or a failure, and not both.
LEMMA OfSplit ==
  ASSUME NEW q \in Seq(Outcome), NEW j
  PROVE  Cardinality(Of(q, j)) =
           Cardinality(OfResult(q, j, TRUE)) + Cardinality(OfResult(q, j, FALSE))
<1> DEFINE G == OfResult(q, j, TRUE)
           B == OfResult(q, j, FALSE)
<1>1. Of(q, j) = G \cup B
  <2>1. \A i \in DOMAIN q : q[i].ok \in BOOLEAN
    <3> TAKE i \in DOMAIN q
    <3>1. q[i] \in Outcome
      OBVIOUS
    <3> QED
      BY <3>1 DEF Outcome
  <2> QED
    BY <2>1 DEF Of, OfResult
<1>2. G \cap B = {}
  BY DEF OfResult
<1>3. IsFiniteSet(G) /\ IsFiniteSet(B) /\ Cardinality(G) \in Nat /\ Cardinality(B) \in Nat
  BY OfResultFinite
<1> HIDE DEF G, B
<1>4. Cardinality(G \cap B) = 0
  BY <1>2, FS_EmptySet
<1>5. Cardinality(G \cup B) = Cardinality(G) + Cardinality(B) - Cardinality(G \cap B)
  BY <1>3, FS_Union
<1>6. Cardinality(G \cup B) = Cardinality(G) + Cardinality(B)
  BY <1>3, <1>4, <1>5
<1> QED
  BY <1>1, <1>6 DEF G, B

-----------------------------------------------------------------------------
(***************************************************************************)
(* Type correctness.                                                       *)
(***************************************************************************)

\* What the assumption says of each constant.
LEMMA ConstantTypes ==
  /\ IsFiniteSet(Jobs) /\ IsFiniteSet(Tokens) /\ IsFiniteSet(Senders)
  /\ Tokens \subseteq Nat \ {0}
  /\ JobQueueSize \in Nat \ {0} /\ TaskQueueSize \in Nat \ {0} /\ DLQQueueSize \in Nat \ {0}
  /\ BatchSize \in Nat \ {0} /\ OutcomeBatchSize \in Nat \ {0}
  /\ Nothing \notin Jobs /\ Nothing \notin Task
BY PushDeliveryAssumption

\* Entries of a bounded pipeline: what Append, Head and Tail keep.
LEMMA QueueTypes ==
  ASSUME NEW T, NEW q \in Seq(T), NEW cap \in Nat, Len(q) <= cap
  PROVE  /\ \A x \in T : Append(q, x) \in Seq(T) /\ Len(Append(q, x)) = Len(q) + 1
         /\ Len(q) < cap => \A x \in T : Len(Append(q, x)) <= cap
         /\ q # <<>> => /\ Head(q) \in T
                        /\ Tail(q) \in Seq(T)
                        /\ Len(Tail(q)) <= cap
OBVIOUS

\* The idle master is a master.
LEMMA IdleMasterType == IdleMaster \in MasterState /\ IdleMaster.pc = "receive"
BY DEF IdleMaster, MasterState, MasterPC

\* Updating fields of a master.
LEMMA MasterFields ==
  ASSUME NEW r \in MasterState, NEW p \in MasterPC
  PROVE  /\ [r EXCEPT !.pc = p] \in MasterState
         /\ \A b \in BOOLEAN : [r EXCEPT !.pc = p, !.more = b] \in MasterState
         /\ \A j \in Jobs : [r EXCEPT !.pc = p, !.job = j] \in MasterState
         /\ \A P \in SUBSET Tokens : [r EXCEPT !.page = P, !.pc = p] \in MasterState
         /\ \A c, n \in Nat, P \in SUBSET Tokens, b \in BOOLEAN :
              [r EXCEPT !.pc = p, !.cursor = c, !.page = P, !.more = b, !.count = n]
                \in MasterState
BY DEF MasterState

\* Replacing one master by a well-typed one.
MastersOK ==
  /\ master \in [Masters -> MasterState]
  /\ \A m \in Masters : master[m].pc # "receive" => master[m].job \in Jobs
LEMMA MasterUpdate ==
  ASSUME MastersOK, NEW m \in Masters, NEW r \in MasterState,
         r.pc # "receive" => r.job \in Jobs,
         master' = [master EXCEPT ![m] = r]
  PROVE  MastersOK'
BY DEF MastersOK

\* A status update keeps the type of status.
LEMMA StatusType ==
  ASSUME TypeOK, NEW j \in Jobs, NEW st \in Statuses,
         UpdateJobStatus(j, st) \/ UNCHANGED status
  PROVE  status' \in [Jobs -> Statuses \cup {"NONE", "DELETED"}]
BY DEF TypeOK, UpdateJobStatus

\* The fault counter stays a natural number.
LEMMA FaultType ==
  ASSUME TypeOK, NEW call, Fault(call) \/ NoFault
  PROVE  faults' \in Nat
BY DEF TypeOK, Fault, NoFault

LEMMA TypeInit == Init => TypeOK
<1> SUFFICES ASSUME Init PROVE TypeOK
  OBVIOUS
<1>1. \A T, n \in Nat : <<>> \in Seq(T) /\ Len(<<>>) <= n
  OBVIOUS
<1>2. /\ jobQ \in Seq(Jobs) /\ Len(jobQ) <= JobQueueSize
      /\ taskQ \in Seq(Task) /\ Len(taskQ) <= TaskQueueSize
      /\ dlq \in Seq(Outcome) /\ Len(dlq) <= DLQQueueSize
      /\ held \in Seq(Outcome) /\ Len(held) <= 1
      /\ batch \in Seq(Outcome)
  BY <1>1, ConstantTypes DEF Init
<1>3. /\ master \in [Masters -> MasterState]
      /\ \A m \in Masters : master[m].pc = "receive"
  BY IdleMasterType DEF Init
<1> QED
  BY <1>2, <1>3 DEF Init, TypeOK, Statuses

LEMMA TypeHandlers ==
  ASSUME TypeOK, NEW j \in Jobs,
         CreatePublishJob(j) \/ HandlerStep(j) \/ DeleteTarget(j)
  PROVE  TypeOK'
<1> USE DEF vars, rows, lane
<1>1. CASE CreatePublishJob(j)
  <2>1. PICK scheduled \in BOOLEAN :
          /\ status' = [status EXCEPT ![j] = IF scheduled THEN "SCHEDULED" ELSE "QUEUED"]
          /\ \/ /\ caller' = [caller EXCEPT ![j] = IF scheduled THEN "accepted" ELSE "submit"]
                /\ NoFault
             \/ caller' = [caller EXCEPT ![j] = "rejected"] /\ Fault("insert")
    BY <1>1 DEF CreatePublishJob, InsertJob, JobStatusForSchedule
  <2>2. faults' \in Nat
    BY <2>1, FaultType
  <2>3. status' \in [Jobs -> Statuses \cup {"NONE", "DELETED"}]
    BY <2>1 DEF TypeOK, Statuses
  <2>4. caller' \in [Jobs -> {"idle", "submit", "markFailed", "accepted", "rejected"}]
    BY <2>1 DEF TypeOK
  <2> QED
    BY <1>1, <2>2, <2>3, <2>4 DEF TypeOK, CreatePublishJob
<1>2. CASE EnqueueImmediateJob(j)
  BY <1>2, ConstantTypes, QueueTypes DEF TypeOK, EnqueueImmediateJob
<1>3. CASE EnqueueTimeout(j)
  BY <1>3 DEF TypeOK, EnqueueTimeout
<1>4. CASE MarkEnqueueFailed(j)
  <2>1. status' \in [Jobs -> Statuses \cup {"NONE", "DELETED"}]
    BY <1>4, StatusType DEF MarkEnqueueFailed, Statuses
  <2>2. faults' \in Nat
    BY <1>4, FaultType DEF MarkEnqueueFailed
  <2> QED
    BY <1>4, <2>1, <2>2 DEF TypeOK, MarkEnqueueFailed
<1>5. CASE DeleteTarget(j)
  BY <1>5 DEF TypeOK, DeleteTarget
<1> QED
  BY <1>1, <1>2, <1>3, <1>4, <1>5 DEF HandlerStep

LEMMA TypeScheduler ==
  ASSUME TypeOK, GetScheduledJobs \/ \E j \in Jobs : SubmitScheduledJob(j)
  PROVE  TypeOK'
<1> USE DEF vars, rows, lane
<1>1. CASE GetScheduledJobs
  <2>1. PICK due \in SUBSET Due :
          /\ status' = [j \in Jobs |-> IF j \in due THEN "QUEUED" ELSE status[j]]
          /\ claimed' \in {due, {}}
          /\ NoFault \/ Fault("claim")
    BY <1>1 DEF GetScheduledJobs
  <2>2. faults' \in Nat
    BY <2>1, FaultType
  <2>3. /\ status' \in [Jobs -> Statuses \cup {"NONE", "DELETED"}]
        /\ claimed' \subseteq Jobs
    BY <2>1 DEF TypeOK, Statuses, Due
  <2> QED
    BY <1>1, <2>2, <2>3 DEF TypeOK, GetScheduledJobs
<1>2. ASSUME NEW j \in Jobs, SubmitScheduledJob(j)
      PROVE  TypeOK'
  BY <1>2, ConstantTypes, QueueTypes DEF TypeOK, SubmitScheduledJob
<1> QED
  BY <1>1, <1>2

LEMMA TypeMaster ==
  ASSUME TypeOK, NEW m \in Masters, MasterStep(m)
  PROVE  TypeOK'
<1> USE DEF vars, rows, lane
<1> DEFINE StatusOK == status' \in [Jobs -> Statuses \cup {"NONE", "DELETED"}]
           me == master[m]
<1>0. /\ MastersOK
      /\ me \in MasterState
      /\ me.pc # "receive" => me.job \in Jobs
      /\ me.page \in SUBSET Tokens /\ me.cursor \in Nat /\ me.count \in Nat
  BY DEF TypeOK, MastersOK, MasterState
<1>a. {"receive", "start", "fetch", "emit", "finalize", "recheck", "fail"} \subseteq MasterPC
  BY DEF MasterPC
<1>b. ASSUME NEW p \in MasterPC, me.job \in Jobs,
             master' = [master EXCEPT ![m] = [@ EXCEPT !.pc = p]]
      PROVE  MastersOK'
  <2>1. [me EXCEPT !.pc = p] \in MasterState /\ [me EXCEPT !.pc = p].job = me.job
    BY <1>0, MasterFields DEF MasterState
  <2> QED
    BY <2>1, <1>0, <1>b, MasterUpdate
<1>c. ASSUME master' = [master EXCEPT ![m] = IdleMaster]
      PROVE  MastersOK'
  BY <1>0, <1>c, IdleMasterType, MasterUpdate
<1>1. CASE MasterReceive(m)
  <2>1. Head(jobQ) \in Jobs /\ Tail(jobQ) \in Seq(Jobs) /\ Len(Tail(jobQ)) <= JobQueueSize
    BY <1>1, ConstantTypes, QueueTypes DEF TypeOK, MasterReceive
  <2>2. MastersOK'
    <3> DEFINE r == [me EXCEPT !.pc = "start", !.job = Head(jobQ)]
    <3>1. r \in MasterState /\ r.job = Head(jobQ)
      BY <2>1, <1>0, <1>a, MasterFields DEF MasterState
    <3>2. master' = [master EXCEPT ![m] = r]
      BY <1>1 DEF MasterReceive
    <3> HIDE DEF r
    <3> QED
      BY <3>1, <3>2, <2>1, <1>0, MasterUpdate
  <2> QED
    BY <1>1, <2>1, <2>2 DEF TypeOK, MasterReceive, MastersOK
<1>2. CASE MarkInProgress(m)
  <2>1. StatusOK /\ faults' \in Nat
    BY <1>2, <1>0, StatusType, FaultType DEF MarkInProgress, Statuses
  <2>2. MastersOK'
    BY <1>2, <1>0, <1>a, <1>b DEF MarkInProgress
  <2> QED
    BY <1>2, <2>1, <2>2 DEF TypeOK, MarkInProgress, MastersOK
<1>3. CASE FetchPage(m)
  <2> DEFINE A == Recipients(me.job)
             page == Page(A, me.cursor)
             more == HasMore(A, me.cursor)
  <2>1. page \subseteq Tokens /\ Cardinality(page) \in Nat
    <3>1. page \subseteq Tokens
      BY DEF TypeOK, Recipients, Page, Ahead
    <3>2. IsFiniteSet(page)
      BY <3>1, ConstantTypes, FS_Subset
    <3> QED
      BY <3>1, <3>2, FS_CardinalityType
  <2>2. more \in BOOLEAN
    BY DEF HasMore
  <2>3. faults' \in Nat
    BY <1>3, FaultType DEF FetchPage
  <2>4. me.job \in Jobs
    BY <1>3, <1>0 DEF FetchPage
  <2>5. \/ master' = [master EXCEPT ![m] = [@ EXCEPT !.pc = "finalize", !.more = FALSE]]
        \/ master' = [master EXCEPT ![m] = [@ EXCEPT !.pc = "fail"]]
        \/ \E c \in Tokens :
             master' = [master EXCEPT
               ![m] = [@ EXCEPT !.pc = "emit", !.cursor = c, !.page = page,
                                !.more = more, !.count = me.count + Cardinality(page)]]
    BY <1>3 DEF FetchPage
  <2> HIDE DEF A, page, more
  <2>6. MastersOK'
    <3>1. CASE master' = [master EXCEPT ![m] = [@ EXCEPT !.pc = "finalize", !.more = FALSE]]
      <4> DEFINE r == [me EXCEPT !.pc = "finalize", !.more = FALSE]
      <4>1. r \in MasterState
        BY <1>0, <1>a, MasterFields
      <4>2. r.job = me.job
        BY <1>0 DEF MasterState
      <4>3. master' = [master EXCEPT ![m] = r]
        BY <3>1
      <4> HIDE DEF r
      <4> QED
        BY <4>1, <4>2, <4>3, <2>4, <1>0, MasterUpdate
    <3>2. CASE master' = [master EXCEPT ![m] = [@ EXCEPT !.pc = "fail"]]
      BY <3>2, <2>4, <1>a, <1>b
    <3>3. ASSUME NEW c \in Tokens,
                 master' = [master EXCEPT
                   ![m] = [@ EXCEPT !.pc = "emit", !.cursor = c, !.page = page,
                                    !.more = more, !.count = me.count + Cardinality(page)]]
          PROVE  MastersOK'
      <4> DEFINE n == me.count + Cardinality(page)
                 r == [me EXCEPT !.pc = "emit", !.cursor = c, !.page = page,
                                 !.more = more, !.count = n]
      <4>1. c \in Nat /\ n \in Nat
        BY <2>1, <1>0, ConstantTypes
      <4>2. master' = [master EXCEPT ![m] = r]
        BY <3>3
      <4> HIDE DEF n
      <4>3. r \in MasterState
        BY <4>1, <2>1, <2>2, <1>0, <1>a, MasterFields
      <4>4. r.job = me.job
        BY <1>0 DEF MasterState
      <4> QED
        BY <4>2, <4>3, <4>4, <2>4, <1>0, MasterUpdate
    <3> QED
      BY <3>1, <3>2, <3>3, <2>5
  <2> QED
    BY <1>3, <2>3, <2>6 DEF TypeOK, FetchPage, MastersOK
<1>4. CASE Emit(m)
  <2>1. PICK t \in me.page :
          /\ taskQ' = Append(taskQ, [job |-> me.job, token |-> t])
          /\ master' = [master EXCEPT
               ![m] = [@ EXCEPT !.page = me.page \ {t},
                                !.pc = AfterEmit(me.page \ {t}, me.more)]]
          /\ sent' = [sent EXCEPT ![me.job] = @ \cup {t}]
    BY <1>4 DEF Emit
  <2>2. me.job \in Jobs /\ t \in Tokens
    BY <1>4, <1>0 DEF Emit
  <2>3. [job |-> me.job, token |-> t] \in Task
    BY <2>2 DEF Task
  <2>4. taskQ' \in Seq(Task) /\ Len(taskQ') <= TaskQueueSize
    BY <2>1, <2>3, <1>4, QueueTypes, ConstantTypes DEF TypeOK, Emit
  <2>5. MastersOK'
    <3> DEFINE p == AfterEmit(me.page \ {t}, me.more)
               P == me.page \ {t}
               r == [me EXCEPT !.page = P, !.pc = p]
    <3>1. p \in MasterPC /\ P \in SUBSET Tokens
      BY <1>0 DEF AfterEmit, MasterPC
    <3>2. master' = [master EXCEPT ![m] = r]
      BY <2>1
    <3> HIDE DEF p, P
    <3>3. r \in MasterState
      BY <3>1, <1>0, MasterFields
    <3>4. r.job = me.job
      BY <1>0 DEF MasterState
    <3> HIDE DEF r
    <3> QED
      BY <3>2, <3>3, <3>4, <2>2, <1>0, MasterUpdate
  <2>6. sent' \in [Jobs -> SUBSET Tokens]
    BY <2>1, <2>2 DEF TypeOK
  <2> QED
    BY <1>4, <2>4, <2>5, <2>6 DEF TypeOK, Emit, MastersOK
<1>5. CASE FinalizeJobDispatch(m)
  <2>1. StatusOK
    BY <1>5, <1>0, StatusType DEF FinalizeJobDispatch, Statuses, FinalStatus
  <2>2. faults' \in Nat
    BY <1>5, FaultType DEF FinalizeJobDispatch
  <2>3. MastersOK'
    BY <1>5, <1>0, <1>a, <1>b DEF FinalizeJobDispatch
  <2>4. total' \in [Jobs -> Nat]
    BY <1>5, <1>0 DEF TypeOK, FinalizeJobDispatch
  <2> QED
    BY <1>5, <2>1, <2>2, <2>3, <2>4 DEF TypeOK, FinalizeJobDispatch, MastersOK
<1>6. CASE CompleteJobIfDone(m)
  <2>1. StatusOK
    BY <1>6 DEF TypeOK, CompleteJobIfDone, Statuses
  <2>2. MastersOK'
    BY <1>6, <1>c DEF CompleteJobIfDone
  <2>3. faults' \in Nat
    BY <1>6, FaultType DEF CompleteJobIfDone
  <2> QED
    BY <1>6, <2>1, <2>2, <2>3 DEF TypeOK, CompleteJobIfDone, MastersOK
<1>7. CASE MarkFanoutFailed(m)
  <2>1. StatusOK /\ faults' \in Nat
    BY <1>7, <1>0, StatusType, FaultType DEF MarkFanoutFailed, Statuses
  <2>2. MastersOK'
    BY <1>7, <1>c DEF MarkFanoutFailed
  <2> QED
    BY <1>7, <2>1, <2>2 DEF TypeOK, MarkFanoutFailed, MastersOK
<1> QED
  BY <1>1, <1>2, <1>3, <1>4, <1>5, <1>6, <1>7 DEF MasterStep

LEMMA TypeSender ==
  ASSUME TypeOK, NEW s \in Senders, SenderStep(s)
  PROVE  TypeOK'
<1> USE DEF vars, rows, lane
<1>1. CASE SenderReceive(s)
  <2>1. Head(taskQ) \in Task /\ Tail(taskQ) \in Seq(Task) /\ Len(Tail(taskQ)) <= TaskQueueSize
    BY <1>1, ConstantTypes, QueueTypes DEF TypeOK, SenderReceive
  <2> QED
    BY <1>1, <2>1 DEF TypeOK, SenderReceive
<1>2. CASE DispatchPushTask(s)
  <2>1. PICK ok \in BOOLEAN :
          dlq' = Append(dlq, [job |-> sender[s].job, token |-> sender[s].token, ok |-> ok])
    BY <1>2 DEF DispatchPushTask
  <2>2. sender[s] \in Task
    BY <1>2 DEF TypeOK, DispatchPushTask
  <2>3. [job |-> sender[s].job, token |-> sender[s].token, ok |-> ok] \in Outcome
    BY <2>2 DEF Task, Outcome
  <2>4. dlq' \in Seq(Outcome) /\ Len(dlq') <= DLQQueueSize
    BY <2>1, <2>3, <1>2, ConstantTypes, QueueTypes DEF TypeOK, DispatchPushTask
  <2> QED
    BY <1>2, <2>4 DEF TypeOK, DispatchPushTask
<1> QED
  BY <1>1, <1>2 DEF SenderStep

\* The failed tasks of a batch are tasks.
LEMMA FailedTasksType ==
  ASSUME NEW q \in Seq(Outcome)
  PROVE  FailedTasks(q) \subseteq Task
<1> SUFFICES ASSUME NEW t \in FailedTasks(q)
             PROVE  t \in Task
  OBVIOUS
<1>1. PICK i \in DOMAIN q : t = [job |-> q[i].job, token |-> q[i].token]
  BY DEF FailedTasks
<1>2. q[i] \in Outcome
  OBVIOUS
<1> QED
  BY <1>1, <1>2 DEF Outcome, Task

LEMMA TypeOutcome ==
  ASSUME TypeOK, OutcomeReceive \/ OutcomeCollect \/ FlushTick \/ Flush
  PROVE  TypeOK'
<1> USE DEF vars, rows, lane
<1>1. CASE OutcomeReceive
  <2>1. Head(dlq) \in Outcome /\ Tail(dlq) \in Seq(Outcome) /\ Len(Tail(dlq)) <= DLQQueueSize
    BY <1>1, ConstantTypes, QueueTypes DEF TypeOK, OutcomeReceive
  <2>2. held' \in Seq(Outcome) /\ Len(held') = 1
    BY <1>1, <2>1 DEF OutcomeReceive
  <2> QED
    BY <1>1, <2>1, <2>2 DEF TypeOK, OutcomeReceive
<1>2. CASE OutcomeCollect
  <2>1. Head(held) \in Outcome
    BY <1>2 DEF TypeOK, OutcomeCollect
  <2>2. batch' \in Seq(Outcome)
    BY <1>2, <2>1 DEF TypeOK, OutcomeCollect
  <2>3. phase' \in {"select", "flush"}
    BY <1>2 DEF OutcomeCollect
  <2>4. held' \in Seq(Outcome) /\ Len(held') <= 1
    BY <1>2 DEF OutcomeCollect
  <2> QED
    BY <1>2, <2>2, <2>3, <2>4 DEF TypeOK, OutcomeCollect
<1>3. CASE FlushTick
  BY <1>3 DEF TypeOK, FlushTick
<1>4. CASE Flush
  <2>1. \/ ApplyOutcomes
        \/ UNCHANGED <<status, succ, fail, receipts>>
    BY <1>4 DEF Flush
  <2>2. faults' \in Nat
    BY <1>4, FaultType DEF Flush
  <2>3. batch' \in Seq(Outcome)
    <3>1. batch' = batch \/ batch' = <<>>
      BY <1>4 DEF Flush
    <3>2. <<>> \in Seq(Outcome)
      OBVIOUS
    <3> QED
      BY <3>1, <3>2 DEF TypeOK
  <2>4. CASE ApplyOutcomes
    <3>1. receipts' \subseteq Task
      BY <2>4, FailedTasksType DEF TypeOK, ApplyOutcomes
    <3>2. \A j \in Jobs : SuccessDelta(j) \in Nat /\ FailureDelta(j) \in Nat
      BY OfResultFinite DEF TypeOK, SuccessDelta, FailureDelta
    <3>3. succ \in [Jobs -> Nat] /\ fail \in [Jobs -> Nat]
      BY DEF TypeOK
    <3>4. succ' \in [Jobs -> Nat]
      BY <2>4, <3>2, <3>3 DEF ApplyOutcomes
    <3>5. fail' \in [Jobs -> Nat]
      BY <2>4, <3>2, <3>3 DEF ApplyOutcomes
    <3>6. status' \in [Jobs -> Statuses \cup {"NONE", "DELETED"}]
      BY <2>4 DEF TypeOK, ApplyOutcomes, Statuses
    <3> QED
      BY <1>4, <2>2, <2>3, <3>1, <3>4, <3>5, <3>6 DEF TypeOK, Flush
  <2>5. CASE UNCHANGED <<status, succ, fail, receipts>>
    BY <1>4, <2>2, <2>3, <2>5 DEF TypeOK, Flush
  <2> QED
    BY <2>1, <2>4, <2>5
<1> QED
  BY <1>1, <1>2, <1>3, <1>4

LEMMA TypeWorld ==
  ASSUME TypeOK, (\E t \in Tokens : ChangeAudience(t)) \/ Crash \/ Idle
  PROVE  TypeOK'
<1> USE DEF vars, rows, lane
<1>1. ASSUME NEW t \in Tokens, ChangeAudience(t)
      PROVE  TypeOK'
  BY <1>1 DEF TypeOK, ChangeAudience
<1>2. CASE Crash
  <2>1. /\ master' \in [Masters -> MasterState]
        /\ \A m \in Masters : master'[m].pc = "receive"
    BY <1>2, IdleMasterType DEF Crash
  <2>2. caller' \in [Jobs -> {"idle", "submit", "markFailed", "accepted", "rejected"}]
    BY <1>2 DEF TypeOK, Crash
  <2>3. sender' \in [Senders -> Task \cup {Nothing}]
    BY <1>2 DEF Crash
  <2>4. /\ jobQ' \in Seq(Jobs) /\ Len(jobQ') <= JobQueueSize
        /\ taskQ' \in Seq(Task) /\ Len(taskQ') <= TaskQueueSize
        /\ dlq' \in Seq(Outcome) /\ Len(dlq') <= DLQQueueSize
        /\ held' \in Seq(Outcome) /\ Len(held') <= 1
        /\ batch' \in Seq(Outcome)
    BY <1>2, ConstantTypes DEF Crash
  <2> QED
    BY <1>2, <2>1, <2>2, <2>3, <2>4 DEF TypeOK, Crash
<1>3. CASE Idle
  BY <1>3 DEF TypeOK, Idle
<1> QED
  BY <1>1, <1>2, <1>3

LEMMA TypeStep == TypeOK /\ [Next]_vars => TypeOK'
<1> SUFFICES ASSUME TypeOK, [Next]_vars
             PROVE  TypeOK'
  OBVIOUS
<1>1. CASE UNCHANGED vars
  BY <1>1 DEF TypeOK, vars, rows, lane
<1>2. CASE Next
  BY <1>2, TypeHandlers, TypeScheduler, TypeMaster, TypeSender, TypeOutcome, TypeWorld
  DEF Next
<1> QED
  BY <1>1, <1>2

\* Type correctness: every row, queue and local variable keeps its type, and
\* no pipeline ever holds more than its capacity.
THEOREM TypeCorrect == Spec => []TypeOK
BY TypeInit, TypeStep, PTL DEF Spec
=============================================================================
