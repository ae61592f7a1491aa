------------------------------ MODULE Shutdown ------------------------------
(***************************************************************************)
(* Graceful shutdown.  Each lane is a chain of three pipelines, each       *)
(* feeding a pool of workers: masters, senders and the outcome worker.     *)
(* After the signal main waits for the HTTP handlers, tells the scheduler  *)
(* to stop, and drains both chains upstream first; the pipelines behave    *)
(* as in MemoryPipeline, with the two selects of Submit and Receive apart. *)
(* What the workers write to the jobs' rows is the subject of              *)
(* PushDelivery; here a task is written when its outcome is.               *)
(***************************************************************************)
EXTENDS Naturals, Sequences, FiniteSets

CONSTANTS
  Lanes,            \* the chains, such as push and live activity
  Jobs, Tokens,     \* a job yields one task per token
  Scheduled,        \* the jobs that the scheduler submits
  Workers,          \* masters, senders and outcome receivers
  LaneOf,           \* the lane of each job and worker
  StageOf,          \* 1 for a master, 2 for a sender, 3 for an outcome receiver
  QueueSize,        \* capacity of the pipelines
  OutcomeBatchSize, \* flush threshold
  TimeoutsOf,       \* which phases may time out: "http", "drain"
  MaxFaults         \* bound: how many flushes fail

Stages == 1 .. 3
Task == Jobs \X Tokens

ASSUME ShutdownAssumption ==
  /\ Scheduled \subseteq Jobs
  /\ \A x \in Jobs \cup Workers : LaneOf[x] \in Lanes
  /\ \A w \in Workers : StageOf[w] \in Stages
  /\ \A l \in Lanes, k \in Stages : \E w \in Workers : LaneOf[w] = l /\ StageOf[w] = k
  /\ {QueueSize, OutcomeBatchSize} \subseteq Nat \ {0} /\ MaxFaults \in Nat
  /\ TimeoutsOf \subseteq {"http", "drain"}

VARIABLES
  main,        \* where main stands
  stopped,     \* stopChan of the scheduler is closed
  scheduler,   \* whether the scheduler's goroutine is still in its loop
  canceled,    \* workerCtx has been canceled
  storeOpen,   \* store.Close has not been called
  graceful,    \* main logged a graceful shutdown
  drained,     \* how many stages of each chain are closed and waited for
  closed,      \* the closed pipelines of each lane
  buf,         \* the buffers of the pipelines
  producer,    \* the handler or scheduler iteration behind each job
  worker,      \* local variables of the workers
  batch, batcher, \* outcomeBatch of each lane, and where its loop is
  written,     \* tasks whose outcome is in the database
  dropped,     \* history: tasks whose last flush failed
  early,       \* history: jobs accepted before their pipeline was closed
  faults       \* history: flushes that failed

process == <<main, stopped, scheduler, canceled, storeOpen, graceful, drained, closed>>
outcomes == <<batch, batcher, written, dropped, faults>>
vars == <<process, buf, producer, worker, outcomes, early>>

Running == main # "exited"
IdleWorker == [pc |-> "receive", left |-> {}, tries |-> 0]

Init ==
  /\ main = "running" /\ stopped = FALSE /\ scheduler = "loop"
  /\ canceled = FALSE /\ storeOpen = TRUE /\ graceful = FALSE
  /\ drained = [l \in Lanes |-> 0] /\ closed = [l \in Lanes |-> {}]
  /\ buf = [l \in Lanes |-> [k \in Stages |-> <<>>]]
  /\ producer = [j \in Jobs |-> "none"]
  /\ worker = [w \in Workers |-> IdleWorker]
  /\ batch = [l \in Lanes |-> {}] /\ batcher = [l \in Lanes |-> "select"]
  /\ written = {} /\ dropped = {} /\ early = {} /\ faults = 0

-----------------------------------------------------------------------------
(***************************************************************************)
(* Producers of jobs.                                                      *)
(***************************************************************************)
HasRoom(l, k) == Len(buf[l][k]) < QueueSize
Put(l, k, i) == buf' = [buf EXCEPT ![l][k] = Append(@, i)]
SetProducer(j, p) == producer' = [producer EXCEPT ![j] = p]
Busy == {"claimed", "check", "send", "refused"}

Request(j) ==
  /\ main = "running" /\ j \notin Scheduled /\ producer[j] = "none"
  /\ SetProducer(j, "check")
  /\ UNCHANGED <<process, buf, worker, outcomes, early>>

\* The scheduler looks at the ticker and at stopChan in one select: a tick may
\* win although Stop was called.  Claiming due jobs needs the store and workerCtx.
Tick ==
  /\ Running /\ scheduler = "loop" /\ storeOpen /\ ~canceled
  /\ \A j \in Scheduled : producer[j] \notin Busy
  /\ \E due \in SUBSET {j \in Scheduled : producer[j] = "none"} :
       /\ due # {}
       /\ producer' = [j \in Jobs |-> IF j \in due THEN "claimed" ELSE producer[j]]
  /\ UNCHANGED <<process, buf, worker, outcomes, early>>
SubmitClaimed(j) ==
  /\ Running /\ producer[j] = "claimed"
  /\ \A i \in Scheduled \ {j} : producer[i] \notin Busy \ {"claimed"}
  /\ SetProducer(j, "check")
  /\ UNCHANGED <<process, buf, worker, outcomes, early>>
SchedulerExit ==
  /\ Running /\ stopped /\ scheduler = "loop"
  /\ \A j \in Scheduled : producer[j] \notin Busy
  /\ scheduler' = "exited"
  /\ UNCHANGED <<main, stopped, canceled, storeOpen, graceful, drained, closed, buf,
                 producer, worker, outcomes, early>>

\* Submit of the job pipeline: the first select, then the second.
CheckOpen(j) ==
  /\ Running /\ producer[j] = "check"
  /\ SetProducer(j, IF 1 \in closed[LaneOf[j]] THEN "refused" ELSE "send")
  /\ UNCHANGED <<process, buf, worker, outcomes, early>>
EnqueueUnbounded(j) ==
  /\ Running /\ producer[j] = "send"
  /\ Put(LaneOf[j], 1, j)
  /\ SetProducer(j, "accepted")
  /\ early' = IF 1 \in closed[LaneOf[j]] THEN early ELSE early \cup {j}
  /\ UNCHANGED <<process, worker, outcomes>>
Enqueue(j) ==
  /\ Running /\ producer[j] = "send"
  /\ HasRoom(LaneOf[j], 1)
  /\ Put(LaneOf[j], 1, j)
  /\ SetProducer(j, "accepted")
  /\ early' = IF 1 \in closed[LaneOf[j]] THEN early ELSE early \cup {j}
  /\ UNCHANGED <<process, worker, outcomes>>
\* A handler has its own deadline, the scheduler uses workerCtx.
GiveUp(j) ==
  /\ Running /\ producer[j] = "send"
  /\ \/ j \notin Scheduled
     \/ canceled
     \/ 1 \in closed[LaneOf[j]]
  /\ SetProducer(j, "refused")
  /\ UNCHANGED <<process, buf, worker, outcomes, early>>
\* The job is marked failed, unless the store is closed already.
RecordRefusal(j) ==
  /\ Running /\ producer[j] = "refused"
  /\ SetProducer(j, IF storeOpen THEN "failed" ELSE "forgotten")
  /\ UNCHANGED <<process, buf, worker, outcomes, early>>

-----------------------------------------------------------------------------
(***************************************************************************)
(* Workers: receive from the pipeline of their stage, submit to the next.  *)
(***************************************************************************)
SetWorker(w, r) == worker' = [worker EXCEPT ![w] = r]
At(w, p) == Running /\ worker[w].pc = p
Buffer(w) == buf[LaneOf[w]][StageOf[w]]
Output(k, item) == IF k = 1 THEN {item} \X Tokens ELSE {item}

\* The outer and the inner select of Receive.
Receive(w) ==
  /\ At(w, "receive") \/ At(w, "drain")
  /\ Buffer(w) # <<>>
  /\ SetWorker(w, [pc |-> IF StageOf[w] = 3 THEN "hand" ELSE "check",
                   left |-> Output(StageOf[w], Head(Buffer(w))), tries |-> 0])
  /\ buf' = [buf EXCEPT ![LaneOf[w]][StageOf[w]] = Tail(@)]
  /\ UNCHANGED <<process, producer, outcomes, early>>
ReceiveDoneAtOnce(w) ==
  /\ At(w, "receive") /\ StageOf[w] \in closed[LaneOf[w]]
  /\ SetWorker(w, [worker[w] EXCEPT !.pc = "exited"])
  /\ UNCHANGED <<process, buf, producer, outcomes, early>>
ReceiveDone(w) ==
  /\ At(w, "receive") /\ StageOf[w] \in closed[LaneOf[w]]
  /\ SetWorker(w, [worker[w] EXCEPT !.pc = "drain"])
  /\ UNCHANGED <<process, buf, producer, outcomes, early>>
\* ErrClosed ends the worker's loop.
DrainEmptyContinues(w) ==
  /\ At(w, "drain") /\ Buffer(w) = <<>>
  /\ SetWorker(w, [worker[w] EXCEPT !.pc = "receive"])
  /\ UNCHANGED <<process, buf, producer, outcomes, early>>
DrainEmpty(w) ==
  /\ At(w, "drain") /\ Buffer(w) = <<>>
  /\ SetWorker(w, [worker[w] EXCEPT !.pc = "exited"])
  /\ UNCHANGED <<process, buf, producer, outcomes, early>>
ReceiveCanceled(w) ==
  /\ At(w, "receive") /\ canceled
  /\ SetWorker(w, [worker[w] EXCEPT !.pc = "exited"])
  /\ UNCHANGED <<process, buf, producer, outcomes, early>>

\* A master gives up the whole fan-out at the first error; a sender tries a
\* second time unless its context was canceled, then drops the outcome.
AfterError(w, byCancel) ==
  IF StageOf[w] = 2 /\ ~byCancel /\ worker[w].tries = 0
  THEN [pc |-> "check", left |-> worker[w].left, tries |-> 1]
  ELSE IdleWorker
NextClosed(w) == StageOf[w] + 1 \in closed[LaneOf[w]]
CheckNext(w) ==
  /\ At(w, "check")
  /\ SetWorker(w, IF NextClosed(w) THEN AfterError(w, FALSE)
                  ELSE [worker[w] EXCEPT !.pc = "send"])
  /\ UNCHANGED <<process, buf, producer, outcomes, early>>
SendNext(w) ==
  /\ At(w, "send") /\ HasRoom(LaneOf[w], StageOf[w] + 1)
  /\ \E i \in worker[w].left :
       /\ Put(LaneOf[w], StageOf[w] + 1, i)
       /\ SetWorker(w, IF worker[w].left = {i} THEN IdleWorker
                       ELSE [worker[w] EXCEPT !.pc = "check", !.left = @ \ {i}])
  /\ UNCHANGED <<process, producer, outcomes, early>>
SendGivesUp(w) ==
  /\ At(w, "send")
  /\ \/ canceled /\ SetWorker(w, AfterError(w, TRUE))
     \/ NextClosed(w) /\ SetWorker(w, AfterError(w, FALSE))
  /\ UNCHANGED <<process, buf, producer, outcomes, early>>

-----------------------------------------------------------------------------
(***************************************************************************)
(* The outcome worker.  Its receiving goroutine (stage 3) hands over to    *)
(* the loop that collects and flushes; the loop ends when that goroutine   *)
(* has ended or the context is canceled.                                   *)
(***************************************************************************)
Hand(w) ==
  LET l == LaneOf[w] IN
  /\ At(w, "hand") /\ batcher[l] = "select"
  /\ batch' = [batch EXCEPT ![l] = @ \cup worker[w].left]
  /\ batcher' = [batcher EXCEPT
       ![l] = IF Cardinality(batch'[l]) >= OutcomeBatchSize THEN "flush" ELSE "select"]
  /\ SetWorker(w, IdleWorker)
  /\ UNCHANGED <<process, buf, producer, written, dropped, faults, early>>
HandCanceled(w) ==
  /\ At(w, "hand") /\ canceled
  /\ SetWorker(w, [worker[w] EXCEPT !.pc = "exited"])
  /\ UNCHANGED <<process, buf, producer, outcomes, early>>

FlushTick(l) ==
  /\ Running /\ batcher[l] = "select" /\ batch[l] # {}
  /\ batcher' = [batcher EXCEPT ![l] = "flush"]
  /\ UNCHANGED <<process, buf, producer, worker, batch, written, dropped, faults, early>>
Write(l) == written' = written \cup batch[l] /\ batch' = [batch EXCEPT ![l] = {}]
WriteFails == faults < MaxFaults /\ faults' = faults + 1 /\ UNCHANGED <<written, batch>>
Flush(l) ==
  /\ Running /\ batcher[l] = "flush"
  /\ batcher' = [batcher EXCEPT ![l] = "select"]
  /\ (Write(l) /\ UNCHANGED faults) \/ WriteFails
  /\ UNCHANGED <<process, buf, producer, worker, dropped, early>>
ReceiverExited(l) ==
  \A w \in Workers : LaneOf[w] = l /\ StageOf[w] = 3 => worker[w].pc = "exited"
LastFlushSkipped(l) ==
  /\ Running /\ batcher[l] = "select"
  /\ ReceiverExited(l) \/ canceled
  /\ batcher' = [batcher EXCEPT ![l] = "exited"]
  /\ UNCHANGED <<process, buf, producer, worker, batch, written, dropped, faults, early>>
LastFlush(l) ==
  /\ Running /\ batcher[l] = "select"
  /\ ReceiverExited(l) \/ canceled
  /\ batcher' = [batcher EXCEPT ![l] = "exited"]
  /\ \/ Write(l) /\ UNCHANGED <<faults, dropped>>
     \/ WriteFails /\ dropped' = dropped \cup batch[l]
  /\ UNCHANGED <<process, buf, producer, worker, early>>

-----------------------------------------------------------------------------
(***************************************************************************)
(* main.                                                                   *)
(***************************************************************************)
GoMain(from, to) == main = from /\ main' = to

Signal ==
  /\ GoMain("running", "http")
  /\ UNCHANGED <<stopped, scheduler, canceled, storeOpen, graceful, drained, closed,
                 buf, producer, worker, outcomes, early>>
\* httpServer.Shutdown returns when no handler runs, or when its time is over.
HttpShutdown ==
  /\ GoMain("http", "stop")
  /\ (\A j \in Jobs \ Scheduled : producer[j] \notin Busy) \/ "http" \in TimeoutsOf
  /\ UNCHANGED <<stopped, scheduler, canceled, storeOpen, graceful, drained, closed,
                 buf, producer, worker, outcomes, early>>
\* scheduler.Stop() tells the goroutine to stop and does not wait for it.
StopScheduler ==
  /\ GoMain("stop", "drain")
  /\ stopped' = TRUE
  /\ UNCHANGED <<scheduler, canceled, storeOpen, graceful, drained, closed, buf,
                 producer, worker, outcomes, early>>

\* drainChain: close the pipeline of the next stage, then wait for its workers.
\* The wait group of stage 3 counts the batching loop.
Draining(l) == main \in {"drain", "stopping"} /\ drained[l] < 3
CloseStage(l) ==
  LET k == drained[l] + 1 IN
  /\ Draining(l) /\ k \notin closed[l]
  /\ closed' = [closed EXCEPT ![l] = @ \cup {k}]
  /\ UNCHANGED <<main, stopped, scheduler, canceled, storeOpen, graceful, drained, buf,
                 producer, worker, outcomes, early>>
StageExited(l, k) ==
  IF k = 3 THEN batcher[l] = "exited"
  ELSE \A w \in Workers : LaneOf[w] = l /\ StageOf[w] = k => worker[w].pc = "exited"
WaitStageNot(l) ==
  LET k == drained[l] + 1 IN
  /\ Draining(l) /\ k \in closed[l]
  /\ drained' = [drained EXCEPT ![l] = k]
  /\ UNCHANGED <<main, stopped, scheduler, canceled, storeOpen, graceful, closed, buf,
                 producer, worker, outcomes, early>>
WaitStage(l) ==
  LET k == drained[l] + 1 IN
  /\ Draining(l) /\ k \in closed[l] /\ StageExited(l, k)
  /\ drained' = [drained EXCEPT ![l] = k]
  /\ UNCHANGED <<main, stopped, scheduler, canceled, storeOpen, graceful, closed, buf,
                 producer, worker, outcomes, early>>

\* drainWg.Wait, then store.Close and close(gracefulDone).
CloseStore ==
  /\ Running /\ storeOpen /\ \A l \in Lanes : drained[l] = 3
  /\ storeOpen' = FALSE
  /\ UNCHANGED <<main, stopped, scheduler, canceled, graceful, drained, closed, buf,
                 producer, worker, outcomes, early>>
GracefulExit ==
  /\ GoMain("drain", "exited") /\ ~storeOpen
  /\ graceful' = TRUE
  /\ UNCHANGED <<stopped, scheduler, canceled, storeOpen, drained, closed, buf,
                 producer, worker, outcomes, early>>
\* The drain takes too long: workerStop() and return, without waiting again.
DrainTimeout ==
  /\ GoMain("drain", "stopping") /\ "drain" \in TimeoutsOf
  /\ canceled' = TRUE
  /\ UNCHANGED <<stopped, scheduler, storeOpen, graceful, drained, closed, buf,
                 producer, worker, outcomes, early>>
Exit ==
  /\ GoMain("stopping", "exited")
  /\ UNCHANGED <<stopped, scheduler, canceled, storeOpen, graceful, drained, closed,
                 buf, producer, worker, outcomes, early>>
Exited == main = "exited" /\ UNCHANGED vars

ProducerStep(j) ==
  SubmitClaimed(j) \/ CheckOpen(j) \/ Enqueue(j) \/ GiveUp(j) \/ RecordRefusal(j)
WorkerStep(w) ==
  \/ Receive(w) \/ ReceiveDone(w) \/ DrainEmpty(w) \/ ReceiveCanceled(w)
  \/ CheckNext(w) \/ SendNext(w) \/ SendGivesUp(w)
  \/ Hand(w) \/ HandCanceled(w)
BatcherStep(l) == FlushTick(l) \/ Flush(l) \/ LastFlush(l)
DrainStep(l) == CloseStage(l) \/ WaitStage(l)
MainStep == HttpShutdown \/ StopScheduler \/ CloseStore \/ GracefulExit \/ Exit

Next ==
  \/ \E j \in Jobs : Request(j) \/ ProducerStep(j)
  \/ Tick \/ SchedulerExit
  \/ \E w \in Workers : WorkerStep(w)
  \/ \E l \in Lanes : BatcherStep(l) \/ DrainStep(l)
  \/ Signal \/ MainStep \/ DrainTimeout
  \/ Exited

Spec == Init /\ [][Next]_vars

\* Goroutines are scheduled.  Requests, ticks, the signal and the timeout of
\* the drain need not come.
Fairness ==
  /\ \A j \in Jobs : WF_vars(ProducerStep(j))
  /\ \A w \in Workers : WF_vars(WorkerStep(w))
  /\ \A l \in Lanes : WF_vars(BatcherStep(l)) /\ WF_vars(LastFlush(l)) /\ WF_vars(DrainStep(l))
  /\ WF_vars(MainStep)
FairSpec == Spec /\ Fairness

-----------------------------------------------------------------------------
(***************************************************************************)
(* Properties.                                                             *)
(***************************************************************************)
WorkerState == [pc : {"receive", "drain", "check", "send", "hand", "exited"},
                left : SUBSET Task, tries : 0 .. 1]
TypeOK ==
  /\ main \in {"running", "http", "stop", "drain", "stopping", "exited"}
  /\ {stopped, canceled, storeOpen, graceful} \subseteq BOOLEAN
  /\ scheduler \in {"loop", "exited"}
  /\ drained \in [Lanes -> 0 .. 3] /\ closed \in [Lanes -> SUBSET Stages]
  /\ buf \in [Lanes -> [Stages -> Seq(Jobs \cup Task)]]
  /\ \A l \in Lanes : buf[l][1] \in Seq(Jobs) /\ {buf[l][2], buf[l][3]} \subseteq Seq(Task)
  /\ \A l \in Lanes, k \in Stages : Len(buf[l][k]) <= QueueSize
  /\ producer \in [Jobs -> Busy \cup {"none", "accepted", "failed", "forgotten"}]
  /\ worker \in [Workers -> WorkerState]
  /\ batch \in [Lanes -> SUBSET Task]
  /\ batcher \in [Lanes -> {"select", "flush", "exited"}]
  /\ written \subseteq Task /\ dropped \subseteq Task
  /\ early \subseteq Jobs /\ faults \in Nat

\* A graceful exit leaves nothing undone: each task of a job accepted before its
\* pipeline was closed went through three stages and was written, unless the
\* very last flush failed (shutdown.go:30-37, main.go:226-254).
GracefulDrain ==
  graceful => \A j \in early, t \in Tokens : <<j, t>> \in written \cup dropped

\* No worker submits into a closed pipeline (shutdown.go:27-29).
NoWorkerRefused ==
  \A w \in Workers : worker[w].pc \in {"check", "send"} => ~NextClosed(w)

\* The store is closed only after the workers of both chains have ended: whoever
\* writes outcomes still can (main.go:244-250, shutdown_test.go:128-130).
StoreClosedLast ==
  ~storeOpen =>
    /\ \A w \in Workers : worker[w].pc = "exited" \/ canceled
    /\ \A l \in Lanes : batcher[l] = "exited"

\* Once the signal has come the process ends, also when nothing times out: the
\* drain of the two chains cannot get stuck (main.go:206-260).
ShutdownCompletes == main = "http" ~> main = "exited"

\* Graceful shutdown does not drop queued work: at a graceful exit no pipeline
\* holds an item (memory.go:48-49).
QueuedWorkDrained ==
  graceful => \A l \in Lanes, k \in Stages : buf[l][k] = <<>>

-----------------------------------------------------------------------------
(***************************************************************************)
(* The inductive invariant behind GracefulDrain, NoWorkerRefused and       *)
(* StoreClosedLast.                                                        *)
(***************************************************************************)
\* The chains are closed in order, each stage after the one before has exited.
ChainInv ==
  \A l \in Lanes, k \in Stages :
    /\ k <= drained[l] => k \in closed[l] /\ StageExited(l, k)
    /\ k \in closed[l] => k <= drained[l] + 1

\* What main knows: nothing is canceled before the timeout, and a graceful exit
\* comes after the drain of every chain.
MainInv ==
  /\ main \in {"running", "http", "stop", "drain"} => ~canceled /\ ~graceful
  /\ main = "stopping" => ~graceful
  /\ graceful => ~storeOpen /\ ~canceled
  /\ ~storeOpen => \A l \in Lanes : drained[l] = 3

\* A worker has work in hand only between receiving and handing it on, and it
\* ends only when its pipeline is closed or everything is canceled.
WorkerInv ==
  \A w \in Workers :
    /\ worker[w].pc \in {"check", "send"} => StageOf[w] \in 1 .. 2
    /\ worker[w].pc = "hand" => StageOf[w] = 3
    /\ worker[w].pc \in {"receive", "drain"} => worker[w].left = {}
    /\ worker[w].pc = "drain" => StageOf[w] \in closed[LaneOf[w]]
    /\ worker[w].pc = "exited" /\ ~canceled =>
         worker[w].left = {} /\ StageOf[w] \in closed[LaneOf[w]]
BatcherInv ==
  \A l \in Lanes : batcher[l] = "exited" /\ ~canceled =>
    ReceiverExited(l) /\ batch[l] \subseteq written \cup dropped

\* Where a worker has ended, nothing that was accepted in time is left behind.
In(s, i) == \E n \in DOMAIN s : s[n] = i
QuietInv ==
  \A w \in Workers : worker[w].pc = "exited" /\ ~canceled =>
    \A i \in IF StageOf[w] = 1 THEN {j \in early : LaneOf[j] = LaneOf[w]} ELSE Task :
      ~In(Buffer(w), i)

\* Every task of a job accepted in time is in a pipeline, a worker's hand, a
\* batch, the database, or dropped.
Located(j, t) ==
  \/ In(buf[LaneOf[j]][1], j)
  \/ \E l \in Lanes : \/ \E k \in 2 .. 3 : In(buf[l][k], <<j, t>>)
                      \/ <<j, t>> \in batch[l]
  \/ \E w \in Workers : <<j, t>> \in worker[w].left
  \/ <<j, t>> \in written \cup dropped
LocatedInv ==
  /\ \A j \in early : producer[j] = "accepted"
  /\ ~canceled => \A j \in early, t \in Tokens : Located(j, t)

DrainInv == ChainInv /\ MainInv /\ WorkerInv /\ BatcherInv /\ QuietInv /\ LocatedInv
=============================================================================
