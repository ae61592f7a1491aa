# A TLA+ model of pushboy

pushboy is a push notification service: HTTP clients register devices and
publish notifications, workers fan each notification out to the devices and
hand it to APNs or FCM, and the results are counted in Postgres.  This
directory holds TLA+ modules that model it, TLC configurations that check them
on small instances, and proofs checked by TLAPS.  Paths below are relative to
the repository.

## Inventory

| part | state | operations | interacts with |
| --- | --- | --- | --- |
| push lane: `internal/workers`, `internal/storage/outcome.go` | local variables of masters and senders, the outcome batch | receive, fan-out by pages, send, collect, flush | pipelines, Postgres, provider clients |
| publish jobs in Postgres: `internal/storage/postgres.go` | `publish_jobs`, `delivery_receipts` | insert, claim scheduled, status update, finalize, apply outcomes, complete | handlers, scheduler, masters, outcome worker |
| publish endpoints: `internal/server/server.go`, `internal/service/service.go` | one goroutine per request | insert the job, submit with a deadline, mark FAILED | Postgres, job pipeline |
| scheduler: `internal/scheduler` | ticker, stop channel | claim and submit due jobs, invalidate expired update tokens | Postgres, job pipeline |
| in-memory pipeline: `internal/pipeline/memory.go` | buffered channel, done channel | Submit, Receive, Close | every worker |
| start-up and shutdown: `cmd/pushboy` | wait groups, two contexts | start pools, drain chains, time out | everything |
| live activity lane: `internal/service/live_activity.go`, `internal/storage/live_activity_postgres.go`, `internal/workers/fanout_la.go` | jobs, dispatches, start and update tokens | start, update, end, register tokens, fan out, supersede, count, complete | its own three pipelines, Postgres |
| provider clients: `internal/apns`, `internal/fcm` | semaphore, cached token, HTTP client | send with retries | senders |
| users, tokens, topics: `internal/service/service.go`, `internal/storage/postgres.go` | users, tokens, topics, subscriptions | register, subscribe, delete, cascade | fan-out queries |
| list endpoints: `internal/server/pagination.go` | none (cursors are in the requests) | keyset pages | Postgres |
| configuration, DTOs | none | parse, format | main, server |

What is hard about it is the concurrency: a job is in the hands of a handler or
the scheduler, then of a master; its tasks pass through two more queues and
three kinds of goroutines; two of these write to the row of the job, in either
order.  Any database call may fail, the process may be killed, and nothing that
is in memory is recovered.  The live activity lane adds supersession: a newer
update makes an older one pointless while it is queued.  Shutdown closes queues
under goroutines that still use them.

What makes each part correct:

* push lane: a task is neither lost nor counted twice; COMPLETED means every
  recipient was sent to and counted; a terminal status is final; every accepted
  job completes.
* publish endpoints and scheduler: a rejected job is never sent; a job is
  fanned out at most once.
* pipeline: an item is delivered at most once, in order, and a closed pipeline
  still delivers what it buffered.
* shutdown: workers stop upstream first and leave nothing behind.
* live activity lane: at most one ACTIVE job per scope, devices end with the
  newest content, an ended activity closes.
* provider clients: attempts are bounded, slots are returned.
* registry: one owner per token, every user has the broadcast subscription.

## Modules

| module | models | state and actions |
| --- | --- | --- |
| `PushDelivery` | the push lane from the request to the counters | below |
| `PushDeliveryInv` | the inductive invariant of its safety proofs | |
| `PublishJob` | what the push lane promises for one job, without queues and workers | Create, FallDue, Start, Send, Dispatch, Count, GiveUp, Delete |
| `MemoryPipeline` | `internal/pipeline/memory.go`: the channel, `done`, the two selects of Submit and Receive | below |
| `BoundedQueue` | what a pipeline promises: a bounded first-in first-out queue that can be shut | Put, Take, Shut |
| `Shutdown` | `cmd/pushboy`: the signal, the drain of the chains, the scheduler and handlers that are not waited for | below |
| `LADispatch` | the live activity lane for one scope: job and dispatch rows, from the request to the counters | below |
| `Registry` | users, device tokens, live activity tokens, topics, both kinds of subscriptions, the sweep of expired tokens | below |
| `ProviderClient` | `internal/apns` and `internal/fcm`: semaphore, retries, cached APNs token | below |
| `MCPushDelivery`, `MCMemoryPipeline`, `MCShutdown`, `MCLADispatch`, `MCRegistry` | instances for TLC (`ProviderClient` needs none) | |
| `PushDeliveryProofs`, `PushDeliverySafety`, `PushDeliveryAccounting` | theorems about `PushDelivery`: types and what is emitted; what is rejected; the counters and the end of a job | |
| `MemoryPipelineProofs` | theorems about `MemoryPipeline`, with `BoundedQueue` | |
| `ShutdownSafety` | theorems about `Shutdown` | |
| `LADispatchProofs` | theorems about `LADispatch` | |
| `RegistryProofs` | theorems about `Registry` | |
| `ProviderClientProofs` | theorems about `ProviderClient` | |

`PushDelivery`: `status`, `total`, `succ`, `fail`, `receipts` are the rows of
Postgres.  `caller[j]` is where the handler of job j stands, `claimed` the jobs
the scheduler's loop has yet to submit, `jobQ`, `taskQ`, `dlq` the buffers,
`master[m]` the local variables of `FanoutPushToken`, `sender[s]` the task in
hand, `held` the outcome between the two goroutines of the outcome worker,
`batch` and `phase` its `outcomeBatch` and whether `flush` is running.
`audience` is what the fan-out query would return now.  `sent` is history.
Each database call is one atomic step, as each is one statement or one
transaction; each channel operation is one step; local computation belongs to
the step before it.  The id of a receipt is made once per task, so a receipt is
represented by its task.  A database call named in `Faults` may fail:
`status`, `fetch`, `finalize`, `recheck`, `apply` without effect, `insert`,
`claim`, `finalizeCommit`, `commit` after it took effect.

`MemoryPipeline`: one step per select.  `pc[g]` says whether goroutine g is
before the first (`check`) or the second (`send`) select of Submit, or before
the outer (`receive`) or the inner (`drain`) select of Receive; a select whose
cases are ready takes any of them.  A capacity of 0 has no buffer, and
`HandOver` passes the item from a waiting sender to a receiver.  A goroutine
whose context ends is in `canceled`; its Receive may then end with ErrClosed at
any moment (`memory.go:44`), the same error as that of a pipeline that is closed
and drained, and `ClosedMeansDrained` speaks of the others.  `Retry` counts on a copy of the delivery,
so its limit never bites and it is a Submit of the item received (no code
outside the tests calls it).  `owed` and `late` are history.

`Shutdown`: a lane is a chain of three pipelines with their workers, stage 1
masters, 2 senders, 3 the receiving goroutine of the outcome worker, whose
second goroutine is `batcher[l]`.  The pipelines work as in `MemoryPipeline`
with buffers (queue size 0 is left to that module).  `main` follows `main.go`
from line 206; `drained[l]` is the position of `drainChain`.  The scheduler's
tick claims some due jobs and submits them one by one.  A master submits the
tasks of its job one by one and gives up at the first error; a sender submits
its outcome, and once more after an error other than cancellation.  What is
written to the rows is left out: a task is `written` when its outcome is, and
`dropped` when the last flush with it failed.  `early` are the jobs that entered
the job pipeline before it was closed.  Push and live activity chains have the
same generic code, so both are lanes.

`LADispatch`: one scope is the activities of one type shown to one user or to
the subscribers of one topic.  Request r carries the r-th value of `created_at`,
names its own dispatch row and, for a start, the job row; its steps may come in
any order with those of others.  `job`, `expired`, `row`, `valid`, `assoc` are the
tables: status of jobs, status and counters of dispatches, tokens that can be
sent to, associations of tokens with activities.  `req[r]` and `fan[d]` are the
local variables of the handler (`createLAStart`, `createLAUpdate`,
`createLAEnd`, then `enqueueImmediateLADispatch`) and of `FanoutLATokens`;
`send[d][t]` is what became of a task, `pending` the outcomes that are not yet
applied.  A start is two steps under the locks of its transaction, so that the
lock (`ScopeUnlocked`) has something to exclude.  Checking for a newer update,
reading whether the start is under way, and fetching a page are separate steps,
as they are separate statements.  Every call may fail without effect
(`Failing`), or take effect and report an error (`Unsure`).  Pipelines have no
capacity here: a submission may be refused at any time, and receiving is first
in, first out.  Several batches of outcomes may be applied in any order.

`Registry`: a request is a chain of statements, `req[r].pc` names the next one;
the tables are `users`, `topics`, `owner` (device tokens), `subs`, `laSubs`, `la`
(live activity tokens with owner, expiry and validity).  Deletions are one
statement with its cascades.  The sweep is one statement in the code and two
steps here, because an UPDATE that waits for a locked row updates it without
looking at the subquery again.  `upset` and `excused` are history: the requests
from which another one took back what they had been given (`Holders`: a request
is not upset by what happened before), and users that nobody owes a broadcast
subscription.

`ProviderClient`: `call[s]` is the Send of sender s: taking the JWT (APNs), a
slot, the request in flight, the backoff.  A request may be accepted although
its connection breaks before the answer (`lost`).  How long a backoff lasts is
left out.  APNs and FCM differ in the JWT and in the statuses that are retried,
so both are instances of one module.

How the modules relate: `PushDelivery` and `LADispatch` take the queues as
bounded queues, which `MemoryPipeline` justifies until the pipelines are closed;
`Shutdown` takes up where they are closed, for both lanes.  A forced exit is
`Crash` in `PushDelivery` and `LADispatch`.  `Registry` changes the tokens that
the lanes read: they see it as `ChangeAudience`, `RegisterLAToken` and
`InvalidateLAToken`.  What the lanes see of `ProviderClient` is the result of a
send: it returns (`SendReturns`) and reports acceptance truly as far as the
client can know (`ReportedAsAccepted`).

## Runs

| run | instance | question |
| --- | --- | --- |
| `PushFaults` | 2 jobs, 2 tokens, 2 masters, 2 senders, queues of 1, pages of 1, batch of 2, 2 failing calls | rejection under interleaving and failures without effect; the inductive invariant, with conservation and completion as parts; every step of the lane is for each job a step of `PublishJob` or none |
| `PushCrash` | 2 jobs, 1 crash, deletion of a topic, calls that take effect and report an error | conservation, completion and single emission when memory is lost |
| `PushRetry` | 2 jobs, 3 tokens of which 1 comes and goes, pages of 2; batches applied again after an ambiguous commit, batches refused by a foreign key | receipts agree with the failure counter; the paged fan-out misses no token that stays |
| `PushLive` | fair scheduling, 1 failing status update or outcome write | accepted jobs complete, completion is not missed |
| `Pipeline` | 2 submitters, 2 receivers, 2 items, sizes -1 (none) and 1, one of each kind may be canceled, 1 retry | the pipeline is a closable bounded queue, drains before it reports closed, releases who waits |
| `ShutdownDrain` | 1 lane: 2 masters, a sender, the outcome worker; 2 jobs, from a handler and the scheduler; queues of 1, batches of 2; both timeouts, 1 failing flush | a graceful exit has written what was accepted in time, nobody submits into a closed pipeline, the store is closed last, the process ends; the inductive invariant |
| `ShutdownQueued` | the same without timeouts and failures | violated: see Findings |
| `LALive` | a running activity and 2 requests that update, end or restart it or start another; 2 tokens (FCM and APNs update), 2 masters, pages of 1, 1 refused submission; fair | the newest update reaches every device, a start answers with its own activity, every dispatch settles and an end closes |
| `LAFaults` | the same requests, 1 token that comes and goes, 1 failing call of 17 kinds, 5 of them also ambiguous, 1 crash, 1 expiry | rejected requests reach nobody, counters agree with what was emitted, settled stays settled, started devices stay reachable |
| `LAAlreadyStarted` | 2 starts of one activity, 1 refused submission | violated: see Findings |
| `Registry` | 2 users, 1 device and 2 live activity tokens, 2 requests of 8 kinds, deletions, 1 failing call, sweeps of 1 batch of 1 token; fair | foreign keys, broadcast subscription, what was created holds, update tokens end |
| `Provider` | 2 senders with 2 messages each, 1 slot, 2 retries, a JWT valid for 2 ticks and renewed 1 before; fair | slots come back, attempts are bounded, one signature per period, reports agree with acceptance, every send returns |

Queues of one and pages smaller than the audience make every queue full and
every loop repeat; two jobs and two workers of a kind are the smallest
instance in which batches mix jobs and workers overtake each other.  In the live
activity runs two requests beside the activity that runs already let a newer
update overtake an older one at each of its steps; pages of one with two tokens
let it be superseded between pages.  In `Registry` two requests race for one
user, one device or one token, and a sweep of one batch of one stops at its limit
when two tokens have expired.  In `Provider` one slot makes senders wait, and three ticks let a JWT be
renewed while another sender carries the old one.  Bounds: `MaxFaults`,
`MaxCrashes`, `MaxRetries` of `MemoryPipeline`, `MaxSends` and `MaxTime` only limit
how much a behaviour has of something; `Registry` accepts no registration whose
lifetime would end after `MaxTime`, so that every expiry comes within the
clock.  Deadlock is not checked in the live activity and provider runs, since
nothing need arrive and all messages may be sent.  Two lanes in one run are more states than fit in a few
minutes; the lanes only meet where main waits for all of them, and the theorems
about `Shutdown` hold for any number.

Fairness: weak fairness of every goroutine's step, since Go schedules every
runnable goroutine, the tickers fire, and calls to Postgres and the providers
have timeouts.  In `Pipeline` a receiver calls Receive again after each
delivery, as every worker loop does.  In `ShutdownDrain` the batching loop also
ends when it can (`LastFlush`): once its channel is closed a select with the
ticker takes that case sooner or later.  In `Provider` taking a slot is strongly fair: goroutines that wait for
a channel get it in the order they came.  In `Registry` the ticker that starts a
sweep and the clock are fair.  Requests, ticks of the scheduler for publish jobs,
deletions, changes of the audience, cancellations, the signal and the timeouts
are not fair.

What the runs leave out on purpose, because the code then behaves otherwise:
with `commit` among the faults a batch of successes may be counted twice
(`postgres.go:885`, `outcome.go:106`); with `finalizeCommit` a COMPLETED row
may turn FAILED (`fanout.go:62`); with `insert` a scheduled job is sent although
its request was answered with an error; with `recheck` a counted job may stay
DISPATCHED; with deletions a refused outcome of a deleted job blocks the
outcome worker's batch for good.  A stage without workers (`WORKER_COUNT=0`,
which `config.go:77` accepts) is excluded by `ShutdownAssumption`, and a page of
size 0 (`BATCH_SIZE=0`, with which `postgres.go:267` panics) by
`PushDeliveryAssumption`.

In the live activity lane: with `apply` in `Unsure`, an ambiguous commit of a batch
of outcomes keeps the batch, which is then counted twice
(`live_activity_postgres.go:818`, `outcome.go:106`), so that a dispatch is COMPLETED
before every outcome is in; the configurations keep it out, `Accounted` and
`StartedStaysReachable` need that, and the action has the case; when the second statement of an empty
completion fails the job stays ACTIVE (`live_activity_postgres.go:841`), so
`DispatchSettles` is checked with refused submissions only; an update that is
fanned out between the insert of a job and of its start row finds no recipient
(`live_activity_postgres.go:622`), which `NewestUpdateReaches` excludes by
speaking of activities that were started before; an older update may overwrite
`latest_payload` (`live_activity_postgres.go:462`), which the module leaves out.
In the registry: a registration that loses the race for a new user is answered
409 "Token already registered" although its token is not (`server.go:246`); a
failed broadcast subscription is never made up for (`service.go:50`); a sweep
under way may invalidate a token that is registered anew
(`live_activity_postgres.go:964`).  In the clients: `Retry-After` is not capped
(`apns.go:324`); the comment of `fcm.go:227` expects the next attempt on another
transport, which the shared counter does not promise; a request given up after
ten seconds says "Client.Timeout exceeded", which the search for "timeout" does
not find, so it is not tried again.

## Findings

`ShutdownQueued` violates `QueuedWorkDrained`.  `memory.go:48` says that closed
pipelines still drain, so graceful shutdown does not drop queued work, and
`shutdown.go:27` that a pipeline is closed only after every producer feeding it
has exited.  The scheduler is a producer of the job pipeline that nobody waits
for: `Stop` closes a channel.  If its Submit has passed the first select when
the pipeline is closed, and the masters find the pipeline empty and end, the
second select may still put the job into the buffer.  The exit is graceful and
the job stays QUEUED in the database.  A handler does the same after the HTTP
shutdown has timed out.  `GracefulDrain` says what does hold: nothing that was
accepted before Close is lost, unless the last flush, which is not repeated
(`outcome.go:117`), fails.

`LAAlreadyStarted` violates `AlreadyStartedMeansStarted`.
`src/docs/openapi.yaml:561` describes the answer 200 to a start as "Existing
Live Activity was already started or closed."  `CreateOrGetLAStartJob` finds the
job of the activity whatever its status.  A start that the pipeline refused was
answered 503 and its job marked FAILED; the client repeats it and is told
`already_started`, although nothing was sent and no start of that activity will
ever be.

## Proofs

All theorems hold for every value of the constants that the modules'
assumptions allow.

*PushDelivery.*  `TypeCorrect` (`Spec => []TypeOK`) needs only
`PushDeliveryAssumption`; `TypeOK` is inductive as it stands, and includes the
capacities and that a busy master holds a job.  `RejectedStaysUnsent` rests on
`Placement`: a job is in at most one place, with its handler, with the
scheduler, in the queue once, or with one master, and nothing is sent before
the last.  `RejectedNeverSent` alone is not inductive: a job that is FAILED with
its handler must also be in no queue.  The theorem assumes that an INSERT
reported as failed has had no effect (`"insert" \notin Faults`); without it the
code does send such a job.  `EmittedOnce` rests on `Placement` and `Paging`: one
master works on the job, the tokens sent are not above its cursor, and those of
its page are above all that were sent.

The other theorems follow the outcomes.  `OnePlace`: a task is in at most one of
the task queue, the senders' hands, the outcome queue, `held` and the batch, and
was emitted; so a batch never holds a task twice, each outcome applied is a new
receipt, and `FailuresReceipted` (`fail` is the number of receipts) holds, even when
a batch is applied again.  `Conserved` is `TasksConserved` also for jobs that do
not exist: counted and outstanding tasks are those emitted, or with crashes not
more than those.  It is disturbed by the one step that counts twice, a commit
that takes effect and reports an error, hence `"commit" \notin Faults` in
`TasksAccounted`.  `Dispatched`: a job that is DISPATCHED or COMPLETED has left the
queues and its total is what was emitted.  With `Counted` and `Conserved` this
gives `CompletedAccounted`.  `Finished` says that nobody who would write its
status still holds a job that has ended; `TerminalStaysFinal` follows, unless
`FinalizeJobDispatch` may commit and report an error, after which the master marks
the job FAILED.  `CompletionSeen` says that while no process has crashed a counted
job is COMPLETED or somebody who will look is on the way, if the re-check does
not fail (with a crash, or with a failed re-check, the code leaves it DISPATCHED
until the next outcome, which never comes).  `Reaching`: up to the cursor the
tokens that stay registered are sent or on the page, and `more` is false only on
the last page; so `StableReached`, whatever comes and goes in between.
`InductiveInvariant` is all of it together, as `PushFaults` checks it.

`LifeImplemented` (`Spec => JobLife`) is the refinement of `PublishJob`.  The
mapping is one instance per job, `Life(j)`, over its row and the tokens it was
sent to; everything else of the lane is hidden.  A step of the lane may move several
jobs (a tick of the scheduler, a batch of outcomes), so `JobLife` asks of every
step that it is for each job a step of its life or leaves it alone.  The proof
goes by what changed: the status (`LifeStatus`, one step per action of `StatusSteps`), or else
the tokens or the counters (`LifeRest`).  It uses `Finished` and `Placement` for the
status that an unconditional UPDATE finds, `Paging` for tokens that are new and
the total, and `Bounded`, a consequence of `Conserved`, for the counters.
The instance of `PushFaults` has no deletion and no crash, the theorem has both.
`TerminalStatusFinal`, which the theorem `TerminalStaysFinal` states, follows from
`JobLife` and is not checked by a run of its own.

*MemoryPipeline.*  `DrainsBeforeClosed`, `RefusesLateSubmits` and
`QueueImplemented` (the refinement: initial states and steps of the pipeline
are initial states, steps or stutters of `BoundedQueue`).  The invariant behind
them says that no more items are owed than the buffer holds, so that a receiver
that finds the buffer empty owes none, and that a goroutine is in the inner
select, or has seen ErrClosed without being canceled, only after Close.

*Shutdown.*  `DrainInv` is inductive together with `TypeOK`.  `ChainInv`: stages
are closed in order and a stage that is drained has exited; with `WorkerInv` it
gives `WorkersNotRefused`.  `QuietInv`: where a worker has ended its pipeline
holds nothing that was accepted in time, since its producers have ended and it
saw the buffer empty.  `LocatedInv`: each task of a job accepted in time is in a
buffer, a hand, a batch, or written or dropped; no step loses it, as the steps
that throw work away follow a refusal, which `ChainInv` excludes, or a
cancellation.  `BatcherInv`: an outcome loop that has ended flushed its batch.
`StoreOutlivesWorkers` and `NothingLeftBehind` follow at the end of the drain.
The typing of a send needs `WorkerInv` as well, which is why `TypeCorrect` comes
last.  `DrainInOrder` states `DrainInv` itself.

*LADispatch.*  The assumption names the constants and that there is an activity.
`Invariant` proves the conjunction of these parts, for any number of crashes, of
failing calls and of calls that take effect and report an error; only what
`Tally` says of the counters is conditional on `"apply" \notin Unsure`, and with it
`OutcomesAccounted` and `StartedReachable` assume it:

* `Handlers`: only a start has a job row; a start that is about to insert holds
  the lock of the scope and knows every active job, and no other start is there;
  the job a request works on was asked for before.  `AnswersOwnJob` follows.
* `Placed`: the request of a dispatch, its place in the queue, the state of its
  fan-out and its row's status go together; `QueuedOnce`.  A refused request is
  in no queue and has no fan-out (`RejectedStaysUnsent`).  `SettledForGood` needs
  that a dispatch whose row is settled is at no step that would write its status.
* `Tally`: unless a commit of outcomes may take effect and report an error, what is
  counted and what is still out is at most what was emitted, and equal without a
  crash.  An outcome of a start is counted in the transaction that
  associates its device; to say so the sum also includes `Missed`, the devices
  that took a start and are not associated.
  `Totals` ties the row's total and status to it.  `OutcomesAccounted`
  and `StartedReachable` follow: when all of a start is counted none is missed.
* `Replaced`: a superseded update has a newer one of its job that reached the
  pipeline.  `Swept` and `Kept`: up to the cursor every token that stays has the
  update or was found invalid, and tokens and associations of activities
  started before stay.  `NewestReaches` follows.

*Registry.*  `TypeOK` holds the foreign keys: owners and subscribers are users,
subscriptions are to topics; every cascade keeps them.  `OpAt` says which
statement a request of each kind can be at, `Relies` what a request that no other
has upset was given so far: the user exists when the broadcast subscription is
inserted, the topic subscription when the token is, and the row of a token that was
reported as created has the expiry it was given.  `Sweeping` bounds the batch.
Subtle is the sweep that selected a row before it was registered anew:
such a registration is `upset`, and of those that are not only one past its expiry
is selected.  `CreatedStays` and `UsersWelcomed` follow.

*ProviderClient.*  `TypeOK` says that the slots taken are as many as the requests
in flight.  `Signing`: the cached JWT is the last one signed, so the next is signed a
period later however many senders found it stale (`SignedRarely`).  `CallOK`: the
JWT of a message was fresh when the message was taken up (`JWTLasts`; whether it
lasts through the retries is not claimed), and before
the call is over the provider has accepted only what the client could not see
(`ReportsTruthful`).

Every safety property of a passing run is a theorem, some under an
assumption on `Faults` or `Unsure` that the instances of their runs meet as well, and
`CompletionNotMissed` for behaviours without crash, as in its run.  Only
model-checked are the liveness properties (`AcceptedJobCompletes`,
`CloseReleases`, `AcceptedReachesReceiver`, `ShutdownCompletes`,
`DispatchSettles`, `UpdateTokensEnd`, `SendReturns`): TLAPS has no ENABLED, and
liveness under fairness is out of its reach.  The two properties that are
violated (`QueuedWorkDrained`, `AlreadyStartedMeansStarted`) are refuted by
TLC's traces.  No recursive definition is used.

## Not modelled

* Handlers that only read (lists, counts, status) and their cursors: one
  statement each, no state.  Keyset paging across concurrent writes is modelled
  in the two fan-outs.
* Payloads, options and the messages built from them
  (`apns_la.go:43-198`, `fcm_la.go`): pure functions of a request.  The order in
  which a device shows updates is decided by the providers from them.
* Request validation, responses, configuration and DTOs.
* The deletion of a user or topic while its live activities run: the cascade
  removes their jobs and dispatches, after which every statement of the lane
  finds no row.  The push lane has the corresponding action (`DeleteTarget`).
* The FCM access token, which the oauth2 library keeps.

## Plan

The modules planned for the system are written and their safety properties
proved.  What is left, in this order:

1. The abstract life of a live activity dispatch (queued, fanned out, counted,
   superseded, failed), implemented by `LADispatch` as `PushDelivery` implements
   `PublishJob`; `Invariant` has what its steps need.
2. `PublishJob` as far as it holds when statements reported as failed did
   happen: the step from COMPLETED to FAILED and counters that pass what was
   sent, named as such.
