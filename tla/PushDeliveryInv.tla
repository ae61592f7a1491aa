-------------------------- MODULE PushDeliveryInv --------------------------
(***************************************************************************)
(* The inductive invariant behind the safety properties of PushDelivery:   *)
(* where a job can be, what a master knows about its job, what the row of  *)
(* a dispatched job says, and where its tasks are.                         *)
(***************************************************************************)
EXTENDS PushDelivery

\* A job waits for a master, or master m works on it, or no one has seen it yet.
Queued(j) == \E i \in DOMAIN jobQ : jobQ[i] = j
Working(m, j) == master[m].pc # "receive" /\ master[m].job = j
Fresh(j) == (\A m \in Masters : ~Working(m, j)) /\ sent[j] = {}
Untouched(j) == j \notin claimed /\ ~Queued(j) /\ Fresh(j)

\* Where a handler is when its job was never submitted.  A request answered with
\* an error counts, unless the error may hide a row that was inserted.
Unaccepted ==
  {"submit", "markFailed"} \cup IF "insert" \in Faults THEN {} ELSE {"rejected"}

\* Every job is in at most one place: with its handler, with the scheduler, in
\* the queue once, or with one master; and nothing is sent before the last.
Placement ==
  /\ \A j \in Jobs : status[j] \in {"NONE", "SCHEDULED"} => Untouched(j)
  /\ \A j \in Jobs : caller[j] \in Unaccepted =>
                       Untouched(j) /\ status[j] \in {"QUEUED", "FAILED", "DELETED"}
  /\ \A j \in claimed : ~Queued(j) /\ Fresh(j)
  /\ \A j \in Jobs : Queued(j) => Fresh(j)
  /\ \A i, k \in DOMAIN jobQ : jobQ[i] = jobQ[k] => i = k
  /\ \A m, n \in Masters : \A j \in Jobs : Working(m, j) /\ Working(n, j) => m = n

\* What a master's local variables say about the tokens sent for its job: the
\* pages move upwards, and count is the number of tokens fetched so far.
PagingOf(r, S) ==
  /\ r.pc \in {"receive", "start", "fetch", "finalize"} => r.page = {}
  /\ r.pc \in {"receive", "start"} => r.count = 0
  /\ r.pc = "start" => S = {}
  /\ r.pc \in {"fetch", "emit"} =>
       /\ \A t \in S \cup r.page : t <= r.cursor
       /\ \A t \in S, u \in r.page : t < u
  /\ r.pc \in {"fetch", "emit", "finalize"} =>
       r.count = Cardinality(S) + Cardinality(r.page)
Paging ==
  \A m \in Masters :
    /\ master[m].pc = "receive" => PagingOf(master[m], {})
    /\ master[m].pc # "receive" => PagingOf(master[m], sent[master[m].job])

\* A dispatched job has left the queues and the fan-out loop, and its total is
\* the number of tokens sent.
Dispatched ==
  \A j \in Jobs : status[j] \in {"DISPATCHED", "COMPLETED"} =>
    /\ total[j] = Cardinality(sent[j])
    /\ j \notin claimed /\ ~Queued(j)
    /\ \A m \in Masters : Working(m, j) => master[m].pc \in {"recheck", "fail"}

\* TasksConserved, also for the jobs that do not exist yet.
Conserved ==
  \A j \in Jobs : status[j] # "DELETED" =>
    /\ crashes = 0 => succ[j] + fail[j] + Outstanding(j) = Cardinality(sent[j])
    /\ succ[j] + fail[j] + Outstanding(j) <= Cardinality(sent[j])

\* A completed job has been counted.
Counted == \A j \in Jobs : status[j] = "COMPLETED" => succ[j] + fail[j] >= total[j]

\* What the fan-out leaves behind it: no token that was registered all along,
\* unless the job is deleted meanwhile and the pages come back empty.
Stable == Tokens \ Volatile
ReachingOf(r, S) ==
  /\ r.pc \in {"fetch", "emit"} => \A t \in Stable : t <= r.cursor => t \in S \cup r.page
  /\ r.pc = "emit" /\ ~r.more => Stable \subseteq S \cup r.page
  /\ r.pc = "finalize" => Stable \subseteq S
Reaching ==
  /\ Stable \subseteq audience
  /\ \A m \in Masters :
       /\ master[m].pc \in {"receive", "start"} => master[m].cursor = 0
       /\ master[m].pc # "receive" /\ status[master[m].job] # "DELETED" =>
            ReachingOf(master[m], sent[master[m].job])

\* No task is in two places, and all were emitted.
At(q, x) == \E i \in DOMAIN q : q[i].job = x.job /\ q[i].token = x.token
InHand(x) == \E s \in Senders : sender[s] = x
NoneTwice(q) ==
  \A i, k \in DOMAIN q : q[i].job = q[k].job /\ q[i].token = q[k].token => i = k
OnePlace ==
  /\ NoneTwice(taskQ) /\ NoneTwice(dlq) /\ NoneTwice(batch)
  /\ \A s, z \in Senders : sender[s] = sender[z] => s = z \/ sender[s] = Nothing
  /\ \A x \in Task :
       /\ At(taskQ, x) => ~(InHand(x) \/ At(dlq, x) \/ At(held, x) \/ At(batch, x))
       /\ InHand(x) => ~(At(dlq, x) \/ At(held, x) \/ At(batch, x))
       /\ At(dlq, x) => ~(At(held, x) \/ At(batch, x))
       /\ At(held, x) => ~At(batch, x)
       /\ At(taskQ, x) \/ InHand(x) \/ At(dlq, x) \/ At(held, x) \/ At(batch, x) =>
            x.token \in sent[x.job]

\* Who may still write the status of a job that has ended.
Finished ==
  \A j \in Jobs :
    /\ status[j] = "FAILED" =>
         /\ j \notin claimed /\ ~Queued(j) /\ caller[j] \notin {"submit", "markFailed"}
         /\ \A m \in Masters : ~Working(m, j)
    /\ status[j] \in {"DISPATCHED", "COMPLETED"} =>
         \A m \in Masters : Working(m, j) => master[m].pc = "recheck"

IInv ==
  /\ Placement /\ Paging /\ Dispatched /\ Conserved /\ Counted
  /\ Reaching /\ StableTokensReached /\ OnePlace /\ FailuresHaveReceipts /\ Finished
=============================================================================
