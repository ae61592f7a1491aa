------------------------------ MODULE PublishJob ------------------------------
(***************************************************************************)
(* What the push lane promises for one publish job, whatever its queues,   *)
(* workers and batches do: the life of the row that a client reads at      *)
(* /notifications/{jobID}, and of the notifications that leave for it.     *)
(*                                                                         *)
(* A job is sent only between its queueing and its dispatch, each token at *)
(* most once; when it is dispatched its total is what was sent; its        *)
(* counters grow until it is deleted and never pass what was sent; it is   *)
(* complete only when they reach the total; and an end is an end.          *)
(***************************************************************************)
EXTENDS Naturals, FiniteSets

CONSTANT Tokens

VARIABLES status, total, succ, fail, \* the row
          sent                       \* the tokens it was sent to

vars == <<status, total, succ, fail, sent>>

Init ==
  /\ status = "NONE"
  /\ total = 0 /\ succ = 0 /\ fail = 0
  /\ sent = {}

\* Queued or being fanned out: the job may be sent, dispatched, or given up.
Underway == status \in {"QUEUED", "IN_PROGRESS"}

Become(st) == status' = st /\ UNCHANGED <<total, succ, fail, sent>>

Create == status = "NONE" /\ \E st \in {"QUEUED", "SCHEDULED"} : Become(st)
FallDue == status = "SCHEDULED" /\ Become("QUEUED")
Start == status = "QUEUED" /\ Become("IN_PROGRESS")
GiveUp == Underway /\ Become("FAILED")

\* What is on its way when the job is deleted is still sent.
Send ==
  /\ Underway \/ status = "DELETED"
  /\ \E t \in Tokens \ sent : sent' = sent \cup {t}
  /\ UNCHANGED <<status, total, succ, fail>>

Dispatch ==
  /\ Underway
  /\ total' = Cardinality(sent)
  /\ status' = IF sent = {} THEN "COMPLETED" ELSE "DISPATCHED"
  /\ UNCHANGED <<succ, fail, sent>>

\* Outcomes arrive, in any number and possibly before the dispatch; or none
\* does, and it is noticed that the last one has.
Count ==
  /\ status \in {"QUEUED", "IN_PROGRESS", "DISPATCHED", "FAILED"}
  /\ succ' \in succ..Cardinality(sent) /\ fail' \in fail..Cardinality(sent)
  /\ succ' + fail' <= Cardinality(sent)
  /\ status' = IF status = "DISPATCHED" /\ succ' + fail' >= total
               THEN "COMPLETED" ELSE status
  /\ UNCHANGED <<total, sent>>

Delete ==
  /\ status \notin {"NONE", "DELETED"}
  /\ status' = "DELETED"
  /\ total' = 0 /\ succ' = 0 /\ fail' = 0
  /\ UNCHANGED sent

Next ==
  \/ Create \/ FallDue \/ Start \/ GiveUp
  \/ Send \/ Dispatch \/ Count \/ Delete

Spec == Init /\ [][Next]_vars
=============================================================================
