--------------------------- MODULE MemoryPipeline ---------------------------
(***************************************************************************)
(* The in-memory pipeline: a buffered Go channel, and a second channel     *)
(* done that Close closes.  Submit first looks whether done is closed and  *)
(* then waits for room, for the end of its context or for done, whichever  *)
(* a select takes; Receive likewise.  Any goroutine may call any           *)
(* operation, one at a time, and its context may end at any moment.        *)
(***************************************************************************)
EXTENDS Integers, Sequences, FiniteSets

CONSTANTS
  Procs,       \* the goroutines that use the pipeline
  Receivers,   \* those among them that receive; they stop at an error
  Items,       \* what is submitted, each item once except for retries
  BufferSizes, \* arguments of NewMemoryPipeline, of any sign
  Cancelable,  \* the goroutines whose context may end
  MaxRetries,  \* bound: how often deliveries are retried
  Nothing      \* no item

ASSUME MemoryPipelineAssumption ==
  /\ Receivers \subseteq Procs /\ Cancelable \subseteq Procs
  /\ BufferSizes \subseteq Int /\ MaxRetries \in Nat /\ Nothing \notin Items

VARIABLES
  capacity,   \* the capacity of the channel, fixed when it is made
  channel,    \* the buffer of the channel
  done,       \* whether done is closed
  canceled,   \* goroutines whose context has ended
  pc,         \* where each goroutine is in Submit or Receive
  item,       \* what it submits or was delivered last
  result,     \* what its last call returned
  used,       \* history: the items submitted so far
  retries,    \* history: how often Retry was called
  owed,       \* history: items buffered when Close was called, still there
  late        \* history: goroutines whose Submit began after Close

callState == <<pc, item, result>>
history == <<used, retries, owed, late>>
vars == <<capacity, channel, done, canceled, callState, history>>

\* NewMemoryPipeline turns a negative size into 0, a channel without a buffer.
NormalizedSizeAsIs(n) == n
NormalizedSize(n) == IF n < 0 THEN 0 ELSE n

PCs == {"idle", "check", "send", "receive", "drain", "stopped"}
Results == {"none", "nil", "canceled", "refused", "delivered", "closed"}

Init ==
  /\ capacity \in {NormalizedSize(n) : n \in BufferSizes}
  /\ channel = <<>> /\ done = FALSE /\ canceled = {}
  /\ pc = [g \in Procs |-> "idle"]
  /\ item = [g \in Procs |-> Nothing]
  /\ result = [g \in Procs |-> "none"]
  /\ used = {} /\ retries = 0 /\ owed = 0 /\ late = {}

-----------------------------------------------------------------------------
(***************************************************************************)
(* Submit.                                                                 *)
(***************************************************************************)
Goto(g, p) == pc' = [pc EXCEPT ![g] = p]
Return(g, p, r) == Goto(g, p) /\ result' = [result EXCEPT ![g] = r]
Began(g) == late' = IF done THEN late \cup {g} ELSE late \ {g}

StartSubmit(g, i) ==
  /\ pc[g] = "idle" /\ g \notin Receivers /\ i \notin used
  /\ used' = used \cup {i}
  /\ item' = [item EXCEPT ![g] = i]
  /\ Return(g, "check", "none")
  /\ Began(g)
  /\ UNCHANGED <<capacity, channel, done, canceled, retries, owed>>

\* Retry counts on a copy of the delivery, so that its limit never bites.
Retry(g) ==
  /\ pc[g] = "idle" /\ result[g] = "delivered" /\ retries < MaxRetries
  /\ retries' = retries + 1
  /\ Return(g, "check", "none")
  /\ Began(g)
  /\ UNCHANGED <<capacity, channel, done, canceled, item, used, owed>>

\* The first select of Submit.
CheckDoneNever(g) ==
  /\ pc[g] = "check"
  /\ Return(g, "send", "none")
  /\ UNCHANGED <<capacity, channel, done, canceled, item, history>>
CheckDone(g) ==
  /\ pc[g] = "check"
  /\ IF done THEN Return(g, "idle", "refused") ELSE Return(g, "send", "none")
  /\ UNCHANGED <<capacity, channel, done, canceled, item, history>>

\* The second select: room in the buffer, the context, or done.
SendBuffered(g) ==
  /\ pc[g] = "send" /\ Len(channel) < capacity
  /\ channel' = Append(channel, item[g])
  /\ Return(g, "idle", "nil")
  /\ UNCHANGED <<capacity, done, canceled, item, used, retries, owed, late>>
SendGivesUpOnCancel(g) ==
  /\ pc[g] = "send" /\ g \in canceled
  /\ Return(g, "idle", "canceled")
  /\ UNCHANGED <<capacity, channel, done, canceled, item, history>>
SendGivesUp(g) ==
  /\ pc[g] = "send"
  /\ \/ g \in canceled /\ Return(g, "idle", "canceled")
     \/ done /\ Return(g, "idle", "refused")
  /\ UNCHANGED <<capacity, channel, done, canceled, item, history>>

-----------------------------------------------------------------------------
(***************************************************************************)
(* Receive.                                                                *)
(***************************************************************************)
StartReceive(g) ==
  /\ pc[g] = "idle" /\ g \in Receivers
  /\ Return(g, "receive", "none")
  /\ UNCHANGED <<capacity, channel, done, canceled, item, history>>

\* Outer or inner select: an item from the buffer.
ReceiveBuffered(g) ==
  /\ pc[g] \in {"receive", "drain"} /\ channel # <<>>
  /\ item' = [item EXCEPT ![g] = Head(channel)]
  /\ channel' = Tail(channel)
  /\ owed' = IF owed > 0 THEN owed - 1 ELSE 0
  /\ Return(g, "idle", "delivered")
  /\ UNCHANGED <<capacity, done, canceled, used, retries, late>>

\* Without a buffer the item passes from a waiting sender to the receiver.
HandOver(s, g) ==
  /\ capacity = 0 /\ pc[s] = "send" /\ pc[g] \in {"receive", "drain"}
  /\ item' = [item EXCEPT ![g] = item[s]]
  /\ pc' = [pc EXCEPT ![s] = "idle", ![g] = "idle"]
  /\ result' = [result EXCEPT ![s] = "nil", ![g] = "delivered"]
  /\ UNCHANGED <<capacity, channel, done, canceled, used, retries, owed, late>>

\* The end of its context is reported to a receiver as the end of the pipeline.
ReceiveCanceled(g) ==
  /\ pc[g] = "receive" /\ g \in canceled
  /\ Return(g, "stopped", "closed")
  /\ UNCHANGED <<capacity, channel, done, canceled, item, history>>

\* The outer select takes done: what is buffered is still delivered, and only
\* when nothing is there the receiver learns that the pipeline is closed.
ReceiveDoneAtOnce(g) ==
  /\ pc[g] = "receive" /\ done
  /\ Return(g, "stopped", "closed")
  /\ UNCHANGED <<capacity, channel, done, canceled, item, history>>
ReceiveDone(g) ==
  /\ pc[g] = "receive" /\ done
  /\ Goto(g, "drain")
  /\ UNCHANGED <<capacity, channel, done, canceled, item, result, history>>
DrainEmpty(g) ==
  /\ pc[g] = "drain" /\ channel = <<>>
  /\ Return(g, "stopped", "closed")
  /\ UNCHANGED <<capacity, channel, done, canceled, item, history>>

-----------------------------------------------------------------------------
\* Closing twice is allowed; the second call changes nothing.
Close ==
  /\ done' = TRUE
  /\ owed' = IF done THEN owed ELSE Len(channel)
  /\ UNCHANGED <<capacity, channel, canceled, callState, used, retries, late>>

Cancel(g) ==
  /\ g \in Cancelable \ canceled
  /\ canceled' = canceled \cup {g}
  /\ UNCHANGED <<capacity, channel, done, callState, history>>

SubmitStep(g) == CheckDone(g) \/ SendBuffered(g) \/ SendGivesUp(g)
ReceiveStep(g) ==
  \/ ReceiveBuffered(g) \/ (\E s \in Procs : HandOver(s, g))
  \/ ReceiveCanceled(g) \/ ReceiveDone(g) \/ DrainEmpty(g)

Next ==
  \/ \E g \in Procs :
       \/ \E i \in Items : StartSubmit(g, i)
       \/ Retry(g) \/ StartReceive(g)
       \/ SubmitStep(g) \/ ReceiveStep(g)
       \/ Cancel(g)
  \/ Close

Spec == Init /\ [][Next]_vars

\* A call that can go on does; receivers call Receive again and again.  New
\* items, retries, cancellations and Close need not come.
Fairness ==
  \A g \in Procs :
    WF_vars(SubmitStep(g)) /\ WF_vars(ReceiveStep(g)) /\ WF_vars(StartReceive(g))
FairSpec == Spec /\ Fairness

-----------------------------------------------------------------------------
(***************************************************************************)
(* Properties.                                                             *)
(***************************************************************************)
TypeOK ==
  /\ capacity \in Nat
  /\ channel \in Seq(Items) /\ Len(channel) <= capacity
  /\ done \in BOOLEAN /\ canceled \subseteq Procs /\ late \subseteq Procs
  /\ pc \in [Procs -> PCs]
  /\ item \in [Procs -> Items \cup {Nothing}]
  /\ \A g \in Procs : pc[g] \in {"check", "send"} => item[g] \in Items
  /\ \A g \in Procs : result[g] = "delivered" => item[g] \in Items
  /\ result \in [Procs -> Results]
  /\ used \subseteq Items /\ retries \in Nat
  /\ owed \in Nat

\* A receiver whose context goes on gets ErrClosed only after everything that was
\* buffered when Close was called has been delivered (memory.go:47-55).  One
\* whose context has ended gets the same error at any moment (memory.go:44-46).
ClosedMeansDrained ==
  \A g \in Procs : result[g] = "closed" => g \in canceled \/ (done /\ owed = 0)

\* A Submit that begins after Close has no effect: it may only be refused
\* (memory.go:27-31; with a free buffer the second select alone could accept).
LateSubmitRefused ==
  \A g \in Procs : g \in late => pc[g] # "send" /\ result[g] # "nil"

\* The pipeline is a closable bounded queue.  It counts as shut when done is
\* closed and no submitter is left between its two selects.
Queue == INSTANCE BoundedQueue
  WITH queue <- channel,
       shut <- done /\ \A g \in Procs : pc[g] # "send"
ImplementsQueue == Queue!Spec

\* Close releases everyone who waits in the pipeline (memory.go:38, 47).
CloseReleases ==
  \A g \in Procs : done /\ pc[g] \in {"send", "receive"} ~> pc[g] \in {"idle", "stopped"}

\* What was accepted before Close reaches a receiver, as long as one of them
\* is not canceled.
AcceptedReachesReceiver ==
  done ~> owed = 0 \/ Receivers \subseteq canceled
=============================================================================
