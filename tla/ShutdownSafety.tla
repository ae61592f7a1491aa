--------------------------- MODULE ShutdownSafety ---------------------------
(***************************************************************************)
(* Proofs about Shutdown, for any number of lanes, workers, jobs and       *)
(* tokens, any capacity, and whichever phase times out: DrainInv is        *)
(* inductive, and with it no worker is refused, the store is closed last   *)
(* and a graceful exit loses nothing.                                      *)
(***************************************************************************)
EXTENDS Shutdown, TLAPS

-----------------------------------------------------------------------------
(***************************************************************************)
(* Buffers: what is in a sequence after an item is put in or taken out.    *)
(***************************************************************************)
LEMMA InAppend ==
  ASSUME NEW S, NEW s \in Seq(S), NEW x \in S
  PROVE  \A i : In(Append(s, x), i) <=> In(s, i) \/ i = x
<1>1. /\ DOMAIN Append(s, x) = 1 .. Len(s) + 1 /\ DOMAIN s = 1 .. Len(s) /\ Len(s) \in Nat
      /\ Append(s, x)[Len(s) + 1] = x
      /\ \A n \in 1 .. Len(s) : Append(s, x)[n] = s[n]
  OBVIOUS
<1> QED
  BY <1>1 DEF In

LEMMA InTail ==
  ASSUME NEW S, NEW s \in Seq(S), s # <<>>
  PROVE  \A i : In(s, i) <=> In(Tail(s), i) \/ i = Head(s)
<1>1. /\ DOMAIN Tail(s) = 1 .. Len(s) - 1 /\ DOMAIN s = 1 .. Len(s) /\ Len(s) \in Nat \ {0}
      /\ Head(s) = s[1]
      /\ \A n \in 1 .. Len(s) - 1 : Tail(s)[n] = s[n + 1]
  OBVIOUS
<1>2. ASSUME NEW i, In(s, i), i # Head(s) PROVE In(Tail(s), i)
  <2>1. PICK n \in 1 .. Len(s) : s[n] = i
    BY <1>1, <1>2 DEF In
  <2>2. n - 1 \in 1 .. Len(s) - 1 /\ Tail(s)[n - 1] = s[n]
    BY <1>1, <1>2, <2>1
  <2> QED
    BY <1>1, <2>1, <2>2 DEF In
<1>3. ASSUME NEW i, In(Tail(s), i) PROVE In(s, i)
  <2>1. PICK n \in 1 .. Len(s) - 1 : Tail(s)[n] = i
    BY <1>1, <1>3 DEF In
  <2>2. n + 1 \in 1 .. Len(s) /\ s[n + 1] = i
    BY <1>1, <2>1
  <2> QED
    BY <1>1, <2>2 DEF In
<1>4. In(s, Head(s))
  BY <1>1 DEF In
<1> QED
  BY <1>2, <1>3, <1>4

LEMMA InEmpty == \A i : ~In(<<>>, i)
BY DEF In

\* Putting an item into one buffer leaves the others alone.
LEMMA PutMoves ==
  ASSUME TypeOK, NEW l \in Lanes, NEW k \in Stages, NEW i \in Jobs \cup Task, Put(l, k, i)
  PROVE  /\ buf' \in [Lanes -> [Stages -> Seq(Jobs \cup Task)]]
         /\ buf'[l][k] = Append(buf[l][k], i)
         /\ \A m \in Lanes, n \in Stages : m # l \/ n # k => buf'[m][n] = buf[m][n]
         /\ \A m \in Lanes, n \in Stages : \A x :
              In(buf'[m][n], x) <=> In(buf[m][n], x) \/ (m = l /\ n = k /\ x = i)
<1>1. buf \in [Lanes -> [Stages -> Seq(Jobs \cup Task)]]
  BY DEF TypeOK
<1>2. buf[l] \in [Stages -> Seq(Jobs \cup Task)] /\ buf[l][k] \in Seq(Jobs \cup Task)
  BY <1>1
<1>3. Append(buf[l][k], i) \in Seq(Jobs \cup Task)
  BY <1>2
<1>4. buf' = [buf EXCEPT ![l] = [buf[l] EXCEPT ![k] = Append(buf[l][k], i)]]
  BY <1>1, <1>2 DEF Put
<1>5. /\ buf' \in [Lanes -> [Stages -> Seq(Jobs \cup Task)]]
      /\ buf'[l][k] = Append(buf[l][k], i)
      /\ \A m \in Lanes, n \in Stages : m # l \/ n # k => buf'[m][n] = buf[m][n]
  BY <1>1, <1>2, <1>3, <1>4
<1>6. \A x : In(Append(buf[l][k], i), x) <=> In(buf[l][k], x) \/ x = i
  BY <1>2, InAppend
<1> QED
  BY <1>5, <1>6

\* Taking an item out of a worker's buffer.
Took(w, item) ==
  LET l == LaneOf[w]
      k == StageOf[w]
  IN  /\ buf' \in [Lanes -> [Stages -> Seq(Jobs \cup Task)]]
      /\ buf'[l][k] = Tail(buf[l][k])
      /\ \A m \in Lanes, n \in Stages : m # l \/ n # k => buf'[m][n] = buf[m][n]
      /\ \A m \in Lanes, n \in Stages : \A x :
           /\ In(buf'[m][n], x) => In(buf[m][n], x)
           /\ In(buf[m][n], x) => In(buf'[m][n], x) \/ (m = l /\ n = k /\ x = item)
LEMMA ReceiveMoves ==
  ASSUME TypeOK, NEW w \in Workers, Receive(w)
  PROVE  Took(w, Head(Buffer(w))) /\ Buffer(w) # <<>>
<1> DEFINE l == LaneOf[w]
           k == StageOf[w]
<1>1. /\ buf \in [Lanes -> [Stages -> Seq(Jobs \cup Task)]]
      /\ l \in Lanes /\ k \in Stages /\ buf[l][k] # <<>>
      /\ buf' = [buf EXCEPT ![l][k] = Tail(@)]
  BY ShutdownAssumption DEF TypeOK, Receive, Buffer
<1> HIDE DEF l, k
<1>2. buf[l] \in [Stages -> Seq(Jobs \cup Task)] /\ buf[l][k] \in Seq(Jobs \cup Task)
  BY <1>1
<1>3. Tail(buf[l][k]) \in Seq(Jobs \cup Task)
  BY <1>1, <1>2
<1>4. buf' = [buf EXCEPT ![l] = [buf[l] EXCEPT ![k] = Tail(buf[l][k])]]
  BY <1>1, <1>2
<1>5. /\ buf' \in [Lanes -> [Stages -> Seq(Jobs \cup Task)]]
      /\ buf'[l][k] = Tail(buf[l][k])
      /\ \A m \in Lanes, n \in Stages : m # l \/ n # k => buf'[m][n] = buf[m][n]
  BY <1>1, <1>2, <1>3, <1>4
<1>6. \A x : In(buf[l][k], x) <=> In(Tail(buf[l][k]), x) \/ x = Head(buf[l][k])
  BY <1>1, <1>2, InTail
<1> QED
  BY <1>1, <1>5, <1>6 DEF Took, Buffer, l, k

-----------------------------------------------------------------------------
(***************************************************************************)
(* Type correctness.                                                       *)
(***************************************************************************)
LEMMA TypeInit == Init => TypeOK
<1> SUFFICES ASSUME Init PROVE TypeOK
  OBVIOUS
<1>1. \A k \in Stages : <<>> \in Seq(Jobs \cup Task)
  OBVIOUS
<1>2. /\ buf \in [Lanes -> [Stages -> Seq(Jobs \cup Task)]]
      /\ \A l \in Lanes, k \in Stages : buf[l][k] = <<>>
  BY <1>1 DEF Init
<1>3. \A l \in Lanes : /\ buf[l][1] \in Seq(Jobs)
                       /\ {buf[l][2], buf[l][3]} \subseteq Seq(Task)
  BY <1>2 DEF Stages
<1>4. \A l \in Lanes, k \in Stages : Len(buf[l][k]) <= QueueSize
  BY <1>2, ShutdownAssumption
<1>5. IdleWorker \in WorkerState
  BY DEF IdleWorker, WorkerState
<1>6. worker \in [Workers -> WorkerState]
  BY <1>5 DEF Init
<1>7. /\ main = "running" /\ stopped = FALSE /\ canceled = FALSE /\ storeOpen = TRUE
      /\ graceful = FALSE /\ scheduler = "loop"
      /\ written = {} /\ dropped = {} /\ early = {} /\ faults = 0
  BY DEF Init
<1>8. /\ drained \in [Lanes -> 0 .. 3] /\ closed \in [Lanes -> SUBSET Stages]
      /\ batch \in [Lanes -> SUBSET Task]
      /\ batcher \in [Lanes -> {"select", "flush", "exited"}]
  BY DEF Init
<1>9. producer \in [Jobs -> Busy \cup {"none", "accepted", "failed", "forgotten"}]
  BY DEF Init
<1> QED
  BY <1>2, <1>3, <1>4, <1>6, <1>7, <1>8, <1>9 DEF TypeOK

LEMMA TypeProducers ==
  ASSUME TypeOK, (\E j \in Jobs : Request(j) \/ ProducerStep(j)) \/ Tick \/ SchedulerExit
  PROVE  TypeOK'
<1> USE DEF process, outcomes
<1>1. ASSUME NEW j \in Jobs, Enqueue(j) PROVE TypeOK'
  <2> DEFINE l == LaneOf[j]
  <2>1. /\ l \in Lanes /\ 1 \in Stages /\ Put(l, 1, j) /\ HasRoom(l, 1)
        /\ producer' = [producer EXCEPT ![j] = "accepted"]
        /\ early' \subseteq Jobs
        /\ UNCHANGED <<process, worker, outcomes>>
    BY <1>1, ShutdownAssumption DEF Enqueue, SetProducer, TypeOK, Stages
  <2> HIDE DEF l
  <2>2. /\ buf' \in [Lanes -> [Stages -> Seq(Jobs \cup Task)]]
        /\ buf'[l][1] = Append(buf[l][1], j)
        /\ \A m \in Lanes, n \in Stages : m # l \/ n # 1 => buf'[m][n] = buf[m][n]
    BY <2>1, PutMoves
  <2>3. buf[l][1] \in Seq(Jobs) /\ Len(buf[l][1]) < QueueSize /\ QueueSize \in Nat
    BY <2>1, ShutdownAssumption DEF HasRoom, TypeOK
  <2>4. buf'[l][1] \in Seq(Jobs) /\ Len(buf'[l][1]) <= QueueSize
    BY <2>2, <2>3
  <2>5. \A m \in Lanes : /\ buf'[m][1] \in Seq(Jobs)
                         /\ {buf'[m][2], buf'[m][3]} \subseteq Seq(Task)
    <3>1. \A m \in Lanes : buf'[m][2] = buf[m][2] /\ buf'[m][3] = buf[m][3]
      BY <2>2 DEF Stages
    <3>2. \A m \in Lanes : buf'[m][1] \in Seq(Jobs)
      <4>1. \A m \in Lanes : m # l => buf'[m][1] = buf[m][1]
        BY <2>2 DEF Stages
      <4> QED
        BY <2>4, <4>1 DEF TypeOK
    <3>3. \A m \in Lanes : buf[m][2] \in Seq(Task) /\ buf[m][3] \in Seq(Task)
      BY DEF TypeOK
    <3> QED
      BY <3>1, <3>2, <3>3
  <2>6. \A m \in Lanes, n \in Stages : Len(buf'[m][n]) <= QueueSize
    BY <2>2, <2>4 DEF TypeOK
  <2> QED
    BY <2>1, <2>2, <2>5, <2>6 DEF TypeOK
<1>2. ASSUME UNCHANGED <<main, stopped, canceled, storeOpen, graceful, drained, closed,
                         buf, worker, outcomes, early>>,
             scheduler' \in {scheduler, "exited"},
             producer' \in [Jobs -> Busy \cup {"none", "accepted", "failed", "forgotten"}]
      PROVE  TypeOK'
  BY <1>2 DEF TypeOK
<1>3. CASE Tick
  <2>1. producer' \in [Jobs -> Busy \cup {"none", "accepted", "failed", "forgotten"}]
    BY <1>3 DEF Tick, TypeOK, Busy
  <2> QED
    BY <1>2, <1>3, <2>1 DEF Tick
<1>4. CASE SchedulerExit
  BY <1>2, <1>4 DEF SchedulerExit, TypeOK
<1>5. ASSUME NEW j \in Jobs, NEW p \in Busy \cup {"failed", "forgotten"},
             SetProducer(j, p), UNCHANGED <<process, buf, worker, outcomes, early>>
      PROVE  TypeOK'
  <2>1. producer' \in [Jobs -> Busy \cup {"none", "accepted", "failed", "forgotten"}]
    BY <1>5 DEF SetProducer, TypeOK, Busy
  <2> QED
    BY <1>2, <1>5, <2>1
<1>6. ASSUME NEW j \in Jobs, Request(j) \/ SubmitClaimed(j) \/ CheckOpen(j) \/ GiveUp(j)
                             \/ RecordRefusal(j)
      PROVE  TypeOK'
  <2>1. CASE Request(j)
    BY <1>5, <2>1 DEF Request, Busy
  <2>2. CASE SubmitClaimed(j)
    BY <1>5, <2>2 DEF SubmitClaimed, Busy
  <2>3. CASE CheckOpen(j)
    BY <1>5, <2>3 DEF CheckOpen, Busy
  <2>4. CASE GiveUp(j)
    BY <1>5, <2>4 DEF GiveUp, Busy
  <2>5. CASE RecordRefusal(j)
    BY <1>5, <2>5 DEF RecordRefusal, Busy
  <2> QED
    BY <1>6, <2>1, <2>2, <2>3, <2>4, <2>5
<1> QED
  BY <1>1, <1>3, <1>4, <1>6 DEF ProducerStep

LEMMA TypeReceive ==
  ASSUME TypeOK, NEW w \in Workers, Receive(w)
  PROVE  TypeOK'
<1> DEFINE l == LaneOf[w]
           k == StageOf[w]
<1>1. /\ l \in Lanes /\ k \in Stages /\ buf[l][k] # <<>>
      /\ worker' = [worker EXCEPT ![w] =
            [pc |-> IF k = 3 THEN "hand" ELSE "check",
             left |-> Output(k, Head(buf[l][k])), tries |-> 0]]
      /\ UNCHANGED <<process, producer, outcomes, early>>
  BY ShutdownAssumption DEF Receive, Buffer, SetWorker
<1>2. /\ buf' \in [Lanes -> [Stages -> Seq(Jobs \cup Task)]]
      /\ buf'[l][k] = Tail(buf[l][k])
      /\ \A m \in Lanes, n \in Stages : m # l \/ n # k => buf'[m][n] = buf[m][n]
  BY ReceiveMoves DEF Took
<1> HIDE DEF l, k
<1>3. \A m \in Lanes, n \in Stages : Len(buf[m][n]) \in Nat
  BY DEF TypeOK
<1>4. buf[l][k] \in IF k = 1 THEN Seq(Jobs) ELSE Seq(Task)
  BY <1>1 DEF TypeOK, Stages
<1>5. /\ Tail(buf[l][k]) \in IF k = 1 THEN Seq(Jobs) ELSE Seq(Task)
      /\ Len(Tail(buf[l][k])) <= Len(buf[l][k])
      /\ Head(buf[l][k]) \in IF k = 1 THEN Jobs ELSE Task
  <2>1. CASE k = 1
    BY <1>1, <1>4, <2>1
  <2>2. CASE k # 1
    BY <1>1, <1>4, <2>2
  <2> QED
    BY <2>1, <2>2
<1>6. Output(k, Head(buf[l][k])) \subseteq Task
  BY <1>5 DEF Output, Task
<1>7. worker' \in [Workers -> WorkerState]
  BY <1>1, <1>6 DEF WorkerState, TypeOK
<1>8. \A m \in Lanes : /\ buf'[m][1] \in Seq(Jobs)
                       /\ buf'[m][2] \in Seq(Task) /\ buf'[m][3] \in Seq(Task)
  <2>1. ASSUME NEW m \in Lanes PROVE buf'[m][1] \in Seq(Jobs)
    <3>1. CASE m = l /\ k = 1
      <4>1. buf'[m][1] = Tail(buf[l][k])
        BY <1>2, <3>1
      <4> QED
        BY <1>5, <3>1, <4>1
    <3>2. CASE ~(m = l /\ k = 1)
      <4>1. buf'[m][1] = buf[m][1]
        BY <1>2, <3>2 DEF Stages
      <4> QED
        BY <4>1 DEF TypeOK
    <3> QED
      BY <3>1, <3>2
  <2>2. \A m \in Lanes : buf'[m][2] \in Seq(Task)
    BY <1>1, <1>2, <1>5 DEF TypeOK, Stages
  <2>3. \A m \in Lanes : buf'[m][3] \in Seq(Task)
    BY <1>1, <1>2, <1>5 DEF TypeOK, Stages
  <2> QED
    BY <2>1, <2>2, <2>3
<1>9. \A m \in Lanes, n \in Stages : Len(buf'[m][n]) <= QueueSize
  <2>1. QueueSize \in Nat /\ Len(buf[l][k]) <= QueueSize
    BY <1>1, ShutdownAssumption DEF TypeOK
  <2>2. Len(buf'[l][k]) <= QueueSize
    <3>1. Len(Tail(buf[l][k])) \in Nat
      BY <1>1, <1>2 DEF TypeOK
    <3> QED
      BY <1>1, <1>2, <1>3, <1>5, <2>1, <3>1
  <2> QED
    BY <1>2, <2>2 DEF TypeOK
<1> QED
  BY <1>1, <1>2, <1>7, <1>8, <1>9 DEF TypeOK, process, outcomes

LEMMA TypeSendNext ==
  ASSUME TypeOK, WorkerInv, NEW w \in Workers, SendNext(w)
  PROVE  TypeOK'
<1> DEFINE l == LaneOf[w]
           k == StageOf[w] + 1
<1>1. PICK i \in worker[w].left :
        /\ Put(l, k, i) /\ HasRoom(l, k)
        /\ worker' = [worker EXCEPT ![w] =
             IF worker[w].left = {i} THEN IdleWorker
             ELSE [worker[w] EXCEPT !.pc = "check", !.left = @ \ {i}]]
        /\ UNCHANGED <<process, producer, outcomes, early>>
  BY DEF SendNext, SetWorker
<1>2. /\ l \in Lanes /\ k \in 2 .. 3 /\ k \in Stages /\ worker[w] \in WorkerState
      /\ worker[w].left \subseteq Task
  <2>1. StageOf[w] \in 1 .. 2
    BY DEF SendNext, At, WorkerInv
  <2>2. worker[w] \in WorkerState
    BY DEF TypeOK
  <2> QED
    BY <2>1, <2>2, ShutdownAssumption DEF Stages, WorkerState
<1> HIDE DEF l, k
<1>3. /\ buf' \in [Lanes -> [Stages -> Seq(Jobs \cup Task)]]
      /\ buf'[l][k] = Append(buf[l][k], i)
      /\ \A m \in Lanes, n \in Stages : m # l \/ n # k => buf'[m][n] = buf[m][n]
  BY <1>1, <1>2, PutMoves
<1>4. buf[l][k] \in Seq(Task) /\ Len(buf[l][k]) < QueueSize /\ QueueSize \in Nat
  BY <1>1, <1>2, ShutdownAssumption DEF TypeOK, HasRoom
<1>5. buf'[l][k] \in Seq(Task) /\ Len(buf'[l][k]) <= QueueSize
  BY <1>2, <1>3, <1>4
<1>6. \A m \in Lanes : /\ buf'[m][1] \in Seq(Jobs)
                       /\ buf'[m][2] \in Seq(Task) /\ buf'[m][3] \in Seq(Task)
  <2>1. \A m \in Lanes : buf'[m][1] \in Seq(Jobs)
    BY <1>2, <1>3 DEF TypeOK, Stages
  <2>2. ASSUME NEW m \in Lanes, NEW n \in 2 .. 3 PROVE buf'[m][n] \in Seq(Task)
    <3>1. CASE m = l /\ n = k
      BY <1>5, <3>1
    <3>2. CASE ~(m = l /\ n = k)
      <4>1. buf'[m][n] = buf[m][n]
        BY <1>3, <3>2 DEF Stages
      <4>2. n = 2 \/ n = 3
        OBVIOUS
      <4> QED
        BY <4>1, <4>2 DEF TypeOK
    <3> QED
      BY <3>1, <3>2
  <2> QED
    BY <2>1, <2>2
<1>7. \A m \in Lanes, n \in Stages : Len(buf'[m][n]) <= QueueSize
  BY <1>3, <1>5 DEF TypeOK
<1>8. worker' \in [Workers -> WorkerState]
  <2>1. IdleWorker \in WorkerState
    BY DEF IdleWorker, WorkerState
  <2>2. [worker[w] EXCEPT !.pc = "check", !.left = @ \ {i}] \in WorkerState
    BY <1>2 DEF WorkerState
  <2> QED
    BY <1>1, <2>1, <2>2 DEF TypeOK
<1> QED
  BY <1>1, <1>3, <1>6, <1>7, <1>8 DEF TypeOK, process, outcomes

LEMMA TypeWorkers ==
  ASSUME TypeOK, WorkerInv, NEW w \in Workers, WorkerStep(w)
  PROVE  TypeOK'
<1>1. worker[w] \in WorkerState
  BY DEF TypeOK
<1>2. ASSUME NEW r \in WorkerState, SetWorker(w, r), UNCHANGED <<process, buf, producer, outcomes, early>>
      PROVE  TypeOK'
  <2>1. worker' \in [Workers -> WorkerState]
    BY <1>2 DEF SetWorker, TypeOK
  <2> QED
    BY <1>2, <2>1 DEF TypeOK, process, outcomes
<1>3. ASSUME NEW p \in {"receive", "drain", "check", "send", "hand", "exited"}
      PROVE  [worker[w] EXCEPT !.pc = p] \in WorkerState
  BY <1>1 DEF WorkerState
<1>4. \A c \in BOOLEAN : AfterError(w, c) \in WorkerState
  <2>1. IdleWorker \in WorkerState
    BY DEF IdleWorker, WorkerState
  <2>2. [pc |-> "check", left |-> worker[w].left, tries |-> 1] \in WorkerState
    BY <1>1 DEF WorkerState
  <2> QED
    BY <2>1, <2>2 DEF AfterError
<1>5. CASE Receive(w)
  BY <1>5, TypeReceive
<1>6. CASE ReceiveDone(w) \/ DrainEmpty(w) \/ ReceiveCanceled(w) \/ HandCanceled(w)
  BY <1>2, <1>3, <1>6 DEF ReceiveDone, DrainEmpty, ReceiveCanceled, HandCanceled
<1>7. CASE CheckNext(w)
  BY <1>2, <1>3, <1>4, <1>7 DEF CheckNext
<1>8. CASE SendGivesUp(w)
  BY <1>2, <1>4, <1>8 DEF SendGivesUp
<1>9. CASE SendNext(w)
  BY <1>9, TypeSendNext
<1>10. CASE Hand(w)
  <2>1. /\ worker' = [worker EXCEPT ![w] = IdleWorker]
        /\ batch' = [batch EXCEPT ![LaneOf[w]] = @ \cup worker[w].left]
        /\ batcher' \in [Lanes -> {"select", "flush", "exited"}]
        /\ UNCHANGED <<process, buf, producer, written, dropped, faults, early>>
    BY <1>10 DEF Hand, SetWorker, TypeOK
  <2>2. worker' \in [Workers -> WorkerState]
    BY <2>1 DEF IdleWorker, WorkerState, TypeOK
  <2>3. batch' \in [Lanes -> SUBSET Task]
    BY <1>1, <2>1 DEF WorkerState, TypeOK
  <2> QED
    BY <2>1, <2>2, <2>3 DEF TypeOK, process
<1> QED
  BY <1>5, <1>6, <1>7, <1>8, <1>9, <1>10 DEF WorkerStep

LEMMA TypeRest ==
  ASSUME TypeOK,
         \/ \E l \in Lanes : BatcherStep(l) \/ DrainStep(l)
         \/ Signal \/ MainStep \/ DrainTimeout
  PROVE  TypeOK'
<1> USE DEF process, outcomes
<1>1. ASSUME NEW l \in Lanes, BatcherStep(l) PROVE TypeOK'
  <2>1. /\ batcher' \in [Lanes -> {"select", "flush", "exited"}]
        /\ batch' \in [Lanes -> SUBSET Task] /\ written' \subseteq Task
        /\ dropped' \subseteq Task /\ faults' \in Nat
    <3>1. batch[l] \subseteq Task
      BY DEF TypeOK
    <3>2. CASE FlushTick(l)
      BY <3>1, <3>2 DEF FlushTick, TypeOK
    <3>3. ASSUME NEW to \in {"select", "exited"}, batcher' = [batcher EXCEPT ![l] = to],
                 dropped' \in {dropped, dropped \cup batch[l]},
                 (Write(l) /\ UNCHANGED faults) \/ WriteFails
          PROVE  /\ batcher' \in [Lanes -> {"select", "flush", "exited"}]
                 /\ batch' \in [Lanes -> SUBSET Task] /\ written' \subseteq Task
                 /\ dropped' \subseteq Task /\ faults' \in Nat
      <4>1. batcher' \in [Lanes -> {"select", "flush", "exited"}] /\ dropped' \subseteq Task
        BY <3>1, <3>3 DEF TypeOK
      <4>2. CASE Write(l) /\ UNCHANGED faults
        BY <3>1, <4>1, <4>2 DEF Write, TypeOK
      <4>3. CASE WriteFails
        BY <4>1, <4>3 DEF WriteFails, TypeOK
      <4> QED
        BY <3>3, <4>2, <4>3
    <3>4. CASE Flush(l)
      BY <3>3, <3>4 DEF Flush
    <3>5. CASE LastFlush(l)
      BY <3>3, <3>5 DEF LastFlush
    <3> QED
      BY <1>1, <3>2, <3>4, <3>5 DEF BatcherStep
  <2>2. UNCHANGED <<process, buf, producer, worker, early>>
    BY <1>1 DEF BatcherStep, FlushTick, Flush, LastFlush
  <2> QED
    BY <2>1, <2>2 DEF TypeOK
<1>2. ASSUME NEW l \in Lanes, DrainStep(l) PROVE TypeOK'
  <2>1. drained[l] \in 0 .. 2 /\ drained[l] + 1 \in Stages
    BY <1>2 DEF DrainStep, CloseStage, WaitStage, Draining, TypeOK, Stages
  <2>2. drained' \in [Lanes -> 0 .. 3] /\ closed' \in [Lanes -> SUBSET Stages]
    <3>1. CASE CloseStage(l)
      BY <2>1, <3>1 DEF CloseStage, TypeOK
    <3>2. CASE WaitStage(l)
      <4>1. drained[l] + 1 \in 0 .. 3
        BY <2>1
      <4> QED
        BY <3>2, <4>1 DEF WaitStage, TypeOK
    <3> QED
      BY <1>2, <3>1, <3>2 DEF DrainStep
  <2>3. UNCHANGED <<main, stopped, scheduler, canceled, storeOpen, graceful, buf,
                    producer, worker, outcomes, early>>
    BY <1>2 DEF DrainStep, CloseStage, WaitStage
  <2> QED
    BY <2>2, <2>3 DEF TypeOK
<1>3. CASE Signal \/ MainStep \/ DrainTimeout
  <2>1. /\ main' \in {"running", "http", "stop", "drain", "stopping", "exited"}
        /\ {stopped', canceled', storeOpen', graceful'} \subseteq BOOLEAN
    BY <1>3 DEF Signal, MainStep, DrainTimeout, HttpShutdown, StopScheduler, CloseStore,
                GracefulExit, Exit, GoMain, TypeOK
  <2>2. UNCHANGED <<scheduler, drained, closed, buf, producer, worker, outcomes, early>>
    BY <1>3 DEF Signal, MainStep, DrainTimeout, HttpShutdown, StopScheduler, CloseStore,
                GracefulExit, Exit
  <2> QED
    BY <2>1, <2>2 DEF TypeOK
<1> QED
  BY <1>1, <1>2, <1>3

LEMMA TypeNext == TypeOK /\ WorkerInv /\ [Next]_vars => TypeOK'
<1> SUFFICES ASSUME TypeOK, WorkerInv, [Next]_vars PROVE TypeOK'
  OBVIOUS
<1>1. CASE UNCHANGED vars
  BY <1>1 DEF vars, process, outcomes, TypeOK
<1> QED
  BY <1>1, TypeProducers, TypeWorkers, TypeRest DEF Next, Exited


-----------------------------------------------------------------------------
(***************************************************************************)
(* What no step does: wake a goroutine that has ended, open a pipeline,    *)
(* drain out of order, cancel before the timeout, unwrite an outcome.      *)
(***************************************************************************)
LEMMA WorkerFrame ==
  ASSUME TypeOK, NEW w \in Workers, WorkerStep(w)
  PROVE  /\ worker[w].pc # "exited"
         /\ \A v \in Workers : v # w => worker'[v] = worker[v]
         /\ UNCHANGED <<process, producer, written, dropped, faults, early>>
         /\ \A l \in Lanes : batcher[l] = "exited" => batcher'[l] = "exited" /\ batch'[l] = batch[l]
<1> USE DEF outcomes
<1>1. worker \in [Workers -> WorkerState] /\ batch \in [Lanes -> SUBSET Task]
      /\ batcher \in [Lanes -> {"select", "flush", "exited"}]
  BY DEF TypeOK
<1>2. worker[w].pc # "exited"
  BY DEF WorkerStep, Receive, ReceiveDone, DrainEmpty, ReceiveCanceled, CheckNext, SendNext,
         SendGivesUp, Hand, HandCanceled, At
<1>3. \E r : SetWorker(w, r)
  BY DEF WorkerStep, Receive, ReceiveDone, DrainEmpty, ReceiveCanceled, CheckNext, SendNext,
         SendGivesUp, Hand, HandCanceled
<1>4. \A v \in Workers : v # w => worker'[v] = worker[v]
  BY <1>1, <1>3 DEF SetWorker
<1>5. UNCHANGED <<process, producer, written, dropped, faults, early>>
  BY DEF WorkerStep, Receive, ReceiveDone, DrainEmpty, ReceiveCanceled, CheckNext, SendNext,
         SendGivesUp, Hand, HandCanceled
<1>6. ASSUME NEW l \in Lanes, batcher[l] = "exited"
      PROVE  batcher'[l] = "exited" /\ batch'[l] = batch[l]
  <2>1. CASE Hand(w)
    BY <1>1, <1>6, <2>1 DEF Hand
  <2>2. CASE ~Hand(w)
    BY <1>6, <2>2 DEF WorkerStep, Receive, ReceiveDone, DrainEmpty, ReceiveCanceled,
                      CheckNext, SendNext, SendGivesUp, HandCanceled
  <2> QED
    BY <2>1, <2>2
<1> QED
  BY <1>2, <1>4, <1>5, <1>6

LEMMA ProducerFrame ==
  ASSUME (\E j \in Jobs : Request(j) \/ ProducerStep(j)) \/ Tick \/ SchedulerExit
  PROVE  UNCHANGED <<main, stopped, canceled, storeOpen, graceful, drained, closed,
                     worker, outcomes>>
BY DEF process, ProducerStep, Request, Tick, SchedulerExit, SubmitClaimed, CheckOpen, Enqueue,
       GiveUp, RecordRefusal

LEMMA BatcherFrame ==
  ASSUME TypeOK, NEW l \in Lanes, BatcherStep(l)
  PROVE  /\ UNCHANGED <<process, buf, producer, worker, early>>
         /\ \A m \in Lanes : m # l \/ batcher[m] = "exited" =>
              batcher'[m] = batcher[m] /\ batch'[m] = batch[m]
         /\ written \subseteq written' /\ dropped \subseteq dropped'
         /\ batch[l] \subseteq batch'[l] \cup written' \cup dropped'
<1>1. batch \in [Lanes -> SUBSET Task]
      /\ batcher \in [Lanes -> {"select", "flush", "exited"}]
  BY DEF TypeOK
<1>2. CASE FlushTick(l)
  BY <1>1, <1>2 DEF FlushTick
<1>3. CASE Flush(l)
  BY <1>1, <1>3 DEF Flush, Write, WriteFails
<1>4. CASE LastFlush(l)
  BY <1>1, <1>4 DEF LastFlush, Write, WriteFails
<1> QED
  BY <1>2, <1>3, <1>4 DEF BatcherStep

LEMMA DrainFrame ==
  ASSUME TypeOK, NEW l \in Lanes, DrainStep(l)
  PROVE  /\ UNCHANGED <<main, stopped, scheduler, canceled, storeOpen, graceful, buf,
                        producer, worker, outcomes, early>>
         /\ drained[l] + 1 \in Stages
         /\ \A m \in Lanes : m # l => drained'[m] = drained[m] /\ closed'[m] = closed[m]
         /\ \/ drained' = drained /\ closed'[l] = closed[l] \cup {drained[l] + 1}
            \/ /\ closed' = closed /\ drained'[l] = drained[l] + 1
               /\ drained[l] + 1 \in closed[l] /\ StageExited(l, drained[l] + 1)
<1>1. drained \in [Lanes -> 0 .. 3] /\ closed \in [Lanes -> SUBSET Stages]
  BY DEF TypeOK
<1>2. drained[l] \in 0 .. 2
  BY <1>1 DEF DrainStep, CloseStage, WaitStage, Draining
<1>3. drained[l] + 1 \in Stages
  BY <1>2 DEF Stages
<1>4. CASE CloseStage(l)
  BY <1>1, <1>3, <1>4 DEF CloseStage
<1>5. CASE WaitStage(l)
  BY <1>1, <1>3, <1>5 DEF WaitStage
<1> QED
  BY <1>4, <1>5 DEF DrainStep

LEMMA MainFrame ==
  ASSUME Signal \/ MainStep \/ DrainTimeout
  PROVE  UNCHANGED <<scheduler, drained, closed, buf, producer, worker, outcomes, early>>
BY DEF Signal, MainStep, DrainTimeout, HttpShutdown, StopScheduler, CloseStore, GracefulExit, Exit

LEMMA Steady ==
  ASSUME TypeOK, [Next]_vars
  PROVE  /\ \A w \in Workers : worker[w].pc = "exited" => worker'[w] = worker[w]
         /\ \A l \in Lanes : batcher[l] = "exited" => batcher'[l] = "exited" /\ batch'[l] = batch[l]
         /\ \A l \in Lanes : closed[l] \subseteq closed'[l]
         /\ canceled => canceled'
         /\ written \subseteq written' /\ dropped \subseteq dropped'
<1>1. CASE (\E j \in Jobs : Request(j) \/ ProducerStep(j)) \/ Tick \/ SchedulerExit
  BY <1>1, ProducerFrame DEF outcomes
<1>2. CASE \E w \in Workers : WorkerStep(w)
  BY <1>2, WorkerFrame DEF process
<1>3. CASE \E l \in Lanes : BatcherStep(l)
  BY <1>3, BatcherFrame DEF process
<1>4. CASE \E l \in Lanes : DrainStep(l)
  BY <1>4, DrainFrame DEF outcomes
<1>5. CASE Signal \/ MainStep \/ DrainTimeout
  <2>1. canceled => canceled'
    BY <1>5 DEF Signal, MainStep, DrainTimeout, HttpShutdown, StopScheduler, CloseStore,
                GracefulExit, Exit
  <2> QED
    BY <1>5, <2>1, MainFrame DEF outcomes
<1>6. CASE UNCHANGED vars
  BY <1>6 DEF vars, process, outcomes
<1> QED
  BY <1>1, <1>2, <1>3, <1>4, <1>5, <1>6 DEF Next, Exited

LEMMA StageStaysExited ==
  ASSUME TypeOK, [Next]_vars, NEW l \in Lanes, NEW k \in Stages, StageExited(l, k)
  PROVE  StageExited(l, k)'
BY Steady DEF StageExited

-----------------------------------------------------------------------------
(***************************************************************************)
(* Every step keeps the parts of DrainInv.                                 *)
(***************************************************************************)
LEMMA ChainNext == TypeOK /\ ChainInv /\ [Next]_vars => ChainInv'
<1> SUFFICES ASSUME TypeOK, ChainInv, [Next]_vars PROVE ChainInv'
  OBVIOUS
<1> USE DEF process, outcomes
<1>1. CASE \E l \in Lanes : DrainStep(l)
  <2>1. PICK l \in Lanes : DrainStep(l)
    BY <1>1
  <2>2. ASSUME NEW m \in Lanes, NEW k \in Stages
        PROVE  /\ k <= drained'[m] => k \in closed'[m] /\ StageExited(m, k)'
               /\ k \in closed'[m] => k <= drained'[m] + 1
    <3>1. drained[m] \in Nat /\ k \in Nat
      <4>1. drained[m] \in 0 .. 3
        BY DEF TypeOK
      <4> QED
        BY <4>1 DEF Stages
    <3>2. CASE m # l
      BY <2>1, <2>2, <3>2, DrainFrame, StageStaysExited DEF ChainInv
    <3>3. CASE m = l /\ drained' = drained /\ closed'[l] = closed[l] \cup {drained[l] + 1}
      BY <3>1, <3>3, StageStaysExited DEF ChainInv
    <3>4. CASE /\ m = l /\ closed' = closed /\ drained'[l] = drained[l] + 1
               /\ drained[l] + 1 \in closed[l] /\ StageExited(l, drained[l] + 1)
      <4>1. CASE k = drained[l] + 1
        BY <3>1, <3>4, <4>1, StageStaysExited
      <4>2. CASE k # drained[l] + 1
        <5>1. k <= drained'[m] => k <= drained[m]
          BY <3>1, <3>4, <4>2
        <5> QED
          BY <3>1, <3>4, <5>1, StageStaysExited DEF ChainInv
      <4> QED
        BY <4>1, <4>2
    <3> QED
      BY <2>1, <3>2, <3>3, <3>4, DrainFrame
  <2> QED
    BY <2>2 DEF ChainInv
<1>2. CASE UNCHANGED <<drained, closed>>
  BY <1>2, StageStaysExited DEF ChainInv
<1>3. \/ UNCHANGED <<drained, closed>>
      \/ \E l \in Lanes : DrainStep(l)
  BY ProducerFrame, WorkerFrame, BatcherFrame, MainFrame DEF Next, Exited, vars
<1> QED
  BY <1>1, <1>2, <1>3

LEMMA MainNext == TypeOK /\ MainInv /\ [Next]_vars => MainInv'
<1> SUFFICES ASSUME TypeOK, MainInv, [Next]_vars PROVE MainInv'
  OBVIOUS
<1>1. CASE \E l \in Lanes : DrainStep(l)
  <2>1. PICK l \in Lanes : DrainStep(l)
    BY <1>1
  <2>2. UNCHANGED <<main, canceled, storeOpen, graceful>>
    BY <2>1, DrainFrame
  <2>3. drained[l] # 3
    BY <2>1 DEF DrainStep, CloseStage, WaitStage, Draining, TypeOK
  <2> QED
    BY <2>2, <2>3 DEF MainInv
<1>2. CASE Signal \/ MainStep \/ DrainTimeout
  <2>1. drained' = drained
    BY <1>2, MainFrame
  <2>2. CASE Signal \/ HttpShutdown \/ StopScheduler \/ Exit
    BY <2>1, <2>2 DEF Signal, HttpShutdown, StopScheduler, Exit, GoMain, MainInv
  <2>3. CASE CloseStore
    <3>1. graceful' = graceful /\ canceled' = canceled /\ main' = main /\ ~storeOpen'
      BY <2>3 DEF CloseStore
    <3>2. \A l \in Lanes : drained'[l] = 3
      BY <2>1, <2>3 DEF CloseStore
    <3> QED
      BY <3>1, <3>2 DEF MainInv
  <2>4. CASE GracefulExit
    BY <2>1, <2>4 DEF GracefulExit, GoMain, MainInv
  <2>5. CASE DrainTimeout
    BY <2>1, <2>5 DEF DrainTimeout, GoMain, MainInv
  <2> QED
    BY <1>2, <2>2, <2>3, <2>4, <2>5 DEF MainStep
<1>3. CASE UNCHANGED <<main, canceled, storeOpen, graceful, drained>>
  BY <1>3 DEF MainInv
<1>4. \/ UNCHANGED <<main, canceled, storeOpen, graceful, drained>>
      \/ \E l \in Lanes : DrainStep(l)
      \/ Signal \/ MainStep \/ DrainTimeout
  BY ProducerFrame, WorkerFrame, BatcherFrame DEF Next, Exited, vars, process
<1> QED
  BY <1>1, <1>2, <1>3, <1>4

\* No worker that is submitting finds the next pipeline closed.
LEMMA NotRefused ==
  ASSUME TypeOK, ChainInv, WorkerInv, NEW w \in Workers, worker[w].pc \in {"check", "send"}
  PROVE  StageOf[w] \in 1 .. 2 /\ ~NextClosed(w)
<1> DEFINE l == LaneOf[w]
           k == StageOf[w]
<1>1. l \in Lanes /\ k \in 1 .. 2 /\ drained[l] \in Nat
  <2>1. l \in Lanes /\ k \in 1 .. 2
    BY ShutdownAssumption DEF WorkerInv
  <2>2. drained[l] \in 0 .. 3
    BY <2>1 DEF TypeOK
  <2> QED
    BY <2>1, <2>2
<1>2. ASSUME NextClosed(w) PROVE FALSE
  <2>1. k + 1 \in closed[l] /\ k + 1 \in Stages /\ k \in Stages
    BY <1>1, <1>2 DEF NextClosed, Stages
  <2>2. k + 1 <= drained[l] + 1
    BY <1>1, <2>1 DEF ChainInv
  <2>3. k <= drained[l]
    BY <1>1, <2>2
  <2>4. StageExited(l, k)
    BY <1>1, <2>1, <2>3 DEF ChainInv
  <2>5. worker[w].pc = "exited"
    BY <1>1, <2>4 DEF StageExited
  <2> QED
    BY <2>5
<1> QED
  BY <1>1, <1>2

\* The next state of the worker that steps.
LEMMA WorkerNext == TypeOK /\ ChainInv /\ WorkerInv /\ [Next]_vars => WorkerInv'
<1> SUFFICES ASSUME TypeOK, ChainInv, WorkerInv, [Next]_vars PROVE WorkerInv'
  OBVIOUS
<1> USE DEF process, outcomes
<1> DEFINE Good(w, r, can) ==
      /\ r.pc \in {"check", "send"} => StageOf[w] \in 1 .. 2
      /\ r.pc = "hand" => StageOf[w] = 3
      /\ r.pc \in {"receive", "drain"} => r.left = {}
      /\ r.pc = "drain" => StageOf[w] \in closed[LaneOf[w]]
      /\ r.pc = "exited" /\ ~can => r.left = {} /\ StageOf[w] \in closed[LaneOf[w]]
<1>1. \A w \in Workers : Good(w, worker[w], canceled)
  BY DEF WorkerInv
<1>2. ASSUME \A w \in Workers : Good(w, worker'[w], canceled)
      PROVE  WorkerInv'
  <2>1. \A w \in Workers : StageOf[w] \in closed[LaneOf[w]] => StageOf[w] \in closed'[LaneOf[w]]
    BY Steady, ShutdownAssumption
  <2>2. ~canceled' => ~canceled
    BY Steady
  <2> QED
    BY <1>2, <2>1, <2>2 DEF WorkerInv
<1>3. CASE UNCHANGED worker
  BY <1>1, <1>2, <1>3
<1>4. ASSUME NEW w \in Workers, WorkerStep(w) PROVE Good(w, worker'[w], canceled)
  <2>1. worker[w] \in WorkerState /\ StageOf[w] \in 1 .. 3
    BY ShutdownAssumption DEF TypeOK, Stages
  <2>2. ASSUME NEW r, SetWorker(w, r) PROVE worker'[w] = r
    BY <2>2 DEF SetWorker, TypeOK
  <2>3. Good(w, IdleWorker, canceled)
    BY DEF IdleWorker
  <2>4. CASE Receive(w)
    BY <2>1, <2>2, <2>4 DEF Receive
  <2>5. CASE ReceiveDone(w)
    BY <1>1, <2>1, <2>2, <2>5 DEF ReceiveDone, At, WorkerState
  <2>6. CASE DrainEmpty(w)
    BY <1>1, <2>1, <2>2, <2>6 DEF DrainEmpty, At, WorkerState
  <2>7. CASE ReceiveCanceled(w) \/ HandCanceled(w)
    BY <2>1, <2>2, <2>7 DEF ReceiveCanceled, HandCanceled, WorkerState
  <2>8. \A c \in BOOLEAN : Good(w, AfterError(w, c), canceled)
    BY <2>1, <2>3 DEF AfterError
  <2>9. CASE CheckNext(w)
    <3>1. Good(w, [worker[w] EXCEPT !.pc = "send"], canceled)
      BY <1>1, <2>1, <2>9 DEF CheckNext, At, WorkerState
    <3> QED
      BY <2>2, <2>8, <2>9, <3>1 DEF CheckNext
  <2>10. CASE SendNext(w)
    <3>1. \A i : Good(w, [worker[w] EXCEPT !.pc = "check", !.left = @ \ {i}], canceled)
      BY <1>1, <2>1, <2>10 DEF SendNext, At, WorkerState
    <3> QED
      BY <2>2, <2>3, <2>10, <3>1 DEF SendNext
  <2>11. CASE SendGivesUp(w)
    BY <2>2, <2>8, <2>11 DEF SendGivesUp
  <2>12. CASE Hand(w)
    BY <2>2, <2>3, <2>12 DEF Hand
  <2> QED
    BY <1>4, <2>4, <2>5, <2>6, <2>7, <2>9, <2>10, <2>11, <2>12 DEF WorkerStep
<1>5. CASE \E w \in Workers : WorkerStep(w)
  BY <1>1, <1>2, <1>4, <1>5, WorkerFrame
<1>6. UNCHANGED worker \/ \E w \in Workers : WorkerStep(w)
  BY ProducerFrame, BatcherFrame, DrainFrame, MainFrame DEF Next, Exited, vars
<1> QED
  BY <1>3, <1>5, <1>6

LEMMA BatcherNext == TypeOK /\ BatcherInv /\ [Next]_vars => BatcherInv'
<1> SUFFICES ASSUME TypeOK, BatcherInv, [Next]_vars,
                    NEW l \in Lanes, batcher'[l] = "exited", ~canceled'
             PROVE  ReceiverExited(l)' /\ batch'[l] \subseteq written' \cup dropped'
  BY DEF BatcherInv
<1>1. ReceiverExited(l) => ReceiverExited(l)'
  BY Steady DEF ReceiverExited
<1>2. ~canceled
  BY Steady
<1>3. CASE batcher[l] = "exited"
  BY <1>1, <1>2, <1>3, Steady DEF BatcherInv
<1>4. CASE batcher[l] # "exited"
  <2>1. batcher \in [Lanes -> {"select", "flush", "exited"}] /\ batch \in [Lanes -> SUBSET Task]
    BY DEF TypeOK
  <2>2. ASSUME NEW w \in Workers, WorkerStep(w) PROVE batcher'[l] # "exited"
    <3>1. CASE Hand(w)
      BY <1>4, <2>1, <3>1 DEF Hand
    <3>2. CASE ~Hand(w)
      BY <1>4, <2>2, <3>2 DEF WorkerStep, Receive, ReceiveDone, DrainEmpty, ReceiveCanceled,
                              CheckNext, SendNext, SendGivesUp, HandCanceled, outcomes
    <3> QED
      BY <3>1, <3>2
  <2>3. \E m \in Lanes : BatcherStep(m)
    BY <1>4, <2>2, ProducerFrame, DrainFrame, MainFrame DEF Next, Exited, vars, outcomes
  <2>4. BatcherStep(l)
    BY <1>4, <2>3, BatcherFrame
  <2>5. LastFlush(l)
    BY <1>4, <2>1, <2>4 DEF BatcherStep, FlushTick, Flush
  <2>6. ReceiverExited(l)
    BY <1>2, <2>5 DEF LastFlush
  <2>7. batch'[l] \subseteq written' \cup dropped'
    BY <2>1, <2>5 DEF LastFlush, Write, WriteFails
  <2> QED
    BY <1>1, <2>6, <2>7
<1> QED
  BY <1>3, <1>4

-----------------------------------------------------------------------------
(***************************************************************************)
(* Where items come from.                                                  *)
(***************************************************************************)
LEMMA SendMoves ==
  ASSUME TypeOK, WorkerInv, NEW w \in Workers, SendNext(w)
  PROVE  \E i \in worker[w].left :
           /\ i \in Task /\ StageOf[w] + 1 \in 2 .. 3
           /\ Put(LaneOf[w], StageOf[w] + 1, i)
           /\ worker[w].left = {i} => worker'[w] = IdleWorker
           /\ worker[w].left # {i} => worker'[w].left = worker[w].left \ {i}
<1>1. PICK i \in worker[w].left :
        /\ Put(LaneOf[w], StageOf[w] + 1, i)
        /\ SetWorker(w, IF worker[w].left = {i} THEN IdleWorker
                        ELSE [worker[w] EXCEPT !.pc = "check", !.left = @ \ {i}])
  BY DEF SendNext
<1>2. worker \in [Workers -> WorkerState] /\ worker[w] \in WorkerState
  BY DEF TypeOK
<1>3. i \in Task /\ StageOf[w] \in 1 .. 2
  BY <1>1, <1>2 DEF WorkerState, WorkerInv, SendNext, At
<1>4. worker[w].left = {i} => worker'[w] = IdleWorker
  BY <1>1, <1>2 DEF SetWorker
<1>5. worker[w].left # {i} => worker'[w].left = worker[w].left \ {i}
  BY <1>1, <1>2 DEF SetWorker, WorkerState
<1> QED
  BY <1>1, <1>3, <1>4, <1>5

LEMMA BufferGains ==
  ASSUME TypeOK, WorkerInv, [Next]_vars, NEW l \in Lanes, NEW k \in Stages, NEW x,
         In(buf'[l][k], x)
  PROVE  \/ In(buf[l][k], x)
         \/ k = 1 /\ x \in Jobs /\ LaneOf[x] = l /\ Enqueue(x)
         \/ \E v \in Workers : worker[v].pc = "send" /\ LaneOf[v] = l /\ k = StageOf[v] + 1
<1>1. ASSUME NEW j \in Jobs, Enqueue(j)
      PROVE  In(buf[l][k], x) \/ (k = 1 /\ x \in Jobs /\ LaneOf[x] = l /\ Enqueue(x))
  <2>1. Put(LaneOf[j], 1, j) /\ LaneOf[j] \in Lanes /\ 1 \in Stages /\ j \in Jobs \cup Task
    BY <1>1, ShutdownAssumption DEF Enqueue, Stages
  <2>2. \A m \in Lanes, n \in Stages : \A y :
          In(buf'[m][n], y) <=> In(buf[m][n], y) \/ (m = LaneOf[j] /\ n = 1 /\ y = j)
    BY <2>1, PutMoves
  <2> QED
    BY <1>1, <2>2
<1>2. ASSUME NEW v \in Workers, SendNext(v)
      PROVE  In(buf[l][k], x) \/ (worker[v].pc = "send" /\ LaneOf[v] = l /\ k = StageOf[v] + 1)
  <2>1. PICK i \in worker[v].left :
          i \in Task /\ StageOf[v] + 1 \in 2 .. 3 /\ Put(LaneOf[v], StageOf[v] + 1, i)
    BY <1>2, SendMoves
  <2>2. LaneOf[v] \in Lanes /\ StageOf[v] + 1 \in Stages /\ i \in Jobs \cup Task
    BY <2>1, ShutdownAssumption DEF Stages
  <2>3. PICK h \in Lanes, n \in Stages : h = LaneOf[v] /\ n = StageOf[v] + 1
    BY <2>2
  <2>4. Put(h, n, i)
    BY <2>1, <2>3
  <2>5. \A m \in Lanes, o \in Stages : \A y :
          In(buf'[m][o], y) <=> In(buf[m][o], y) \/ (m = h /\ o = n /\ y = i)
    BY <2>2, <2>4, PutMoves
  <2> QED
    BY <1>2, <2>3, <2>5 DEF SendNext, At
<1>3. ASSUME NEW v \in Workers, Receive(v)
      PROVE  In(buf[l][k], x)
  BY <1>3, ReceiveMoves DEF Took
<1>4. CASE UNCHANGED buf
  BY <1>4
<1>5. \/ UNCHANGED buf
      \/ \E j \in Jobs : Enqueue(j)
      \/ \E v \in Workers : SendNext(v) \/ Receive(v)
  <2>1. ASSUME NEW v \in Workers, WorkerStep(v), ~SendNext(v), ~Receive(v)
        PROVE  UNCHANGED buf
    BY <2>1 DEF WorkerStep, ReceiveDone, DrainEmpty, ReceiveCanceled, CheckNext, SendGivesUp,
                Hand, HandCanceled
  <2>2. ASSUME (\E j \in Jobs : Request(j) \/ ProducerStep(j)) \/ Tick \/ SchedulerExit,
               ~(\E j \in Jobs : Enqueue(j))
        PROVE  UNCHANGED buf
    BY <2>2 DEF ProducerStep, Request, Tick, SchedulerExit, SubmitClaimed, CheckOpen, GiveUp,
                RecordRefusal
  <2> QED
    BY <2>1, <2>2, BatcherFrame, DrainFrame, MainFrame DEF Next, Exited, vars
<1> QED
  BY <1>1, <1>2, <1>3, <1>4, <1>5

\* Only Enqueue adds to early.
LEMMA EarlyGains ==
  ASSUME TypeOK, [Next]_vars, NEW j \in early', j \notin early
  PROVE  j \in Jobs /\ Enqueue(j) /\ 1 \notin closed[LaneOf[j]]
<1>1. ASSUME NEW i \in Jobs, Enqueue(i)
      PROVE  j \in Jobs /\ Enqueue(j) /\ 1 \notin closed[LaneOf[j]]
  BY <1>1 DEF Enqueue
<1>2. \E i \in Jobs : Enqueue(i)
  <2>1. ASSUME (\E i \in Jobs : Request(i) \/ ProducerStep(i)) \/ Tick \/ SchedulerExit,
               ~(\E i \in Jobs : Enqueue(i))
        PROVE  UNCHANGED early
    BY <2>1 DEF ProducerStep, Request, Tick, SchedulerExit, SubmitClaimed, CheckOpen, GiveUp,
                RecordRefusal
  <2> QED
    BY <2>1, WorkerFrame, BatcherFrame, DrainFrame, MainFrame DEF Next, Exited, vars
<1> QED
  BY <1>1, <1>2

LEMMA QuietNext ==
  TypeOK /\ ChainInv /\ WorkerInv /\ QuietInv /\ LocatedInv /\ [Next]_vars => QuietInv'
<1> SUFFICES ASSUME TypeOK, ChainInv, WorkerInv, QuietInv, LocatedInv, [Next]_vars,
                    NEW w \in Workers, worker'[w].pc = "exited", ~canceled',
                    NEW i \in IF StageOf[w] = 1
                              THEN {j \in early' : LaneOf[j] = LaneOf[w]} ELSE Task,
                    In(buf'[LaneOf[w]][StageOf[w]], i)
             PROVE  FALSE
  BY DEF QuietInv, Buffer
<1> DEFINE l == LaneOf[w]
           k == StageOf[w]
<1>1. l \in Lanes /\ k \in Stages /\ ~canceled /\ worker[w] \in WorkerState
  BY ShutdownAssumption, Steady DEF TypeOK
<1>2. CASE worker[w].pc = "exited"
  <2>1. k \in closed[l]
    BY <1>1, <1>2 DEF WorkerInv
  <2>2. k = 1 => i \in early
    <3>1. CASE k = 1 /\ i \notin early
      BY <2>1, <3>1, EarlyGains
    <3> QED
      BY <3>1
  <2>3. ~In(buf[l][k], i)
    BY <1>1, <1>2, <2>2 DEF QuietInv, Buffer
  <2>4. ~(k = 1 /\ Enqueue(i))
    BY <2>2 DEF LocatedInv, Enqueue
  <2>5. PICK v \in Workers : worker[v].pc = "send" /\ LaneOf[v] = l /\ k = StageOf[v] + 1
    BY <1>1, <2>3, <2>4, BufferGains
  <2>6. ~NextClosed(v)
    BY <2>5, NotRefused
  <2> QED
    BY <2>1, <2>5, <2>6 DEF NextClosed
<1>3. CASE worker[w].pc # "exited"
  <2>1. WorkerStep(w)
    BY <1>3, WorkerFrame, ProducerFrame, BatcherFrame, DrainFrame, MainFrame
    DEF Next, Exited, vars
  <2>2. DrainEmpty(w)
    <3>1. ASSUME NEW r, SetWorker(w, r) PROVE worker'[w] = r
      BY <3>1 DEF SetWorker, TypeOK
    <3>2. \A c \in BOOLEAN : AfterError(w, c).pc # "exited"
      BY DEF AfterError, IdleWorker
    <3>3. CASE Receive(w)
      BY <3>1, <3>3 DEF Receive
    <3>4. CASE ReceiveDone(w)
      BY <1>1, <3>1, <3>4 DEF ReceiveDone, WorkerState
    <3>5. CASE ReceiveCanceled(w) \/ HandCanceled(w)
      BY <1>1, <3>5 DEF ReceiveCanceled, HandCanceled
    <3>6. CASE CheckNext(w)
      BY <1>1, <3>1, <3>2, <3>6 DEF CheckNext, WorkerState
    <3>7. CASE SendGivesUp(w)
      BY <3>1, <3>2, <3>7 DEF SendGivesUp
    <3>8. CASE SendNext(w)
      <4>1. PICK x : SetWorker(w, IF worker[w].left = {x} THEN IdleWorker
                       ELSE [worker[w] EXCEPT !.pc = "check", !.left = @ \ {x}])
        BY <3>8 DEF SendNext
      <4>2. [worker[w] EXCEPT !.pc = "check", !.left = @ \ {x}].pc # "exited"
        BY <1>1 DEF WorkerState
      <4>3. IdleWorker.pc # "exited"
        BY DEF IdleWorker
      <4> QED
        BY <3>1, <4>1, <4>2, <4>3
    <3>9. CASE Hand(w)
      BY <3>1, <3>9 DEF Hand, IdleWorker
    <3> QED
      BY <2>1, <3>3, <3>4, <3>5, <3>6, <3>7, <3>8, <3>9 DEF WorkerStep
  <2>3. buf'[l][k] = <<>>
    BY <2>2 DEF DrainEmpty, Buffer
  <2> QED
    BY <2>3, InEmpty
<1> QED
  BY <1>2, <1>3

-----------------------------------------------------------------------------
(***************************************************************************)
(* No task is lost on its way.                                             *)
(***************************************************************************)
LEMMA AcceptedStay ==
  ASSUME TypeOK, LocatedInv, [Next]_vars, NEW j \in early'
  PROVE  producer'[j] = "accepted"
<1>1. producer \in [Jobs -> Busy \cup {"none", "accepted", "failed", "forgotten"}]
      /\ early \subseteq Jobs
  BY DEF TypeOK
<1>2. CASE j \notin early
  BY <1>1, <1>2, EarlyGains DEF Enqueue, SetProducer
<1>3. CASE j \in early
  <2>1. j \in Jobs /\ producer[j] = "accepted"
    BY <1>1, <1>3 DEF LocatedInv
  <2>2. ASSUME NEW i \in Jobs, Request(i) \/ ProducerStep(i) PROVE producer'[j] = "accepted"
    <3>1. i # j
      BY <2>1, <2>2 DEF ProducerStep, Request, SubmitClaimed, CheckOpen, Enqueue, GiveUp,
                        RecordRefusal
    <3>2. \E p : SetProducer(i, p)
      BY <2>2 DEF ProducerStep, Request, SubmitClaimed, CheckOpen, Enqueue, GiveUp,
                  RecordRefusal
    <3> QED
      BY <1>1, <2>1, <3>1, <3>2 DEF SetProducer
  <2>3. CASE Tick
    BY <2>1, <2>3 DEF Tick
  <2>4. CASE UNCHANGED producer
    BY <2>1, <2>4
  <2> QED
    BY <2>2, <2>3, <2>4, WorkerFrame, BatcherFrame, DrainFrame, MainFrame
    DEF Next, Exited, vars, SchedulerExit
<1> QED
  BY <1>2, <1>3

\* Steps of workers move tasks onward.
LEMMA LocatedWorkers ==
  ASSUME TypeOK, ChainInv, WorkerInv, ~canceled', NEW w \in Workers, WorkerStep(w),
         NEW j \in Jobs, NEW t \in Tokens, Located(j, t)
  PROVE  Located(j, t)'
<1>1. /\ worker[w] \in WorkerState /\ LaneOf[w] \in Lanes /\ StageOf[w] \in Stages
      /\ LaneOf[j] \in Lanes /\ 1 \in Stages /\ ~canceled
  BY ShutdownAssumption, WorkerFrame DEF TypeOK, Stages, process
<1>2. /\ \A v \in Workers : v # w => worker'[v] = worker[v]
      /\ UNCHANGED <<written, dropped>>
  BY WorkerFrame
<1>3. ASSUME NEW r, SetWorker(w, r) PROVE worker'[w] = r
  BY <1>3 DEF SetWorker, TypeOK
<1>4. ASSUME UNCHANGED <<buf, batch>>, worker[w].left \subseteq worker'[w].left
      PROVE  Located(j, t)'
  BY <1>2, <1>4 DEF Located
<1>5. CASE Receive(w)
  <2> DEFINE item == Head(Buffer(w))
  <2>1. /\ worker[w].left = {} /\ UNCHANGED batch
        /\ worker'[w].left = Output(StageOf[w], item)
    BY <1>3, <1>5 DEF Receive, At, WorkerInv, outcomes
  <2>2. Took(w, item)
    BY <1>5, ReceiveMoves
  <2> HIDE DEF item
  <2>3. CASE In(buf[LaneOf[j]][1], j)
    <3>1. In(buf'[LaneOf[j]][1], j) \/ (StageOf[w] = 1 /\ j = item)
      BY <1>1, <2>2, <2>3 DEF Took
    <3>2. StageOf[w] = 1 /\ j = item => <<j, t>> \in worker'[w].left
      BY <2>1 DEF Output
    <3> QED
      BY <3>1, <3>2 DEF Located
  <2>4. ASSUME NEW l \in Lanes, NEW k \in 2 .. 3, In(buf[l][k], <<j, t>>)
        PROVE  Located(j, t)'
    <3>1. k \in Stages /\ k # 1
      BY DEF Stages
    <3>2. In(buf'[l][k], <<j, t>>) \/ (StageOf[w] = k /\ <<j, t>> = item)
      BY <1>1, <2>2, <2>4, <3>1 DEF Took
    <3>3. StageOf[w] = k /\ <<j, t>> = item => <<j, t>> \in worker'[w].left
      BY <2>1, <3>1 DEF Output
    <3> QED
      BY <3>2, <3>3 DEF Located
  <2>5. CASE \E v \in Workers : <<j, t>> \in worker[v].left
    BY <1>2, <2>1, <2>5 DEF Located
  <2>6. CASE (\E l \in Lanes : <<j, t>> \in batch[l]) \/ <<j, t>> \in written \cup dropped
    BY <1>2, <2>1, <2>6 DEF Located
  <2> QED
    BY <2>3, <2>4, <2>5, <2>6 DEF Located
<1>6. CASE ReceiveDone(w) \/ DrainEmpty(w)
  BY <1>1, <1>3, <1>4, <1>6 DEF ReceiveDone, DrainEmpty, WorkerState, outcomes
<1>7. ~ReceiveCanceled(w) /\ ~HandCanceled(w)
  BY <1>1 DEF ReceiveCanceled, HandCanceled
<1>8. CASE CheckNext(w)
  <2>1. ~NextClosed(w)
    BY <1>8, NotRefused DEF CheckNext, At
  <2>2. worker'[w].left = worker[w].left
    BY <1>1, <1>3, <1>8, <2>1 DEF CheckNext, WorkerState
  <2> QED
    BY <1>4, <1>8, <2>2 DEF CheckNext, outcomes
<1>9. ~SendGivesUp(w)
  BY <1>1, NotRefused DEF SendGivesUp, At
<1>10. CASE SendNext(w)
  <2>1. PICK i \in worker[w].left :
          /\ i \in Task /\ StageOf[w] + 1 \in 2 .. 3
          /\ Put(LaneOf[w], StageOf[w] + 1, i)
          /\ worker[w].left = {i} => worker'[w] = IdleWorker
          /\ worker[w].left # {i} => worker'[w].left = worker[w].left \ {i}
    BY <1>10, SendMoves
  <2>2. PICK h \in Lanes, n \in 2 .. 3 : h = LaneOf[w] /\ n = StageOf[w] + 1
    BY <1>1, <2>1
  <2>3. n \in Stages /\ i \in Jobs \cup Task /\ Put(h, n, i)
    BY <2>1, <2>2 DEF Stages
  <2>4. \A m \in Lanes, o \in Stages : \A y :
          In(buf'[m][o], y) <=> In(buf[m][o], y) \/ (m = h /\ o = n /\ y = i)
    BY <2>3, PutMoves, ZenonT(60)
  <2>5. \A m \in Lanes, o \in Stages : \A y : In(buf[m][o], y) => In(buf'[m][o], y)
    BY <2>4
  <2>6. UNCHANGED batch
    BY <1>10 DEF SendNext, outcomes
  <2>7. CASE <<j, t>> \in worker[w].left
    <3>1. CASE <<j, t>> = i
      BY <2>3, <2>4, <3>1 DEF Located
    <3>2. CASE <<j, t>> # i
      BY <2>1, <2>7, <3>2 DEF Located
    <3> QED
      BY <3>1, <3>2
  <2>8. CASE \E v \in Workers : v # w /\ <<j, t>> \in worker[v].left
    BY <1>2, <2>8 DEF Located
  <2>9. CASE In(buf[LaneOf[j]][1], j)
    BY <1>1, <2>5, <2>9 DEF Located
  <2>10. CASE \E l \in Lanes, k \in 2 .. 3 : In(buf[l][k], <<j, t>>)
    <3>1. \A k \in 2 .. 3 : k \in Stages
      BY DEF Stages
    <3> QED
      BY <2>5, <2>10, <3>1 DEF Located
  <2>11. CASE (\E l \in Lanes : <<j, t>> \in batch[l]) \/ <<j, t>> \in written \cup dropped
    BY <1>2, <2>6, <2>11 DEF Located
  <2> QED
    BY <2>7, <2>8, <2>9, <2>10, <2>11 DEF Located
<1>11. CASE Hand(w)
  <2>1. /\ buf' = buf /\ batch' = [batch EXCEPT ![LaneOf[w]] = @ \cup worker[w].left]
    BY <1>11 DEF Hand
  <2>2. batch \in [Lanes -> SUBSET Task]
    BY DEF TypeOK
  <2>3. /\ \A l \in Lanes : batch[l] \subseteq batch'[l]
        /\ worker[w].left \subseteq batch'[LaneOf[w]]
    BY <1>1, <2>1, <2>2
  <2> QED
    BY <1>1, <1>2, <2>1, <2>3 DEF Located
<1> QED
  BY <1>5, <1>6, <1>7, <1>8, <1>9, <1>10, <1>11 DEF WorkerStep

LEMMA LocatedNext ==
  TypeOK /\ ChainInv /\ WorkerInv /\ LocatedInv /\ [Next]_vars => LocatedInv'
<1> SUFFICES ASSUME TypeOK, ChainInv, WorkerInv, LocatedInv, [Next]_vars, ~canceled',
                    NEW j \in early', NEW t \in Tokens
             PROVE  Located(j, t)'
  BY AcceptedStay DEF LocatedInv
<1>1. ~canceled /\ early \subseteq Jobs
  BY Steady DEF TypeOK
<1>2. CASE j \notin early
  <2>1. Enqueue(j) /\ j \in Jobs
    BY <1>2, EarlyGains
  <2>2. ASSUME NEW i \in Jobs, Enqueue(i) PROVE In(buf'[LaneOf[i]][1], i)
    <3>1. Put(LaneOf[i], 1, i) /\ LaneOf[i] \in Lanes /\ 1 \in Stages /\ i \in Jobs \cup Task
      BY <2>2, ShutdownAssumption DEF Enqueue, Stages
    <3>2. PICK h \in Lanes, n \in Stages : h = LaneOf[i] /\ n = 1
      BY <3>1
    <3>3. In(buf'[h][n], i)
      BY <3>1, <3>2, PutMoves
    <3> QED
      BY <3>2, <3>3
  <2> QED
    BY <2>1, <2>2 DEF Located
<1>3. CASE j \in early
  <2>1. Located(j, t) /\ j \in Jobs
    BY <1>1, <1>3 DEF LocatedInv
  <2>2. CASE \E w \in Workers : WorkerStep(w)
    BY <2>1, <2>2, LocatedWorkers
  <2>3. CASE \E l \in Lanes : BatcherStep(l)
    <3>1. PICK l \in Lanes : BatcherStep(l)
      BY <2>3
    <3>2. UNCHANGED <<buf, worker>> /\ written \subseteq written' /\ dropped \subseteq dropped'
      BY <3>1, BatcherFrame
    <3>3. \A m \in Lanes : batch[m] \subseteq batch'[m] \cup written' \cup dropped'
      BY <3>1, BatcherFrame
    <3> QED
      BY <2>1, <3>2, <3>3 DEF Located
  <2>4. ASSUME UNCHANGED <<worker, batch, written, dropped>>,
               \A l \in Lanes, k \in Stages : \A x : In(buf[l][k], x) => In(buf'[l][k], x)
        PROVE  Located(j, t)'
    <3>1. LaneOf[j] \in Lanes /\ 1 \in Stages /\ \A k \in 2 .. 3 : k \in Stages
      BY <2>1, ShutdownAssumption DEF Stages
    <3> QED
      BY <2>1, <2>4, <3>1 DEF Located
  <2>5. ASSUME NEW i \in Jobs, Enqueue(i)
        PROVE  \A l \in Lanes, k \in Stages : \A x : In(buf[l][k], x) => In(buf'[l][k], x)
    <3>1. Put(LaneOf[i], 1, i) /\ LaneOf[i] \in Lanes /\ 1 \in Stages /\ i \in Jobs \cup Task
      BY <2>5, ShutdownAssumption DEF Enqueue, Stages
    <3> QED
      BY <3>1, PutMoves
  <2>6. CASE (\E i \in Jobs : Request(i) \/ ProducerStep(i)) \/ Tick \/ SchedulerExit
    <3>1. UNCHANGED <<worker, batch, written, dropped>>
      BY <2>6, ProducerFrame DEF outcomes
    <3>2. CASE \E i \in Jobs : Enqueue(i)
      BY <2>4, <2>5, <3>1, <3>2
    <3>3. CASE ~(\E i \in Jobs : Enqueue(i))
      <4>1. UNCHANGED buf
        BY <2>6, <3>3 DEF ProducerStep, Request, Tick, SchedulerExit, SubmitClaimed, CheckOpen,
                          GiveUp, RecordRefusal
      <4> QED
        BY <2>4, <3>1, <4>1
    <3> QED
      BY <3>2, <3>3
  <2>7. CASE \E l \in Lanes : DrainStep(l)
    BY <2>4, <2>7, DrainFrame DEF outcomes
  <2>8. CASE Signal \/ MainStep \/ DrainTimeout
    BY <2>4, <2>8, MainFrame DEF outcomes
  <2>9. CASE UNCHANGED vars
    BY <2>4, <2>9 DEF vars, outcomes
  <2> QED
    BY <2>2, <2>3, <2>6, <2>7, <2>8, <2>9 DEF Next, Exited
<1> QED
  BY <1>2, <1>3

-----------------------------------------------------------------------------
(***************************************************************************)
(* The theorems.                                                           *)
(***************************************************************************)
IInv == TypeOK /\ DrainInv

LEMMA InitInv == Init => IInv
<1> SUFFICES ASSUME Init PROVE IInv
  OBVIOUS
<1>1. /\ main = "running" /\ canceled = FALSE /\ storeOpen = TRUE /\ graceful = FALSE
      /\ early = {}
      /\ \A l \in Lanes : drained[l] = 0 /\ closed[l] = {} /\ batcher[l] = "select"
      /\ \A w \in Workers : worker[w] = IdleWorker
  BY DEF Init
<1>2. ChainInv
  BY <1>1 DEF ChainInv, Stages
<1>3. MainInv
  BY <1>1 DEF MainInv
<1>4. WorkerInv /\ QuietInv
  BY <1>1 DEF WorkerInv, QuietInv, IdleWorker
<1>5. BatcherInv /\ LocatedInv
  BY <1>1 DEF BatcherInv, LocatedInv
<1> QED
  BY <1>2, <1>3, <1>4, <1>5, TypeInit DEF IInv, DrainInv

LEMMA StepInv == IInv /\ [Next]_vars => IInv'
BY TypeNext, ChainNext, MainNext, WorkerNext, BatcherNext, QuietNext, LocatedNext
DEF IInv, DrainInv

THEOREM Invariance == Spec => []IInv
<1> QED
  BY InitInv, StepInv, PTL DEF Spec

\* The chains drain in order, workers and batchers end only when their stage is
\* closed and empty, and every accepted task is somewhere
\* (pipeline/memory.go:40-90, shutdown.go:27-37, main.go:226-254).
THEOREM DrainInOrder == Spec => []DrainInv
<1>1. IInv => DrainInv
  BY DEF IInv
<1> QED
  BY <1>1, Invariance, PTL

\* TypeOK holds whatever the workers, jobs and lanes.
THEOREM TypeCorrect == Spec => []TypeOK
<1>1. IInv => TypeOK
  BY DEF IInv
<1> QED
  BY <1>1, Invariance, PTL

\* No worker submits into a closed pipeline (shutdown.go:27-29).
THEOREM WorkersNotRefused == Spec => []NoWorkerRefused
<1>1. IInv => NoWorkerRefused
  BY NotRefused DEF IInv, DrainInv, NoWorkerRefused
<1> QED
  BY <1>1, Invariance, PTL

\* When every chain is drained every worker has ended.
LEMMA DrainedExited ==
  ASSUME IInv, \A l \in Lanes : drained[l] = 3, ~canceled
  PROVE  /\ \A w \in Workers : worker[w].pc = "exited"
         /\ \A l \in Lanes : batcher[l] = "exited"
<1>1. \A l \in Lanes, k \in Stages : StageExited(l, k)
  BY DEF IInv, DrainInv, ChainInv, Stages
<1>2. \A l \in Lanes : batcher[l] = "exited"
  BY <1>1 DEF StageExited, Stages
<1>3. \A l \in Lanes : ReceiverExited(l)
  BY <1>2 DEF IInv, DrainInv, BatcherInv
<1>4. ASSUME NEW w \in Workers PROVE worker[w].pc = "exited"
  <2>1. LaneOf[w] \in Lanes /\ StageOf[w] \in Stages
    BY ShutdownAssumption
  <2>2. CASE StageOf[w] = 3
    BY <1>3, <2>1, <2>2 DEF ReceiverExited
  <2>3. CASE StageOf[w] # 3
    BY <1>1, <2>1, <2>3 DEF StageExited
  <2> QED
    BY <2>2, <2>3
<1> QED
  BY <1>2, <1>4

\* The store is closed only after every worker of every lane has ended
\* (main.go:244-250).
THEOREM StoreOutlivesWorkers == Spec => []StoreClosedLast
<1>1. ASSUME IInv, ~storeOpen
      PROVE  /\ \A w \in Workers : worker[w].pc = "exited" \/ canceled
             /\ \A l \in Lanes : batcher[l] = "exited"
  <2>1. \A l \in Lanes : drained[l] = 3
    BY <1>1 DEF IInv, DrainInv, MainInv
  <2>2. \A l \in Lanes : batcher[l] = "exited"
    <3>1. \A l \in Lanes : StageExited(l, 3)
      BY <1>1, <2>1 DEF IInv, DrainInv, ChainInv, Stages
    <3> QED
      BY <3>1 DEF StageExited
  <2> QED
    BY <1>1, <2>1, <2>2, DrainedExited
<1>2. IInv => StoreClosedLast
  BY <1>1 DEF StoreClosedLast
<1> QED
  BY <1>2, Invariance, PTL

\* A graceful exit leaves no task of a job accepted in time behind
\* (shutdown.go:30-37, main.go:226-254).
THEOREM NothingLeftBehind == Spec => []GracefulDrain
<1>1. ASSUME IInv, graceful, NEW j \in early, NEW t \in Tokens
      PROVE  <<j, t>> \in written \cup dropped
  <2>1. /\ ~canceled /\ \A l \in Lanes : drained[l] = 3
        /\ j \in Jobs /\ LaneOf[j] \in Lanes /\ <<j, t>> \in Task /\ Located(j, t)
    <3>1. ~canceled /\ ~storeOpen
      BY <1>1 DEF IInv, DrainInv, MainInv
    <3>2. \A l \in Lanes : drained[l] = 3
      BY <1>1, <3>1 DEF IInv, DrainInv, MainInv
    <3>3. j \in Jobs /\ Located(j, t)
      BY <1>1, <3>1 DEF IInv, DrainInv, LocatedInv, TypeOK
    <3> QED
      BY <3>1, <3>2, <3>3, ShutdownAssumption DEF Task
  <2>2. /\ \A w \in Workers : worker[w].pc = "exited"
        /\ \A l \in Lanes : batcher[l] = "exited"
    BY <1>1, <2>1, DrainedExited
  <2>3. \A w \in Workers : worker[w].left = {}
    BY <1>1, <2>1, <2>2 DEF IInv, DrainInv, WorkerInv
  <2>4. \A l \in Lanes : batch[l] \subseteq written \cup dropped
    BY <1>1, <2>1, <2>2 DEF IInv, DrainInv, BatcherInv
  <2>5. ~In(buf[LaneOf[j]][1], j)
    <3>1. PICK w \in Workers : LaneOf[w] = LaneOf[j] /\ StageOf[w] = 1
      BY <2>1, ShutdownAssumption DEF Stages
    <3> QED
      BY <1>1, <2>1, <2>2, <3>1 DEF IInv, DrainInv, QuietInv, Buffer
  <2>6. \A l \in Lanes, k \in 2 .. 3 : ~In(buf[l][k], <<j, t>>)
    <3>1. ASSUME NEW l \in Lanes, NEW k \in 2 .. 3 PROVE ~In(buf[l][k], <<j, t>>)
      <4>1. k \in Stages /\ k # 1
        BY DEF Stages
      <4>2. PICK w \in Workers : LaneOf[w] = l /\ StageOf[w] = k
        BY <4>1, ShutdownAssumption
      <4> QED
        BY <1>1, <2>1, <2>2, <4>1, <4>2 DEF IInv, DrainInv, QuietInv, Buffer
    <3> QED
      BY <3>1
  <2> QED
    BY <2>1, <2>3, <2>4, <2>5, <2>6 DEF Located
<1>2. IInv => GracefulDrain
  BY <1>1 DEF GracefulDrain
<1> QED
  BY <1>2, Invariance, PTL
=============================================================================
