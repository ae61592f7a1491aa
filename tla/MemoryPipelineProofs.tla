------------------------ MODULE MemoryPipelineProofs ------------------------
(***************************************************************************)
(* Proofs about MemoryPipeline, for any number of goroutines and items and *)
(* any size of the buffer.                                                 *)
(***************************************************************************)
EXTENDS MemoryPipeline, TLAPS

\* What the channel, the flag done and the history have to do with each other.
DoneInv ==
  /\ owed <= Len(channel)
  /\ \A g \in Procs : pc[g] = "drain" => done
  /\ ClosedMeansDrained
  /\ late # {} => done
  /\ LateSubmitRefused

Inv == TypeOK /\ DoneInv

-----------------------------------------------------------------------------
LEMMA TypeInit == Init => TypeOK
<1> SUFFICES ASSUME Init PROVE TypeOK
  OBVIOUS
<1>1. \A n \in BufferSizes : NormalizedSize(n) \in Nat
  BY MemoryPipelineAssumption DEF NormalizedSize
<1>2. /\ capacity \in Nat /\ channel = <<>> /\ done = FALSE /\ canceled = {}
      /\ used = {} /\ retries = 0 /\ owed = 0 /\ late = {}
  BY <1>1 DEF Init
<1>3. /\ pc = [g \in Procs |-> "idle"] /\ item = [g \in Procs |-> Nothing]
      /\ result = [g \in Procs |-> "none"]
  BY DEF Init
<1>4. channel \in Seq(Items) /\ Len(channel) = 0
  BY <1>2
<1>5. /\ pc \in [Procs -> PCs] /\ result \in [Procs -> Results]
      /\ \A g \in Procs : pc[g] = "idle" /\ result[g] = "none"
  BY <1>3 DEF PCs, Results
<1>6. item \in [Procs -> Items \cup {Nothing}]
  BY <1>3
<1>7. channel \in Seq(Items) /\ Len(channel) <= capacity
  BY <1>2, <1>4
<1>8. done \in BOOLEAN /\ canceled \subseteq Procs /\ late \subseteq Procs /\ used \subseteq Items
  BY <1>2
<1>9. retries \in Nat /\ owed \in Nat
  BY <1>2
<1> QED
  BY <1>2, <1>5, <1>6, <1>7, <1>8, <1>9 DEF TypeOK

\* Submit and Retry keep the types.
LEMMA TypeSubmit ==
  ASSUME TypeOK, NEW g \in Procs,
         (\E i \in Items : StartSubmit(g, i)) \/ Retry(g) \/ SubmitStep(g)
  PROVE  TypeOK'
<1> USE DEF Goto, Return, PCs, Results, callState, history
<1>1. CASE \E i \in Items : StartSubmit(g, i)
  BY <1>1 DEF StartSubmit, Began, TypeOK
<1>2. CASE Retry(g)
  BY <1>2 DEF Retry, Began, TypeOK
<1>3. CASE CheckDone(g)
  BY <1>3 DEF CheckDone, TypeOK
<1>4. CASE SendBuffered(g)
  <2>1. channel' = Append(channel, item[g]) /\ item[g] \in Items /\ Len(channel) < capacity
    BY <1>4 DEF SendBuffered, TypeOK
  <2>2. channel' \in Seq(Items) /\ Len(channel') <= capacity'
    BY <1>4, <2>1 DEF SendBuffered, TypeOK
  <2> QED
    BY <1>4, <2>2 DEF SendBuffered, TypeOK
<1>5. CASE SendGivesUp(g)
  BY <1>5 DEF SendGivesUp, TypeOK
<1> QED
  BY <1>1, <1>2, <1>3, <1>4, <1>5 DEF SubmitStep

\* Receive, Close and the end of a context keep the types.
LEMMA TypeReceive ==
  ASSUME TypeOK, NEW g \in Procs,
         StartReceive(g) \/ ReceiveStep(g) \/ Cancel(g) \/ Close
  PROVE  TypeOK'
<1> USE DEF Goto, Return, PCs, Results, callState, history
<1>1. CASE StartReceive(g)
  BY <1>1 DEF StartReceive, TypeOK
<1>2. CASE ReceiveBuffered(g)
  <2>1. /\ channel \in Seq(Items) /\ channel # <<>> /\ channel' = Tail(channel)
        /\ Len(channel) <= capacity /\ capacity \in Nat /\ capacity' = capacity
    BY <1>2 DEF ReceiveBuffered, TypeOK
  <2>2. /\ channel' \in Seq(Items) /\ Len(channel') <= capacity'
        /\ Head(channel) \in Items
    BY <2>1
  <2> QED
    BY <1>2, <2>1, <2>2 DEF ReceiveBuffered, TypeOK
<1>3. CASE \E s \in Procs : HandOver(s, g)
  BY <1>3 DEF HandOver, TypeOK
<1>4. CASE ReceiveCanceled(g)
  BY <1>4 DEF ReceiveCanceled, TypeOK
<1>5. CASE ReceiveDone(g)
  BY <1>5 DEF ReceiveDone, TypeOK
<1>6. CASE DrainEmpty(g)
  BY <1>6 DEF DrainEmpty, TypeOK
<1>7. CASE Cancel(g)
  BY <1>7, MemoryPipelineAssumption DEF Cancel, TypeOK
<1>8. CASE Close
  <2>1. owed' \in Nat
    BY <1>8 DEF Close, TypeOK
  <2> QED
    BY <1>8, <2>1 DEF Close, TypeOK
<1> QED
  BY <1>1, <1>2, <1>3, <1>4, <1>5, <1>6, <1>7, <1>8 DEF ReceiveStep

LEMMA TypeNext == TypeOK /\ [Next]_vars => TypeOK'
<1> SUFFICES ASSUME TypeOK, [Next]_vars PROVE TypeOK'
  OBVIOUS
<1>1. CASE UNCHANGED vars
  BY <1>1 DEF vars, callState, history, TypeOK
<1>2. CASE Close /\ Procs = {}
  BY <1>2 DEF Close, TypeOK, callState
<1> QED
  BY <1>1, <1>2, TypeSubmit, TypeReceive DEF Next

\* A pipeline never holds more than its capacity, a goroutine that submits has
\* something to submit, and NewMemoryPipeline accepts any size.
THEOREM TypeCorrect == Spec => []TypeOK
BY TypeInit, TypeNext, PTL DEF Spec

-----------------------------------------------------------------------------
LEMMA DoneInit == Init => DoneInv
BY DEF Init, DoneInv, ClosedMeansDrained, LateSubmitRefused

LEMMA DoneSubmit ==
  ASSUME TypeOK, DoneInv, NEW g \in Procs,
         (\E i \in Items : StartSubmit(g, i)) \/ Retry(g) \/ SubmitStep(g)
  PROVE  DoneInv'
<1> USE DEF Goto, Return, callState, history, TypeOK, DoneInv, ClosedMeansDrained, LateSubmitRefused
<1>1. CASE \E i \in Items : StartSubmit(g, i)
  BY <1>1 DEF StartSubmit, Began
<1>2. CASE Retry(g)
  BY <1>2 DEF Retry, Began
<1>3. CASE CheckDone(g)
  BY <1>3 DEF CheckDone
<1>4. CASE SendBuffered(g)
  <2>1. Len(channel') = Len(channel) + 1 /\ Len(channel) \in Nat
    BY <1>4 DEF SendBuffered
  <2> QED
    BY <1>4, <2>1 DEF SendBuffered
<1>5. CASE SendGivesUp(g)
  BY <1>5 DEF SendGivesUp
<1> QED
  BY <1>1, <1>2, <1>3, <1>4, <1>5 DEF SubmitStep

LEMMA DoneReceive ==
  ASSUME TypeOK, DoneInv, NEW g \in Procs,
         StartReceive(g) \/ ReceiveStep(g) \/ Cancel(g) \/ Close
  PROVE  DoneInv'
<1> USE DEF Goto, Return, callState, history, TypeOK, DoneInv, ClosedMeansDrained, LateSubmitRefused
<1>1. CASE StartReceive(g)
  BY <1>1 DEF StartReceive
<1>2. CASE ReceiveBuffered(g)
  <2>1. Len(channel') = Len(channel) - 1 /\ Len(channel) \in Nat \ {0}
    BY <1>2 DEF ReceiveBuffered
  <2>2. owed' <= Len(channel') /\ (owed = 0 => owed' = 0)
    BY <1>2, <2>1 DEF ReceiveBuffered
  <2> QED
    BY <1>2, <2>2 DEF ReceiveBuffered
<1>3. CASE \E s \in Procs : HandOver(s, g)
  BY <1>3 DEF HandOver
<1>4. CASE ReceiveCanceled(g)
  BY <1>4 DEF ReceiveCanceled
<1>5. CASE ReceiveDone(g)
  BY <1>5 DEF ReceiveDone
<1>6. CASE DrainEmpty(g)
  <2>1. Len(channel) = 0 /\ owed = 0
    BY <1>6 DEF DrainEmpty
  <2> QED
    BY <1>6, <2>1 DEF DrainEmpty
<1>7. CASE Cancel(g)
  BY <1>7 DEF Cancel
<1>8. CASE Close
  BY <1>8 DEF Close
<1> QED
  BY <1>1, <1>2, <1>3, <1>4, <1>5, <1>6, <1>7, <1>8 DEF ReceiveStep

LEMMA DoneNext == TypeOK /\ DoneInv /\ [Next]_vars => DoneInv'
<1> SUFFICES ASSUME TypeOK, DoneInv, [Next]_vars PROVE DoneInv'
  OBVIOUS
<1>1. CASE UNCHANGED vars
  BY <1>1 DEF vars, callState, history, DoneInv, ClosedMeansDrained, LateSubmitRefused
<1>2. CASE Close /\ Procs = {}
  BY <1>2 DEF Close, TypeOK, callState, DoneInv, ClosedMeansDrained, LateSubmitRefused
<1> QED
  BY <1>1, <1>2, DoneSubmit, DoneReceive DEF Next

LEMMA Invariance == Spec => []Inv
BY TypeInit, TypeNext, DoneInit, DoneNext, PTL DEF Spec, Inv

\* A receiver whose context has not ended gets ErrClosed only from a closed
\* pipeline, and not while something is there that was buffered when it was
\* closed (memory.go:47-55).
THEOREM DrainsBeforeClosed == Spec => []ClosedMeansDrained
<1>1. Inv => ClosedMeansDrained
  BY DEF Inv, DoneInv
<1> QED
  BY <1>1, Invariance, PTL

\* A Submit that begins after Close never puts anything into the pipeline.
THEOREM RefusesLateSubmits == Spec => []LateSubmitRefused
<1>1. Inv => LateSubmitRefused
  BY DEF Inv, DoneInv
<1> QED
  BY <1>1, Invariance, PTL

-----------------------------------------------------------------------------
(***************************************************************************)
(* The pipeline implements the closable bounded queue.                     *)
(***************************************************************************)
Shut == done /\ \A g \in Procs : pc[g] # "send"
QueueVars == <<capacity, channel, Shut>>

LEMMA QueueSubmit ==
  ASSUME TypeOK, NEW g \in Procs,
         (\E i \in Items : StartSubmit(g, i)) \/ Retry(g) \/ SubmitStep(g)
  PROVE  Queue!Next \/ UNCHANGED QueueVars
<1> USE DEF Goto, Return, callState, history, TypeOK, Shut, QueueVars
<1>1. CASE \E i \in Items : StartSubmit(g, i)
  BY <1>1 DEF StartSubmit
<1>2. CASE Retry(g)
  BY <1>2 DEF Retry
<1>3. CASE CheckDone(g)
  BY <1>3 DEF CheckDone
<1>4. CASE SendBuffered(g)
  <2>1. PICK i \in Items :
          /\ pc[g] = "send" /\ capacity' = capacity
          /\ Len(channel) < capacity /\ channel' = Append(channel, i)
    BY <1>4 DEF SendBuffered
  <2>2. ~Shut /\ Shut' \in BOOLEAN
    BY <2>1
  <2>3. Queue!Put(i)
    BY <2>1, <2>2 DEF Queue!Put
  <2> QED
    BY <2>3 DEF Queue!Next
<1>5. CASE SendGivesUp(g)
  <2>1. UNCHANGED <<capacity, channel, done>> /\ pc' = [pc EXCEPT ![g] = "idle"]
    BY <1>5 DEF SendGivesUp
  <2>2. \A h \in Procs : pc'[h] = "send" => pc[h] = "send"
    BY <2>1
  <2>3. CASE Shut' = Shut
    BY <2>1, <2>3
  <2>4. CASE Shut' = TRUE
    BY <2>1, <2>4 DEF Queue!Next, Queue!Shut
  <2> QED
    BY <2>1, <2>2, <2>3, <2>4
<1> QED
  BY <1>1, <1>2, <1>3, <1>4, <1>5 DEF SubmitStep

LEMMA QueueClose ==
  ASSUME Close PROVE Queue!Next \/ UNCHANGED QueueVars
<1>1. UNCHANGED <<capacity, channel, pc>> /\ done' = TRUE
  BY DEF Close, callState
<1>2. CASE \A g \in Procs : pc[g] # "send"
  <2>1. Queue!Shut
    BY <1>1, <1>2 DEF Queue!Shut
  <2> QED
    BY <2>1 DEF Queue!Next
<1>3. CASE \E g \in Procs : pc[g] = "send"
  BY <1>1, <1>3 DEF Shut, QueueVars
<1> QED
  BY <1>2, <1>3

LEMMA QueueReceive ==
  ASSUME TypeOK, DoneInv, NEW g \in Procs,
         StartReceive(g) \/ ReceiveStep(g) \/ Cancel(g) \/ Close
  PROVE  Queue!Next \/ UNCHANGED QueueVars
<1> USE DEF Goto, Return, callState, history, TypeOK, Shut, QueueVars
<1>1. CASE StartReceive(g)
  BY <1>1 DEF StartReceive
<1>2. CASE ReceiveBuffered(g)
  <2>1. /\ UNCHANGED <<capacity, done>> /\ channel # <<>> /\ channel' = Tail(channel)
        /\ pc[g] \in {"receive", "drain"} /\ pc' = [pc EXCEPT ![g] = "idle"]
    BY <1>2 DEF ReceiveBuffered
  <2>2. Shut' = Shut
    BY <2>1
  <2>3. Queue!Take
    BY <2>1, <2>2 DEF Queue!Take
  <2> QED
    BY <2>3 DEF Queue!Next
<1>3. CASE \E s \in Procs : HandOver(s, g)
  <2>1. UNCHANGED <<capacity, channel, done>>
    BY <1>3 DEF HandOver
  <2>2. \A h \in Procs : pc'[h] = "send" => pc[h] = "send"
    BY <1>3 DEF HandOver
  <2>3. CASE Shut' = Shut
    BY <2>1, <2>3
  <2>4. CASE Shut' = TRUE
    BY <2>1, <2>4 DEF Queue!Next, Queue!Shut
  <2> QED
    BY <2>1, <2>2, <2>3, <2>4
<1>4. CASE ReceiveCanceled(g)
  BY <1>4 DEF ReceiveCanceled
<1>5. CASE ReceiveDone(g)
  BY <1>5 DEF ReceiveDone
<1>6. CASE DrainEmpty(g)
  BY <1>6 DEF DrainEmpty
<1>7. CASE Cancel(g)
  BY <1>7 DEF Cancel
<1>8. CASE Close
  BY QueueClose, <1>8
<1> QED
  BY <1>1, <1>2, <1>3, <1>4, <1>5, <1>6, <1>7, <1>8 DEF ReceiveStep

LEMMA QueueNext == TypeOK /\ DoneInv /\ [Next]_vars => [Queue!Next]_QueueVars
<1> SUFFICES ASSUME TypeOK, DoneInv, [Next]_vars
             PROVE  Queue!Next \/ UNCHANGED QueueVars
  OBVIOUS
<1>1. CASE UNCHANGED vars
  BY <1>1 DEF vars, callState, history, Shut, QueueVars
<1>2. CASE Close
  BY <1>2, QueueClose
<1> QED
  BY <1>1, <1>2, QueueSubmit, QueueReceive DEF Next

LEMMA QueueInit == Init => Queue!Init
<1> SUFFICES ASSUME Init PROVE Queue!Init
  OBVIOUS
<1>1. capacity \in Nat
  BY TypeInit DEF TypeOK
<1> QED
  BY <1>1 DEF Init, Queue!Init

\* With the linearisation of the shut flag chosen in ImplementsQueue, every
\* step of the pipeline is a step of the queue or leaves it alone.
THEOREM QueueImplemented == Spec => ImplementsQueue
<1>1. Inv /\ [Next]_vars => [Queue!Next]_QueueVars
  BY QueueNext DEF Inv
<1> QED
  BY <1>1, QueueInit, Invariance, PTL DEF Spec, ImplementsQueue, Queue!Spec, QueueVars, Shut
=============================================================================
