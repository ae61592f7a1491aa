-------------------------- MODULE LADispatchProofs --------------------------
(***************************************************************************)
(* The live activity lane, proved for every number of requests, tokens and *)
(* masters, every page size, and any number of failing calls and crashes.  *)
(* Only what depends on the outcome counters assumes that the commit of a  *)
(* batch of outcomes ("apply") is never ambiguous.                         *)
(***************************************************************************)
EXTENDS LADispatch, FiniteSetTheorems, TLAPS

Queued(d) == \E i \in DOMAIN jobQ : jobQ[i] = d

\* A request that the pipeline has taken, or may have.
Handed == {"mark", "accepted", "gone"}

(***************************************************************************)
(* Requests and job rows: only a start has a job row, under its own name;  *)
(* the job of a request is one that was asked for before; the start that   *)
(* holds the lock of the scope knows every active job.                     *)
(***************************************************************************)
Handler(r) ==
  /\ req[r].pc \in {"idle", "insert"} => req[r].job = r /\ job[r] = "NONE"
  /\ req[r].pc = "insert" => req[r].action = "start" /\ Active \subseteq req[r].closing
  /\ job[r] # "NONE" => req[r].action = "start" /\ req[r].job = r
  /\ req[r].pc # "idle" => req[JobOf(r)].pc # "idle"
  /\ req[r].pc = "alreadyStarted" => req[JobOf(r)].act = req[r].act
Handlers ==
  /\ \A r \in Requests : Handler(r)
  /\ \A r, s \in Requests : req[r].pc = "insert" /\ req[s].pc = "insert" => r = s

(***************************************************************************)
(* Where a dispatch is: its request, its place in the pipeline, the state  *)
(* of its fan-out and the status of its row go together.                   *)
(***************************************************************************)
Placed(d) ==
  LET st == row[d].status
      at == fan[d].pc
  IN  /\ Queued(d) => at = "idle" /\ st \in {"ENQUEUE_PENDING", "QUEUED"}
      /\ Queued(d) \/ at # "idle" => req[d].pc \in Handed
      /\ at = "idle" => /\ fan[d] = NoFan /\ Emitted(d) = {}
                        /\ st \in {"NONE", "ENQUEUE_PENDING", "QUEUED", "FAILED"}
      /\ at \in {"guard", "progress"} => st \in {"ENQUEUE_PENDING", "QUEUED"}
      /\ at \in {"check", "scope", "page", "complete"} => st = "IN_PROGRESS"
      /\ req[d].pc \in {"idle", "insert", "touch", "row"} => st = "NONE"
      /\ req[d].pc \in {"submit", "markFailed"} => st = "ENQUEUE_PENDING"
      /\ st \in Superseding => req[d].pc \in Handed
QueuedOnce == \A i, k \in DOMAIN jobQ : jobQ[i] = jobQ[k] => i = k

(***************************************************************************)
(* The counters: of what was emitted, what is not counted yet is on its    *)
(* way or was lost in a crash; of a start, nothing is counted whose device *)
(* is not associated with the activity.  Both need commits of outcomes     *)
(* that report an error only when they took no effect.                     *)
(***************************************************************************)
Out(d) == {t \in Tokens : send[d][t] = "task" \/ <<d, t>> \in pending}
Missed(d) ==
  {t \in Tokens : /\ send[d][t] = "ok" /\ Kind[t] = "fcm" /\ req[d].action = "start"
                  /\ <<ActivityOf(d), t>> \notin assoc}
Known(d) == row[d].succ + row[d].fail
Tally(d) ==
  LET emitted == Cardinality(Emitted(d))
  IN  /\ \A t \in Tokens : <<d, t>> \in pending => send[d][t] \in {"ok", "invalidToken", "refused"}
      /\ fan[d].count <= emitted
      /\ d \in Running => fan[d].count = emitted /\ \A t \in Emitted(d) : t <= fan[d].cursor
      /\ "apply" \notin Unsure /\ crashes = 0 => Known(d) + Cardinality(Out(d)) = emitted
      /\ "apply" \notin Unsure => Known(d) + Cardinality(Out(d) \cup Missed(d)) <= emitted
Totals(d) ==
  LET st == row[d].status
  IN  /\ st \in {"DISPATCHED", "COMPLETED", "SUPERSEDED"} =>
           row[d].total = Cardinality(Emitted(d))
      /\ st = "COMPLETED" => Known(d) >= row[d].total
      /\ st = "DISPATCHED" => Known(d) < row[d].total

(***************************************************************************)
(* Updates: one is superseded only by a newer one that reached the         *)
(* pipeline; the fan-out passes over no device that shows the activity.    *)
(***************************************************************************)
Replaced(d) ==
  row[d].status = "SUPERSEDED" =>
    \E e \in Requests : e > d /\ JobOf(e) = JobOf(d) /\ Reached(e)

Dead(t) == \E e \in Requests : send[e][t] = "invalidToken"
Steady == UpdateTokens \ Volatile
Sweeping == {"idle", "guard", "progress", "check", "scope", "page"}
Swept(d) ==
  req[d].action = "update" /\ JobOf(d) \in Past =>
    /\ fan[d].pc \in Sweeping =>
         \A t \in Steady : t <= fan[d].cursor => t \in Emitted(d) \/ Dead(t)
    /\ fan[d].pc = "complete" \/ row[d].status \in {"DISPATCHED", "COMPLETED"} =>
         \A t \in Steady : t \in Emitted(d) \/ Dead(t)
Kept ==
  /\ \A t \in Steady : t \in valid \/ Dead(t)
  /\ \A r \in Past : /\ req[r].pc = "accepted" /\ req[r].action = "start" /\ req[r].job = r
                     /\ \A t \in UpdateTokens : <<req[r].act, t>> \in assoc

InLane(d) == Placed(d) /\ Tally(d) /\ Totals(d) /\ Replaced(d) /\ Swept(d)
Dispatches == \A d \in Requests : InLane(d)
IInv == TypeOK /\ Handlers /\ QueuedOnce /\ Kept /\ Dispatches

-----------------------------------------------------------------------------
(***************************************************************************)
(* Types.                                                                  *)
(***************************************************************************)
RowState == [status : DispatchStatus, total : Nat, succ : Nat, fail : Nat]
ReqState == [pc : RequestPC, action : Actions, act : Activities,
             job : Requests, closing : SUBSET Requests]
FanState == [pc : FanoutPC, cursor : Nat, wide : BOOLEAN, count : Nat]
SendState == {"none", "task", "lost", "ok"} \cup Results

LEMMA ConstantTypes ==
  /\ IsFiniteSet(Requests) /\ Past \subseteq Requests
  /\ \A r \in Requests : r \in Nat \ {0}
  /\ Activities # {} /\ \A r \in Requests : Menu[r] \subseteq Wanted
  /\ IsFiniteSet(Tokens) /\ \A t \in Tokens : t \in Nat \ {0}
  /\ Volatile \subseteq Tokens
  /\ Kind \in [Tokens -> {"start", "update", "fcm"}]
  /\ Results \subseteq {"ok", "invalidToken", "refused"}
  /\ Masters \in Nat \ {0} /\ BatchSize \in Nat \ {0}
  /\ MaxFaults \in Nat /\ MaxCrashes \in Nat
BY LADispatchAssumption

LEMMA TypeParts ==
  ASSUME TypeOK
  PROVE  /\ job \in [Requests -> JobStatus] /\ row \in [Requests -> RowState]
         /\ valid \subseteq Tokens /\ assoc \subseteq Activities \X Tokens
         /\ req \in [Requests -> ReqState] /\ fan \in [Requests -> FanState]
         /\ jobQ \in Seq(Requests) /\ send \in [Requests -> [Tokens -> SendState]]
         /\ pending \subseteq Requests \X Tokens /\ faults \in Nat /\ crashes \in Nat
         /\ Cardinality(Running) <= Masters
         /\ \A d \in Requests : fan[d].count <= Cardinality(Tokens)
BY DEF TypeOK, RowState, ReqState, FanState, SendState

LEMMA AtTypes ==
  ASSUME TypeOK, NEW d \in Requests
  PROVE  /\ job[d] \in JobStatus
         /\ row[d].status \in DispatchStatus /\ row[d].total \in Nat
         /\ row[d].succ \in Nat /\ row[d].fail \in Nat /\ Known(d) \in Nat
         /\ req[d].pc \in RequestPC /\ req[d].action \in Actions
         /\ req[d].act \in Activities /\ JobOf(d) \in Requests
         /\ req[d].closing \subseteq Requests
         /\ fan[d].pc \in FanoutPC /\ fan[d].cursor \in Nat /\ fan[d].count \in Nat
         /\ \A t \in Tokens : send[d][t] \in SendState
BY TypeParts DEF RowState, ReqState, FanState, Known, JobOf

LEMMA CallTypes ==
  ASSUME TypeOK, NEW name, NEW answer, Call(name, answer)
  PROVE  faults' \in Nat
BY TypeParts DEF Call

\* Sets of tokens are finite; sizes are natural numbers.
LEMMA TokenSets ==
  ASSUME NEW S \in SUBSET Tokens
  PROVE  /\ IsFiniteSet(S) /\ Cardinality(S) \in Nat
         /\ Cardinality(S) <= Cardinality(Tokens)
         /\ \A T \in SUBSET S : Cardinality(T) <= Cardinality(S)
<1>1. IsFiniteSet(Tokens)
  BY ConstantTypes
<1>2. IsFiniteSet(S) /\ Cardinality(S) <= Cardinality(Tokens)
  BY <1>1, FS_Subset
<1> QED
  BY <1>2, FS_CardinalityType, FS_Subset

LEMMA Disjoint ==
  ASSUME NEW S \in SUBSET Tokens, NEW T \in SUBSET Tokens, S \cap T = {}
  PROVE  Cardinality(S \cup T) = Cardinality(S) + Cardinality(T)
<1>1. IsFiniteSet(S) /\ IsFiniteSet(T)
  BY TokenSets
<1>2. Cardinality(S \cup T) = Cardinality(S) + Cardinality(T) - Cardinality(S \cap T)
  BY <1>1, FS_Union
<1>3. Cardinality(S \cap T) = 0
  BY FS_EmptySet
<1>4. Cardinality(S) \in Nat /\ Cardinality(T) \in Nat
  BY TokenSets
<1> QED
  BY <1>2, <1>3, <1>4

LEMMA SetsOf ==
  ASSUME NEW d
  PROVE  /\ Emitted(d) \subseteq Tokens /\ Out(d) \subseteq Tokens /\ Missed(d) \subseteq Tokens
         /\ Cardinality(Emitted(d)) \in Nat /\ Cardinality(Out(d)) \in Nat
         /\ Cardinality(Out(d) \cup Missed(d)) \in Nat
<1>1. Emitted(d) \subseteq Tokens /\ Out(d) \subseteq Tokens /\ Missed(d) \subseteq Tokens
  BY DEF Emitted, Out, Missed
<1> QED
  BY <1>1, TokenSets

-----------------------------------------------------------------------------
(***************************************************************************)
(* Frames: what keeps the parts of the invariant that a step does not      *)
(* touch.                                                                  *)
(***************************************************************************)

\* Nothing is sent or counted for the dispatch, and its fan-out keeps its count.
SameSends(d) ==
  /\ send'[d] = send[d] /\ \A t \in Tokens : <<d, t>> \in pending' <=> <<d, t>> \in pending
  /\ fan'[d].count = fan[d].count /\ fan'[d].cursor = fan[d].cursor
  /\ row'[d].succ = row[d].succ /\ row'[d].fail = row[d].fail
SameLane(d) == SameSends(d) /\ row'[d] = row[d] /\ fan'[d] = fan[d]
Growing ==
  /\ assoc \subseteq assoc' /\ crashes' = crashes
  /\ \A e \in Requests, t \in Tokens : send[e][t] = "invalidToken" => send'[e][t] = "invalidToken"

\* The dispatch is not in the lane yet, or its request keeps what it is about.
SameAim(d) ==
  \/ req[d].pc \notin Handed
  \/ /\ req'[d].action = req[d].action /\ req'[d].job = req[d].job
     /\ req'[JobOf(d)].act = req[JobOf(d)].act

LEMMA PlacedFrame ==
  ASSUME NEW d \in Requests, Placed(d), SameLane(d), Queued(d)' <=> Queued(d),
         req'[d].pc = req[d].pc
  PROVE  Placed(d)'
BY DEF Placed, SameLane, SameSends, Emitted

LEMMA TallyFrame ==
  ASSUME NEW d \in Requests, Placed(d), Tally(d), SameSends(d), Growing, SameAim(d), TypeOK,
         (d \in Running)' => d \in Running \/ Emitted(d) = {}
  PROVE  Tally(d)'
<1>1. /\ Emitted(d)' = Emitted(d) /\ Out(d)' = Out(d) /\ Known(d)' = Known(d)
  BY DEF SameSends, Emitted, Out, Known
<1>2. Out(d)' \cup Missed(d)' \subseteq Out(d) \cup Missed(d)
  <2>1. CASE req[d].pc \notin Handed
    <3>1. Emitted(d) = {}
      BY <2>1 DEF Placed
    <3>2. Missed(d)' = {}
      BY <1>1, <3>1 DEF Missed, Emitted
    <3> QED
      BY <1>1, <3>2
  <2>2. CASE req[d].pc \in Handed
    <3>1. Missed(d)' \subseteq Missed(d)
      BY <2>2 DEF SameAim, Missed, SameSends, Growing, ActivityOf, JobOf
    <3> QED
      BY <1>1, <3>1
  <2> QED
    BY <2>1, <2>2
<1>3. /\ Cardinality(Out(d)' \cup Missed(d)') <= Cardinality(Out(d) \cup Missed(d))
      /\ Cardinality(Out(d)' \cup Missed(d)') \in Nat
      /\ Cardinality(Out(d) \cup Missed(d)) \in Nat
      /\ Cardinality(Emitted(d)) \in Nat /\ Known(d) \in Nat
  <2>1. Out(d) \cup Missed(d) \in SUBSET Tokens
    BY SetsOf
  <2> QED
    BY <1>2, <2>1, TokenSets, SetsOf, AtTypes
<1>4. ("apply" \notin Unsure => Known(d) + Cardinality(Out(d) \cup Missed(d)) <= Cardinality(Emitted(d)))'
  <2>1. "apply" \notin Unsure => Known(d) + Cardinality(Out(d) \cup Missed(d)) <= Cardinality(Emitted(d))
    BY DEF Tally
  <2> QED
    BY <1>1, <1>3, <2>1
<1>5. \A t \in Tokens : <<d, t>> \in pending' => send'[d][t] \in {"ok", "invalidToken", "refused"}
  BY DEF Tally, SameSends
<1>6. crashes' = crashes /\ fan'[d].count = fan[d].count /\ fan'[d].cursor = fan[d].cursor
  BY DEF SameSends, Growing
<1>7. (d \in Running)' => /\ fan[d].count = Cardinality(Emitted(d))
                          /\ \A t \in Emitted(d) : t <= fan[d].cursor
  <2>1. CASE d \in Running
    BY <2>1 DEF Tally
  <2>2. CASE Emitted(d) = {}
    <3>1. Cardinality(Emitted(d)) = 0
      BY <2>2, FS_EmptySet
    <3>2. fan[d].count = 0
      BY <3>1, AtTypes DEF Tally
    <3> QED
      BY <2>2, <3>1, <3>2
  <2> QED
    BY <2>1, <2>2
<1>8. ("apply" \notin Unsure /\ crashes = 0 => Known(d) + Cardinality(Out(d)) = Cardinality(Emitted(d)))'
  BY <1>1, <1>6 DEF Tally
<1>9. (fan[d].count <= Cardinality(Emitted(d)))'
  BY <1>1, <1>6 DEF Tally
<1>10. (d \in Running => /\ fan[d].count = Cardinality(Emitted(d))
                         /\ \A t \in Emitted(d) : t <= fan[d].cursor)'
  BY <1>1, <1>6, <1>7
<1> QED
  BY <1>4, <1>5, <1>8, <1>9, <1>10 DEF Tally

LEMMA TotalsFrame ==
  ASSUME NEW d \in Requests, Totals(d), SameLane(d)
  PROVE  Totals(d)'
BY DEF Totals, SameLane, SameSends, Emitted, Known

\* A request that reached the pipeline has, whatever happens to it.
Reaching ==
  \A e \in Requests : Reached(e) => Reached(e)' /\ req'[e].job = req[e].job
LEMMA ReplacedFrame ==
  ASSUME NEW d \in Requests, Replaced(d), Reaching,
         row'[d].status = "SUPERSEDED" => row[d].status = "SUPERSEDED" /\ req'[d].job = req[d].job
  PROVE  Replaced(d)'
BY DEF Replaced, Reaching, JobOf

LEMMA SweptFrame ==
  ASSUME NEW d \in Requests, Swept(d), Placed(d), SameSends(d), Growing, SameAim(d), TypeOK,
         fan'[d].pc \in Sweeping => fan[d].pc \in Sweeping,
         fan'[d].pc = "complete" \/ row'[d].status \in {"DISPATCHED", "COMPLETED"} =>
           fan[d].pc = "complete" \/ row[d].status \in {"DISPATCHED", "COMPLETED"}
  PROVE  Swept(d)'
<1>1. \A t \in Tokens : Dead(t) => Dead(t)'
  BY DEF Dead, Growing
<1>2. Emitted(d)' = Emitted(d) /\ fan'[d].cursor = fan[d].cursor
  BY DEF SameSends, Emitted
<1>3. CASE req[d].pc \in Handed
  BY <1>1, <1>2, <1>3 DEF Swept, SameAim, JobOf, Steady, UpdateTokens
<1>4. CASE req[d].pc \notin Handed
  <2>1. fan[d].pc = "idle" /\ fan[d] = NoFan /\ row[d].status \notin {"DISPATCHED", "COMPLETED"}
    BY <1>4 DEF Placed, Superseding
  <2>2. fan[d].cursor = 0
    BY <2>1 DEF NoFan
  <2>3. \A t \in Steady : ~(t <= 0)
    BY ConstantTypes DEF Steady, UpdateTokens
  <2> QED
    BY <1>2, <2>1, <2>2, <2>3 DEF Swept
<1> QED
  BY <1>3, <1>4

LEMMA KeptFrame ==
  ASSUME Kept, Growing, valid \ valid' \subseteq Volatile,
         \A r \in Past : /\ req'[r].pc = req[r].pc /\ req'[r].action = req[r].action
                         /\ req'[r].act = req[r].act /\ req'[r].job = req[r].job
  PROVE  Kept'
<1>1. \A t \in Tokens : Dead(t) => Dead(t)'
  BY DEF Dead, Growing
<1>2. \A t \in Steady : t \in Tokens /\ t \notin Volatile
  BY DEF Steady, UpdateTokens
<1>3. \A t \in Steady : t \in valid' \/ Dead(t)'
  BY <1>1, <1>2 DEF Kept
<1>4. \A r \in Past : /\ req'[r].pc = "accepted" /\ req'[r].action = "start" /\ req'[r].job = r
                      /\ \A t \in UpdateTokens : <<req'[r].act, t>> \in assoc'
  BY DEF Kept, Growing
<1> QED
  BY <1>3, <1>4 DEF Kept, Steady

\* A dispatch that the step is not about.
LEMMA Aside ==
  ASSUME NEW d \in Requests, TypeOK, InLane(d), SameLane(d), Growing, SameAim(d), Reaching,
         Queued(d)' <=> Queued(d), req'[d].pc = req[d].pc,
         req[d].pc \in Handed => req'[d].job = req[d].job
  PROVE  InLane(d)'
<1>1. Placed(d)' /\ Totals(d)'
  BY PlacedFrame, TotalsFrame DEF InLane
<1>2. Tally(d)'
  <2>1. (d \in Running)' => d \in Running
    BY DEF SameLane, Running
  <2> QED
    BY <2>1, TallyFrame DEF InLane, SameLane
<1>3. Replaced(d)'
  <2>1. row'[d].status = "SUPERSEDED" => row[d].status = "SUPERSEDED" /\ req'[d].job = req[d].job
    BY DEF SameLane, InLane, Placed, Superseding, Handed
  <2> QED
    BY <2>1, ReplacedFrame DEF InLane
<1>4. Swept(d)'
  BY SweptFrame DEF InLane, SameLane
<1> QED
  BY <1>1, <1>2, <1>3, <1>4 DEF InLane

\* Job rows only leave ACTIVE, and requests go on with what they are about.
JobsEnd ==
  \A j \in Requests : job'[j] = job[j] \/ (job[j] = "ACTIVE" /\ job'[j] # "ACTIVE")
LEMMA HandlersFrame ==
  ASSUME TypeOK, Handlers, JobsEnd,
         \A z \in Requests :
           /\ req'[z].action = req[z].action /\ req'[z].act = req[z].act
           /\ req'[z].job = req[z].job
           /\ \/ req'[z] = req[z]
              \/ req[z].pc # "idle" /\ req'[z].pc \notin {"idle", "insert", "alreadyStarted"}
  PROVE  Handlers'
<1>1. Active' \subseteq Active
  BY DEF Active, JobsEnd
<1>2. ASSUME NEW r \in Requests
      PROVE  Handler(r)'
  <2>1. Handler(r) /\ JobOf(r) \in Requests /\ JobOf(r)' = JobOf(r)
    BY AtTypes DEF Handlers, JobOf
  <2>2. job'[r] # "NONE" => job[r] # "NONE"
    BY DEF JobsEnd
  <2>3. \A z \in Requests : req[z].pc # "idle" => req'[z].pc # "idle"
    OBVIOUS
  <2>4. req'[r].pc \in {"idle", "insert", "alreadyStarted"} => req'[r] = req[r]
    OBVIOUS
  <2>5. /\ req'[r].pc \in {"idle", "insert"} => req'[r].job = r /\ job'[r] = "NONE"
        /\ req'[r].pc = "insert" => req'[r].action = "start" /\ Active' \subseteq req'[r].closing
    BY <1>1, <2>1, <2>2, <2>4 DEF Handler
  <2>6. job'[r] # "NONE" => req'[r].action = "start" /\ req'[r].job = r
    BY <2>1, <2>2 DEF Handler
  <2>7. req'[r].pc # "idle" => req'[JobOf(r)].pc # "idle"
    BY <2>1, <2>3 DEF Handler
  <2>8. req'[r].pc = "alreadyStarted" => req'[JobOf(r)].act = req'[r].act
    BY <2>1, <2>4 DEF Handler
  <2> QED
    BY <2>1, <2>5, <2>6, <2>7, <2>8 DEF Handler
<1>3. \A r, s \in Requests : req'[r].pc = "insert" /\ req'[s].pc = "insert" => r = s
  BY DEF Handlers
<1> QED
  BY <1>2, <1>3 DEF Handlers

-----------------------------------------------------------------------------
(***************************************************************************)
(* Steps about one dispatch that send and count nothing: what is left to   *)
(* show is where the dispatch is afterwards.                               *)
(***************************************************************************)
SameTables == UNCHANGED <<expired, valid, assoc, send, pending, crashes>>
NextTypes ==
  /\ job' \in [Requests -> JobStatus] /\ row' \in [Requests -> RowState]
  /\ req' \in [Requests -> ReqState] /\ fan' \in [Requests -> FanState]
  /\ jobQ' \in Seq(Requests) /\ faults' \in Nat
OnlyAt(r) ==
  \A z \in Requests :
    /\ req'[z].action = req[z].action /\ req'[z].act = req[z].act /\ req'[z].job = req[z].job
    /\ fan'[z].count = fan[z].count /\ fan'[z].cursor = fan[z].cursor
    /\ row'[z].succ = row[z].succ /\ row'[z].fail = row[z].fail
    /\ z # r => /\ req'[z] = req[z] /\ fan'[z] = fan[z] /\ row'[z] = row[z]
                /\ Queued(z)' <=> Queued(z)

LEMMA Onward ==
  ASSUME IInv, NEW r \in Requests, SameTables, NextTypes, OnlyAt(r), Handlers', QueuedOnce',
         (Cardinality(Running) <= Masters)', Placed(r)', Totals(r)',
         (r \in Running)' => r \in Running \/ Emitted(r) = {},
         req[r].pc = "accepted" => req'[r].pc = "accepted",
         Reached(r) => Reached(r)',
         row'[r].status = "SUPERSEDED" =>
           \/ row[r].status = "SUPERSEDED"
           \/ \E e \in Requests : e > r /\ JobOf(e) = JobOf(r) /\ Reached(e),
         fan'[r].pc \in Sweeping => fan[r].pc \in Sweeping,
         fan'[r].pc = "complete" \/ row'[r].status \in {"DISPATCHED", "COMPLETED"} =>
           fan[r].pc = "complete" \/ row[r].status \in {"DISPATCHED", "COMPLETED"}
  PROVE  IInv'
<1>1. TypeOK /\ Handlers /\ QueuedOnce /\ Kept /\ \A z \in Requests : InLane(z)
  BY DEF IInv, Dispatches
<1>2. Growing
  BY DEF Growing, SameTables
<1>3. \A z \in Requests : SameAim(z) /\ SameSends(z) /\ (z # r => SameLane(z))
  <2>1. \A z \in Requests : JobOf(z) \in Requests
    BY <1>1, AtTypes
  <2> QED
    BY <2>1 DEF SameAim, SameSends, SameLane, OnlyAt, SameTables
<1>4. Reaching
  <2>1. \A e \in Requests : req'[e].job = req[e].job
    BY DEF OnlyAt
  <2>2. \A e \in Requests : e # r /\ Reached(e) => Reached(e)'
    BY DEF Reached, OnlyAt
  <2> QED
    BY <2>1, <2>2 DEF Reaching
<1>5. TypeOK'
  <2>1. \A d \in Requests : fan'[d].count <= Cardinality(Tokens)
    BY <1>1, TypeParts DEF OnlyAt
  <2>2. (Cardinality(Running) <= Masters)'
    OBVIOUS
  <2> HIDE DEF Running
  <2> QED
    BY <1>1, <2>1, <2>2 DEF TypeOK, NextTypes, SameTables, RowState, ReqState, FanState
<1>6. ASSUME NEW z \in Requests, z # r
      PROVE  InLane(z)'
  <2>1. (Queued(z)' <=> Queued(z)) /\ req'[z] = req[z]
    BY <1>6 DEF OnlyAt
  <2> QED
    BY <1>1, <1>2, <1>3, <1>4, <1>6, <2>1, Aside
<1>7. InLane(r)'
  <2>1. Tally(r)'
    BY <1>1, <1>2, <1>3, TallyFrame DEF InLane
  <2>2. Swept(r)'
    BY <1>1, <1>2, <1>3, SweptFrame DEF InLane
  <2>3. Replaced(r)'
    <3>1. req'[r].job = req[r].job
      BY DEF OnlyAt
    <3>2. CASE row[r].status = "SUPERSEDED"
      BY <1>1, <1>4, <3>1, <3>2, ReplacedFrame DEF InLane
    <3>3. ASSUME NEW e \in Requests, e > r, JobOf(e) = JobOf(r), Reached(e)
          PROVE  Replaced(r)'
      BY <1>4, <3>1, <3>3 DEF Replaced, Reaching, JobOf
    <3>4. CASE row'[r].status # "SUPERSEDED"
      BY <3>4 DEF Replaced
    <3> QED
      BY <3>2, <3>3, <3>4
  <2> QED
    BY <2>1, <2>2, <2>3 DEF InLane
<1>8. Kept'
  <2>1. valid \ valid' \subseteq Volatile
    BY DEF SameTables
  <2>2. \A z \in Past : /\ req'[z].pc = req[z].pc /\ req'[z].action = req[z].action
                        /\ req'[z].act = req[z].act /\ req'[z].job = req[z].job
    <3>1. \A z \in Past : z \in Requests /\ req[z].pc = "accepted"
      BY <1>1, ConstantTypes DEF Kept
    <3> QED
      BY <3>1 DEF OnlyAt
  <2> QED
    BY <1>1, <1>2, <2>1, <2>2, KeptFrame
<1> QED
  BY <1>5, <1>6, <1>7, <1>8 DEF IInv, Dispatches

\* A step that starts no fan-out.
LEMMA RunningFrame ==
  ASSUME TypeOK, Running' \subseteq Running
  PROVE  (Cardinality(Running) <= Masters)'
<1>1. IsFiniteSet(Running)
  <2>1. Running \subseteq Requests
    BY DEF Running
  <2> QED
    BY <2>1, ConstantTypes, FS_Subset
<1>2. /\ Cardinality(Running) \in Nat /\ Cardinality(Running') \in Nat
      /\ Cardinality(Running') <= Cardinality(Running)
  BY <1>1, FS_Subset, FS_CardinalityType
<1>3. Cardinality(Running) <= Masters /\ Masters \in Nat
  BY TypeParts, ConstantTypes
<1> QED
  BY <1>2, <1>3

-----------------------------------------------------------------------------
(***************************************************************************)
(* Steps of the request handlers.                                          *)
(***************************************************************************)
LEMMA GotoMoves ==
  ASSUME TypeOK, NEW r \in Requests, NEW p \in RequestPC, Goto(r, p)
  PROVE  /\ req' \in [Requests -> ReqState] /\ req'[r].pc = p
         /\ \A z \in Requests :
              /\ req'[z].action = req[z].action /\ req'[z].act = req[z].act
              /\ req'[z].job = req[z].job
              /\ z # r => req'[z] = req[z]
<1>1. req \in [Requests -> ReqState] /\ req[r] \in ReqState
  BY TypeParts
<1>2. req' = [req EXCEPT ![r] = [req[r] EXCEPT !.pc = p]]
  BY <1>1 DEF Goto
<1> DEFINE q == [req[r] EXCEPT !.pc = p]
<1>3. /\ q \in ReqState /\ q.pc = p /\ q.action = req[r].action
      /\ q.act = req[r].act /\ q.job = req[r].job
  BY <1>1 DEF ReqState
<1> HIDE DEF q
<1>4. /\ req'[r] = q /\ req' \in [Requests -> ReqState]
      /\ \A z \in Requests : z # r => req'[z] = req[z]
  BY <1>1, <1>2, <1>3 DEF q
<1> QED
  BY <1>3, <1>4

\* A handler's step that writes its row or its job, or nothing.
LEMMA HandlerStep ==
  ASSUME IInv, NEW r \in Requests, req[r].pc \notin {"idle", "accepted", "alreadyStarted"},
         req' \in [Requests -> ReqState],
         req'[r].pc \notin {"idle", "insert", "alreadyStarted", "mark"},
         \A z \in Requests :
           /\ req'[z].action = req[z].action /\ req'[z].act = req[z].act
           /\ req'[z].job = req[z].job
           /\ z # r => req'[z] = req[z],
         NEW st \in DispatchStatus, row' = [row EXCEPT ![r].status = st],
         job' \in [Requests -> JobStatus], Handlers', faults' \in Nat,
         SameTables, UNCHANGED <<jobQ, fan>>,
         st \in {"DISPATCHED", "COMPLETED", "SUPERSEDED"} => st = row[r].status,
         Placed(r)', Reached(r) => Reached(r)'
  PROVE  IInv'
<1>1. TypeOK /\ QueuedOnce /\ InLane(r)
  BY DEF IInv, Dispatches
<1> DEFINE x == [row[r] EXCEPT !.status = st]
<1>2. row \in [Requests -> RowState] /\ fan \in [Requests -> FanState] /\ jobQ \in Seq(Requests)
  BY <1>1, TypeParts
<1>3. /\ x \in RowState /\ x.status = st /\ x.succ = row[r].succ /\ x.fail = row[r].fail
      /\ x.total = row[r].total
  BY <1>2 DEF RowState
<1>4. row' = [row EXCEPT ![r] = x]
  BY <1>2
<1> HIDE DEF x
<1>5. row' \in [Requests -> RowState] /\ row'[r] = x /\ \A z \in Requests : z # r => row'[z] = row[z]
  BY <1>2, <1>3, <1>4
<1>6. NextTypes
  BY <1>2, <1>5 DEF NextTypes
<1>7. OnlyAt(r)
  BY <1>3, <1>5 DEF OnlyAt, Queued
<1>8. QueuedOnce'
  BY <1>1 DEF QueuedOnce
<1>9. Running' = Running
  BY DEF Running
<1>10. (Cardinality(Running) <= Masters)'
  BY <1>1, <1>9, RunningFrame
<1>11. Totals(r)'
  <2>1. Emitted(r)' = Emitted(r)
    BY DEF Emitted, SameTables
  <2> QED
    BY <1>1, <1>3, <1>5, <2>1 DEF Totals, InLane, Known
<1>12. row'[r].status = st
  BY <1>3, <1>5
<1> QED
  BY <1>6, <1>7, <1>8, <1>9, <1>10, <1>11, <1>12, Onward

\* Before the pipeline has it, a dispatch has no fan-out.
LEMMA Early ==
  ASSUME IInv, NEW r \in Requests, req[r].pc \notin Handed
  PROVE  /\ ~Queued(r) /\ fan[r].pc = "idle" /\ fan[r] = NoFan /\ Emitted(r) = {}
         /\ row[r].status \in {"NONE", "ENQUEUE_PENDING", "FAILED"} /\ ~Reached(r)
BY DEF IInv, Dispatches, InLane, Placed, Reached, Superseding, Handed

LEMMA EarlyStep ==
  ASSUME IInv, NEW r \in Requests, req[r].pc \notin Handed \cup {"idle", "alreadyStarted"},
         req' \in [Requests -> ReqState],
         req'[r].pc \notin {"idle", "insert", "alreadyStarted", "mark"},
         \A z \in Requests :
           /\ req'[z].action = req[z].action /\ req'[z].act = req[z].act
           /\ req'[z].job = req[z].job
           /\ z # r => req'[z] = req[z],
         NEW st \in {"NONE", "ENQUEUE_PENDING", "FAILED"}, row' = [row EXCEPT ![r].status = st],
         job' \in [Requests -> JobStatus], Handlers', faults' \in Nat,
         SameTables, UNCHANGED <<jobQ, fan>>,
         req'[r].pc \in {"touch", "row"} => st = "NONE",
         req'[r].pc \in {"submit", "markFailed"} => st = "ENQUEUE_PENDING"
  PROVE  IInv'
<1>1. /\ ~Queued(r) /\ fan[r].pc = "idle" /\ fan[r] = NoFan /\ Emitted(r) = {} /\ ~Reached(r)
      /\ TypeOK
  BY Early DEF IInv
<1>2. row'[r].status = st
  BY <1>1, TypeParts DEF RowState
<1>3. ~Queued(r)' /\ fan'[r] = fan[r] /\ Emitted(r)' = {}
  BY <1>1 DEF Queued, Emitted, SameTables
<1>4. Placed(r)'
  BY <1>1, <1>2, <1>3 DEF Placed, Superseding
<1>5. st \in DispatchStatus /\ req[r].pc \notin {"idle", "accepted", "alreadyStarted"}
  BY DEF DispatchStatus, Handed
<1> QED
  BY <1>1, <1>2, <1>4, <1>5, HandlerStep

LEMMA SameRow ==
  ASSUME TypeOK, NEW r \in Requests
  PROVE  row = [row EXCEPT ![r].status = row[r].status]
<1>1. row \in [Requests -> RowState] /\ row[r] \in RowState
  BY TypeParts
<1>2. [row[r] EXCEPT !.status = row[r].status] = row[r]
  BY <1>1 DEF RowState
<1> QED
  BY <1>1, <1>2

\* A handler's step that touches no dispatch row.
LEMMA EarlyMove ==
  ASSUME IInv, NEW r \in Requests, NEW p \in RequestPC, Goto(r, p),
         req[r].pc \notin Handed \cup {"idle", "insert", "alreadyStarted"},
         p \notin {"idle", "insert", "alreadyStarted", "mark"},
         p \in {"touch", "row"} => row[r].status = "NONE",
         p \in {"submit", "markFailed"} => row[r].status = "ENQUEUE_PENDING",
         JobsEnd, job' \in [Requests -> JobStatus], faults' \in Nat,
         SameTables, UNCHANGED <<row, jobQ, fan>>
  PROVE  IInv'
<1>1. TypeOK /\ Handlers
  BY DEF IInv
<1>2. /\ req' \in [Requests -> ReqState] /\ req'[r].pc = p
      /\ \A z \in Requests :
           /\ req'[z].action = req[z].action /\ req'[z].act = req[z].act
           /\ req'[z].job = req[z].job
           /\ z # r => req'[z] = req[z]
  BY <1>1, GotoMoves
<1>3. Handlers'
  BY <1>1, <1>2, HandlersFrame
<1>4. row' = [row EXCEPT ![r].status = row[r].status]
  BY <1>1, SameRow
<1>5. row[r].status \in {"NONE", "ENQUEUE_PENDING", "FAILED"}
  BY Early
<1> QED
  BY <1>2, <1>3, <1>4, <1>5, EarlyStep

LEMMA RollbackStartKeeps ==
  ASSUME IInv, NEW r \in Requests, RollbackStart(r) \/ FailLAJobIfActive(r)
  PROVE  IInv'
<1>1. TypeOK /\ req[r].pc \in {"rollback", "failJob"}
  BY DEF IInv, RollbackStart, FailLAJobIfActive
<1>2. PICK name, answer : Call(name, answer)
  BY DEF RollbackStart, FailLAJobIfActive
<1>3. Goto(r, "rejected") /\ SameTables /\ UNCHANGED <<row, jobQ, fan>>
  BY DEF RollbackStart, FailLAJobIfActive, SameTables, lane
<1>4. JobsEnd /\ job' \in [Requests -> JobStatus]
  BY <1>1, TypeParts DEF RollbackStart, FailLAJobIfActive, IfActive, JobsEnd, JobStatus
<1>5. faults' \in Nat
  BY <1>1, <1>2, CallTypes
<1>6. "rejected" \in RequestPC
  BY DEF RequestPC, Answered
<1> QED
  BY <1>1, <1>3, <1>4, <1>5, <1>6, EarlyMove DEF Handed

LEMMA TouchKeeps ==
  ASSUME IInv, NEW r \in Requests, UpdateLAJobPayloadIfActive(r)
  PROVE  IInv'
<1>1. TypeOK /\ req[r].pc = "touch" /\ Placed(r)
  BY DEF IInv, Dispatches, InLane, UpdateLAJobPayloadIfActive
<1>2. PICK answer : /\ Call("touch", answer)
                    /\ Goto(r, IF answer = "ok" /\ Usable(JobOf(r)) THEN "row" ELSE "rejected")
  BY DEF UpdateLAJobPayloadIfActive
<1>3. PICK p \in {"row", "rejected"} : Goto(r, p)
  BY <1>2
<1>4. SameTables /\ UNCHANGED <<job, row, jobQ, fan>>
  BY DEF UpdateLAJobPayloadIfActive, SameTables, lane, tables
<1>5. JobsEnd /\ job' \in [Requests -> JobStatus] /\ faults' \in Nat
  BY <1>1, <1>2, <1>4, TypeParts, CallTypes DEF JobsEnd
<1>6. p \in RequestPC /\ p \notin {"idle", "insert", "alreadyStarted", "mark", "touch", "submit", "markFailed"}
  BY DEF RequestPC, Answered
<1>7. row[r].status = "NONE"
  BY <1>1 DEF Placed
<1> QED
  BY <1>1, <1>3, <1>4, <1>5, <1>6, <1>7, EarlyMove DEF Handed

LEMMA CreateRowKeeps ==
  ASSUME IInv, NEW r \in Requests, CreateLADispatch(r)
  PROVE  IInv'
<1>1. TypeOK /\ Handlers /\ req[r].pc = "row" /\ Placed(r)
  BY DEF IInv, Dispatches, InLane, CreateLADispatch
<1>2. PICK answer :
        /\ Call("row", answer)
        /\ LET written == TakesEffect(answer) /\ job[JobOf(r)] # "NONE"
           IN  /\ row' = IF written THEN SetStatus(r, "ENQUEUE_PENDING") ELSE row
               /\ Goto(r, IF answer = "ok" /\ written THEN "submit"
                          ELSE IF req[r].action = "start" THEN "rollback" ELSE "rejected")
  BY DEF CreateLADispatch
<1>3. PICK p \in {"submit", "rollback", "rejected"}, st \in {"NONE", "ENQUEUE_PENDING"} :
        /\ Goto(r, p) /\ row' = [row EXCEPT ![r].status = st]
        /\ p = "submit" => st = "ENQUEUE_PENDING"
  <2>1. CASE TakesEffect(answer) /\ job[JobOf(r)] # "NONE"
    BY <1>2, <2>1 DEF SetStatus
  <2>2. CASE ~(TakesEffect(answer) /\ job[JobOf(r)] # "NONE")
    <3>1. row' = [row EXCEPT ![r].status = "NONE"]
      BY <1>1, <1>2, <2>2, SameRow DEF Placed
    <3> QED
      BY <1>2, <2>2, <3>1
  <2> QED
    BY <2>1, <2>2
<1>4. p \in RequestPC
  BY DEF RequestPC, Answered
<1>5. /\ req' \in [Requests -> ReqState] /\ req'[r].pc = p
      /\ \A z \in Requests :
           /\ req'[z].action = req[z].action /\ req'[z].act = req[z].act
           /\ req'[z].job = req[z].job
           /\ z # r => req'[z] = req[z]
  BY <1>1, <1>3, <1>4, GotoMoves
<1>6. /\ SameTables /\ UNCHANGED <<job, jobQ, fan>> /\ faults' \in Nat
      /\ JobsEnd /\ job' \in [Requests -> JobStatus]
  BY <1>1, <1>2, TypeParts, CallTypes DEF CreateLADispatch, SameTables, lane, JobsEnd
<1>7. Handlers'
  BY <1>1, <1>5, <1>6, HandlersFrame
<1> QED
  BY <1>1, <1>3, <1>5, <1>6, <1>7, EarlyStep DEF Handed

LEMMA MarkFailedKeeps ==
  ASSUME IInv, NEW r \in Requests, MarkEnqueueFailed(r)
  PROVE  IInv'
<1>1. TypeOK /\ Handlers /\ req[r].pc = "markFailed" /\ Placed(r)
  BY DEF IInv, Dispatches, InLane, MarkEnqueueFailed
<1>2. PICK answer :
        /\ Call("markFailed", answer)
        /\ row' = IF TakesEffect(answer) THEN SetStatus(r, "FAILED") ELSE row
  BY DEF MarkEnqueueFailed
<1>3. PICK st \in {"FAILED", "ENQUEUE_PENDING"} : row' = [row EXCEPT ![r].status = st]
  BY <1>1, <1>2, SameRow DEF SetStatus, Placed
<1>4. PICK p \in {"failJob", "rejected"} : Goto(r, p)
  BY DEF MarkEnqueueFailed
<1>5. p \in RequestPC
  BY DEF RequestPC, Answered
<1>6. /\ req' \in [Requests -> ReqState] /\ req'[r].pc = p
      /\ \A z \in Requests :
           /\ req'[z].action = req[z].action /\ req'[z].act = req[z].act
           /\ req'[z].job = req[z].job
           /\ z # r => req'[z] = req[z]
  BY <1>1, <1>4, <1>5, GotoMoves
<1>7. /\ SameTables /\ UNCHANGED <<job, jobQ, fan>> /\ faults' \in Nat
      /\ JobsEnd /\ job' \in [Requests -> JobStatus]
  BY <1>1, <1>2, TypeParts, CallTypes DEF MarkEnqueueFailed, SameTables, lane, JobsEnd
<1>8. Handlers'
  BY <1>1, <1>6, <1>7, HandlersFrame
<1> QED
  BY <1>1, <1>3, <1>6, <1>7, <1>8, EarlyStep DEF Handed

LEMMA MarkEnqueuedKeeps ==
  ASSUME IInv, NEW r \in Requests, MarkLADispatchEnqueued(r)
  PROVE  IInv'
<1>1. TypeOK /\ Handlers /\ req[r].pc = "mark" /\ Placed(r)
  BY DEF IInv, Dispatches, InLane, MarkLADispatchEnqueued
<1>2. PICK answer :
        /\ Call("mark", answer)
        /\ row' = IF TakesEffect(answer) /\ row[r].status = "ENQUEUE_PENDING"
                  THEN SetStatus(r, "QUEUED") ELSE row
  BY DEF MarkLADispatchEnqueued
<1>3. PICK st \in DispatchStatus :
        /\ row' = [row EXCEPT ![r].status = st]
        /\ st = row[r].status \/ (row[r].status = "ENQUEUE_PENDING" /\ st = "QUEUED")
  <2>1. row[r].status \in DispatchStatus /\ "QUEUED" \in DispatchStatus
    BY <1>1, AtTypes DEF DispatchStatus
  <2> QED
    BY <1>1, <1>2, <2>1, SameRow DEF SetStatus
<1>4. "accepted" \in RequestPC /\ Goto(r, "accepted")
  BY DEF RequestPC, Answered, MarkLADispatchEnqueued
<1>5. /\ req' \in [Requests -> ReqState] /\ req'[r].pc = "accepted"
      /\ \A z \in Requests :
           /\ req'[z].action = req[z].action /\ req'[z].act = req[z].act
           /\ req'[z].job = req[z].job
           /\ z # r => req'[z] = req[z]
  BY <1>1, <1>4, GotoMoves
<1>6. /\ SameTables /\ UNCHANGED <<job, jobQ, fan>> /\ faults' \in Nat
      /\ JobsEnd /\ job' \in [Requests -> JobStatus]
  BY <1>1, <1>2, TypeParts, CallTypes DEF MarkLADispatchEnqueued, SameTables, lane, JobsEnd
<1>7. Handlers'
  BY <1>1, <1>5, <1>6, HandlersFrame
<1>8. row'[r].status = st
  BY <1>1, <1>3, TypeParts DEF RowState
<1>9. (Queued(r)' <=> Queued(r)) /\ fan'[r] = fan[r] /\ Emitted(r)' = Emitted(r)
  BY <1>6 DEF Queued, Emitted, SameTables
<1>10. Placed(r)'
  BY <1>1, <1>3, <1>5, <1>8, <1>9 DEF Placed, Handed, Superseding
<1>11. Reached(r) => Reached(r)'
  BY <1>3, <1>5, <1>8 DEF Reached
<1> QED
  BY <1>1, <1>3, <1>5, <1>6, <1>7, <1>10, <1>11, HandlerStep

LEMMA AppendQueue ==
  ASSUME jobQ \in Seq(Requests), QueuedOnce, NEW r \in Requests, ~Queued(r),
         jobQ' = Append(jobQ, r)
  PROVE  /\ QueuedOnce' /\ jobQ' \in Seq(Requests)
         /\ \A z \in Requests : Queued(z)' <=> Queued(z) \/ z = r
<1>1. /\ DOMAIN jobQ' = 1 .. Len(jobQ) + 1 /\ DOMAIN jobQ = 1 .. Len(jobQ)
      /\ Len(jobQ) \in Nat /\ jobQ'[Len(jobQ) + 1] = r
      /\ \A i \in 1 .. Len(jobQ) : jobQ'[i] = jobQ[i]
      /\ jobQ' \in Seq(Requests)
  OBVIOUS
<1>2. \A i \in 1 .. Len(jobQ) : jobQ[i] # r
  BY <1>1 DEF Queued
<1>3. QueuedOnce'
  BY <1>1, <1>2 DEF QueuedOnce
<1>4. \A z \in Requests : Queued(z)' <=> Queued(z) \/ z = r
  BY <1>1 DEF Queued
<1> QED
  BY <1>1, <1>3, <1>4

LEMMA SubmitKeeps ==
  ASSUME IInv, NEW r \in Requests, Submit(r)
  PROVE  IInv'
<1>1. TypeOK /\ Handlers /\ QueuedOnce /\ req[r].pc = "submit" /\ Placed(r) /\ InLane(r)
  BY DEF IInv, Dispatches, InLane, Submit
<1>2. PICK answer \in {"ok", "failed"} :
       /\ Call("submit", answer)
       /\ jobQ' = IF TakesEffect(answer) THEN Append(jobQ, r) ELSE jobQ
       /\ Goto(r, IF answer = "ok" THEN "mark" ELSE "markFailed")
  BY DEF Submit
<1>3. SameTables /\ UNCHANGED <<job, row, fan>> /\ faults' \in Nat
  BY <1>1, <1>2, CallTypes DEF Submit, SameTables, tables
<1>4. JobsEnd /\ job' \in [Requests -> JobStatus] /\ row[r].status = "ENQUEUE_PENDING"
  BY <1>1, <1>3, TypeParts DEF JobsEnd, Placed
<1>5. CASE answer = "failed"
  <2>1. Goto(r, "markFailed") /\ "markFailed" \in RequestPC /\ UNCHANGED jobQ
    BY <1>2, <1>5 DEF RequestPC, TakesEffect
  <2> QED
    BY <1>1, <1>3, <1>4, <2>1, EarlyMove DEF Handed
<1>6. CASE answer = "ok"
  <2>1. Goto(r, "mark") /\ "mark" \in RequestPC /\ jobQ' = Append(jobQ, r)
    BY <1>2, <1>6 DEF RequestPC, TakesEffect
  <2>2. /\ req' \in [Requests -> ReqState] /\ req'[r].pc = "mark"
        /\ \A z \in Requests :
             /\ req'[z].action = req[z].action /\ req'[z].act = req[z].act
             /\ req'[z].job = req[z].job
             /\ z # r => req'[z] = req[z]
    BY <1>1, <2>1, GotoMoves
  <2>3. /\ ~Queued(r) /\ fan[r].pc = "idle" /\ fan[r] = NoFan /\ Emitted(r) = {} /\ ~Reached(r)
    BY <1>1, Early DEF Handed
  <2>4. /\ QueuedOnce' /\ jobQ' \in Seq(Requests)
        /\ \A z \in Requests : Queued(z)' <=> Queued(z) \/ z = r
    BY <1>1, <2>1, <2>3, TypeParts, AppendQueue
  <2>5. Handlers'
    BY <1>1, <1>4, <2>2, HandlersFrame
  <2>6. NextTypes
    BY <1>1, <1>3, <1>4, <2>2, <2>4, TypeParts DEF NextTypes
  <2>7. OnlyAt(r)
    BY <1>3, <2>2, <2>4 DEF OnlyAt
  <2>8. Running' = Running
    BY <1>3 DEF Running
  <2>9. (Cardinality(Running) <= Masters)'
    BY <1>1, <2>8, RunningFrame
  <2>10. Emitted(r)' = {} /\ row'[r] = row[r] /\ fan'[r] = fan[r]
    BY <1>3, <2>3 DEF Emitted, SameTables
  <2>11. Placed(r)'
    BY <1>4, <2>2, <2>3, <2>10 DEF Placed, Handed
  <2>12. Totals(r)'
    BY <1>4, <2>10 DEF Totals
  <2> QED
    BY <1>1, <1>3, <2>3, <2>5, <2>6, <2>7, <2>4, <2>8, <2>9, <2>10, <2>11, <2>12, Onward
<1> QED
  BY <1>2, <1>5, <1>6

LEMMA StartInsertKeeps ==
  ASSUME IInv, NEW r \in Requests, StartInsert(r)
  PROVE  IInv'
<1>1. TypeOK /\ Handlers /\ req[r].pc = "insert" /\ Placed(r) /\ Handler(r)
  BY DEF IInv, Dispatches, InLane, StartInsert, Handlers
<1>2. Active \subseteq req[r].closing /\ req[r].action = "start" /\ req[r].job = r
  BY <1>1 DEF Handler
<1>3. PICK answer :
        /\ Call("insert", answer)
        /\ job' = IF TakesEffect(answer)
                  THEN [j \in Requests |->
                          IF j = r THEN "ACTIVE"
                          ELSE IF j \in Active THEN "CLOSED" ELSE job[j]]
                  ELSE job
        /\ req' = [req EXCEPT ![r].pc = IF answer = "ok" THEN "row" ELSE "rejected",
                              ![r].closing = {}]
  BY <1>2 DEF StartInsert
<1>4. PICK p \in {"row", "rejected"} : req' = [req EXCEPT ![r].pc = p, ![r].closing = {}]
  BY <1>3
<1> DEFINE q == [req[r] EXCEPT !.pc = p, !.closing = {}]
<1>5. req \in [Requests -> ReqState] /\ p \in RequestPC
  BY <1>1, TypeParts DEF RequestPC, Answered
<1>6. /\ q \in ReqState /\ q.pc = p /\ q.action = req[r].action /\ q.act = req[r].act
      /\ q.job = req[r].job
  BY <1>5 DEF ReqState
<1>7. req' = [req EXCEPT ![r] = q]
  BY <1>4, <1>5
<1> HIDE DEF q
<1>8. /\ req' \in [Requests -> ReqState] /\ req'[r].pc = p
      /\ \A z \in Requests :
           /\ req'[z].action = req[z].action /\ req'[z].act = req[z].act
           /\ req'[z].job = req[z].job
           /\ z # r => req'[z] = req[z]
  BY <1>5, <1>6, <1>7
<1>9. /\ SameTables /\ UNCHANGED <<row, jobQ, fan>> /\ faults' \in Nat
      /\ job' \in [Requests -> JobStatus]
  BY <1>1, <1>3, TypeParts, CallTypes DEF StartInsert, SameTables, lane, JobStatus
<1>10. Handlers'
  <2>1. CASE job' = job
    <3>1. JobsEnd
      BY <2>1 DEF JobsEnd
    <3> QED
      BY <1>1, <1>8, <3>1, HandlersFrame
  <2>2. CASE \A j \in Requests :
               job'[j] = IF j = r THEN "ACTIVE" ELSE IF j \in Active THEN "CLOSED" ELSE job[j]
    <3>1. ASSUME NEW z \in Requests
          PROVE  Handler(z)'
      <4>1. Handler(z) /\ JobOf(z) \in Requests /\ JobOf(z)' = JobOf(z)
        BY <1>1, <1>8, AtTypes DEF Handlers, JobOf
      <4>2. CASE z = r
        BY <1>2, <1>8, <4>1, <4>2 DEF Handler, JobOf
      <4>3. CASE z # r
        <5>1. req'[z] = req[z] /\ req[z].pc # "insert"
          BY <1>1, <1>8, <4>3 DEF Handlers
        <5>2. job'[z] # "NONE" => job[z] # "NONE"
          BY <2>2, <4>3 DEF Active
        <5>3. job[z] = "NONE" => job'[z] = "NONE"
          BY <2>2, <4>3 DEF Active
        <5>4. req[z].pc # "idle" => req'[JobOf(z)].pc # "idle"
          BY <1>8, <4>1 DEF Handler
        <5> QED
          BY <1>8, <4>1, <5>1, <5>2, <5>3, <5>4 DEF Handler
      <4> QED
        BY <4>2, <4>3
    <3>2. \A z, y \in Requests : req'[z].pc = "insert" /\ req'[y].pc = "insert" => z = y
      BY <1>1, <1>8 DEF Handlers
    <3> QED
      BY <3>1, <3>2 DEF Handlers
  <2> QED
    BY <1>3, <2>1, <2>2
<1>11. row' = [row EXCEPT ![r].status = row[r].status] /\ row[r].status = "NONE"
  BY <1>1, <1>9, SameRow DEF Placed
<1> QED
  BY <1>1, <1>8, <1>9, <1>10, <1>11, EarlyStep DEF Handed

(***************************************************************************)
(* A request arrives: its locals are set, nothing else changes.            *)
(***************************************************************************)
LEMMA Arriving ==
  ASSUME IInv, NEW r \in Requests, req[r].pc = "idle",
         NEW q \in ReqState, req' = [req EXCEPT ![r] = q],
         q.pc \in {"rejected", "alreadyStarted", "insert", "touch", "row", "closed"},
         q.job = r \/ job[q.job] # "NONE",
         q.pc = "insert" => /\ q.job = r /\ q.action = "start" /\ Active \subseteq q.closing
                            /\ ScopeUnlocked,
         q.pc = "alreadyStarted" => job[q.job] # "NONE" /\ req[q.job].act = q.act,
         UNCHANGED <<tables, lane, crashes>>, faults' \in Nat
  PROVE  IInv'
<1>1. /\ TypeOK /\ Handlers /\ QueuedOnce /\ Kept /\ \A z \in Requests : InLane(z) /\ Handler(z)
  BY DEF IInv, Dispatches, Handlers
<1>2. req' \in [Requests -> ReqState] /\ req'[r] = q /\ \A z \in Requests : z # r => req'[z] = req[z]
  BY <1>1, TypeParts
<1>3. job[r] = "NONE" /\ q.job \in Requests
  BY <1>1 DEF Handler, ReqState
<1>4. \A j \in Requests : job[j] # "NONE" => j # r /\ req[j].pc # "idle"
  BY <1>1 DEF Handler
<1>5. UNCHANGED <<job, expired, row, valid, assoc, jobQ, fan, send, pending, crashes>>
  BY DEF tables, lane
<1>6. Handlers'
  <2>1. ASSUME NEW z \in Requests
        PROVE  Handler(z)'
    <3>1. CASE z = r
      <4>1. q.pc # "idle" /\ req'[q.job].pc # "idle"
        BY <1>2, <1>3, <1>4
      <4>2. q.pc = "alreadyStarted" => req'[q.job].act = q.act
        BY <1>2, <1>3, <1>4
      <4>3. Active' = Active
        BY <1>5 DEF Active
      <4> QED
        BY <1>2, <1>3, <1>5, <3>1, <4>1, <4>2, <4>3 DEF Handler, JobOf
    <3>2. CASE z # r
      <4>1. Handler(z) /\ req'[z] = req[z] /\ JobOf(z) \in Requests /\ JobOf(z)' = JobOf(z)
        BY <1>1, <1>2, <3>2, AtTypes DEF JobOf
      <4>2. req[z].pc # "idle" => JobOf(z) # r /\ req'[JobOf(z)] = req[JobOf(z)]
        BY <1>2, <4>1 DEF Handler
      <4>3. Active' = Active
        BY <1>5 DEF Active
      <4> QED
        BY <1>5, <4>1, <4>2, <4>3 DEF Handler
    <3> QED
      BY <3>1, <3>2
  <2>2. \A z, y \in Requests : req'[z].pc = "insert" /\ req'[y].pc = "insert" => z = y
    BY <1>1, <1>2 DEF Handlers, ScopeUnlocked
  <2> QED
    BY <2>1, <2>2 DEF Handlers
<1>7. Growing /\ \A z \in Requests : SameLane(z) /\ (Queued(z)' <=> Queued(z))
  BY <1>5 DEF Growing, SameLane, SameSends, Queued
<1>8. Reaching
  BY <1>2, <1>5 DEF Reaching, Reached
<1>9. TypeOK'
  <2>1. Running' = Running
    BY <1>5 DEF Running
  <2>2. (Cardinality(Running) <= Masters)'
    BY <1>1, <2>1, RunningFrame
  <2> HIDE DEF Running
  <2> QED
    BY <1>1, <1>2, <1>5, <2>2 DEF TypeOK, ReqState
<1>10. ASSUME NEW z \in Requests
       PROVE  InLane(z)'
  <2>1. CASE z # r
    <3>1. SameAim(z)
      <4>1. req[z].pc \in Handed => JobOf(z) # r
        BY <1>1 DEF Handler, Handed
      <4>2. JobOf(z) \in Requests
        BY <1>1, AtTypes
      <4> QED
        BY <1>2, <2>1, <4>1, <4>2 DEF SameAim
    <3> QED
      BY <1>1, <1>2, <1>7, <1>8, <2>1, <3>1, Aside
  <2>2. CASE z = r
    <3>1. SameAim(r) /\ req[r].pc \notin Handed
      BY DEF SameAim, Handed
    <3>2. /\ ~Queued(r) /\ fan[r].pc = "idle" /\ fan[r] = NoFan /\ Emitted(r) = {}
          /\ row[r].status = "NONE"
      BY <1>1, <3>1, Early DEF InLane, Placed
    <3>3. Placed(r)'
      <4>1. ~Queued(r)' /\ Emitted(r)' = {} /\ fan'[r] = fan[r] /\ row'[r] = row[r]
        BY <1>5, <3>2 DEF Queued, Emitted
      <4> QED
        BY <1>2, <3>2, <4>1 DEF Placed, Superseding
    <3>4. Tally(r)'
      <4>1. (r \in Running)' => r \in Running
        BY <1>5 DEF Running
      <4> QED
        BY <1>1, <1>7, <3>1, <4>1, TallyFrame DEF InLane, SameLane
    <3>5. Totals(r)'
      BY <1>1, <1>7, TotalsFrame DEF InLane
    <3>6. Replaced(r)'
      BY <1>5, <3>2 DEF Replaced
    <3>7. Swept(r)'
      BY <1>1, <1>7, <3>1, SweptFrame DEF InLane, SameLane
    <3> QED
      BY <2>2, <3>3, <3>4, <3>5, <3>6, <3>7 DEF InLane
  <2> QED
    BY <2>1, <2>2
<1>11. Kept'
  <2>1. \A z \in Past : z \in Requests /\ z # r
    BY <1>1, ConstantTypes DEF Kept
  <2>2. valid \ valid' \subseteq Volatile
    BY <1>5
  <2> QED
    BY <1>1, <1>2, <1>7, <2>1, <2>2, KeptFrame
<1>12. QueuedOnce'
  BY <1>1, <1>5 DEF QueuedOnce
<1> QED
  BY <1>6, <1>9, <1>10, <1>11, <1>12 DEF IInv, Dispatches

\* The locals of a request that GotoWith sets.
LEMMA GotoWithMoves ==
  ASSUME TypeOK, NEW r \in Requests, NEW p \in RequestPC, NEW w \in Menu[r], NEW j \in Requests,
         GotoWith(r, p, w, j)
  PROVE  \E q \in ReqState :
           /\ req' = [req EXCEPT ![r] = q]
           /\ q.pc = p /\ q.job = j /\ q.act = w.act
<1>1. req \in [Requests -> ReqState] /\ w.action \in Actions /\ w.act \in Activities
  <2>1. w \in Wanted
    BY ConstantTypes
  <2> QED
    BY <2>1, TypeParts DEF Wanted
<1> DEFINE q == [req[r] EXCEPT !.pc = p, !.action = w.action, !.act = w.act, !.job = j]
<1>2. q \in ReqState /\ q.pc = p /\ q.job = j /\ q.act = w.act
  <2>1. req[r] \in ReqState
    BY <1>1
  <2> QED
    BY <1>1, <2>1 DEF ReqState
<1>3. req' = [req EXCEPT ![r] = q]
  BY <1>1 DEF GotoWith
<1> HIDE DEF q
<1> QED
  BY <1>2, <1>3

LEMMA ArriveKeeps ==
  ASSUME IInv, NEW r \in Requests, Arrive(r)
  PROVE  IInv'
<1>1. TypeOK
  BY DEF IInv
<1>2. PICK w \in Menu[r] : StartLookup(r, w) \/ UpdateFind(r, w) \/ EndFind(r, w)
  BY DEF Arrive
<1>3. req[r].pc = "idle" /\ UNCHANGED <<tables, lane, crashes>>
  BY <1>2 DEF StartLookup, UpdateFind, EndFind
<1>4. faults' \in Nat
  <2>1. CASE StartLookup(r, w)
    BY <1>1, <2>1, CallTypes DEF StartLookup
  <2>2. CASE UpdateFind(r, w) \/ EndFind(r, w)
    BY <1>1, <2>2, TypeParts DEF UpdateFind, EndFind
  <2> QED
    BY <1>2, <2>1, <2>2
<1>5. \A j \in Found(w) : j \in Requests /\ job[j] # "NONE"
  BY DEF Found, OfActivity, Active
<1>6. CASE GotoWith(r, "rejected", w, r)
  <2>1. PICK q \in ReqState : req' = [req EXCEPT ![r] = q] /\ q.pc = "rejected" /\ q.job = r
    BY <1>1, <1>6, GotoWithMoves DEF RequestPC, Answered
  <2> QED
    BY <1>3, <1>4, <2>1, Arriving
<1>7. ASSUME NEW p \in {"touch", "row", "closed"}, NEW j \in Found(w), GotoWith(r, p, w, j)
      PROVE  IInv'
  <2>1. p \in RequestPC /\ j \in Requests /\ job[j] # "NONE"
    BY <1>5 DEF RequestPC, Answered
  <2>2. PICK q \in ReqState : req' = [req EXCEPT ![r] = q] /\ q.pc = p /\ q.job = j
    BY <1>1, <1>7, <2>1, GotoWithMoves
  <2> QED
    BY <1>3, <1>4, <2>1, <2>2, Arriving
<1>8. ASSUME NEW j \in OfActivity(w.act), GotoWith(r, "alreadyStarted", w, j)
      PROVE  IInv'
  <2>1. "alreadyStarted" \in RequestPC /\ j \in Requests /\ job[j] # "NONE" /\ req[j].act = w.act
    BY DEF RequestPC, Answered, OfActivity
  <2>2. PICK q \in ReqState : /\ req' = [req EXCEPT ![r] = q]
                              /\ q.pc = "alreadyStarted" /\ q.job = j /\ q.act = w.act
    BY <1>1, <1>8, <2>1, GotoWithMoves
  <2> QED
    BY <1>3, <1>4, <2>1, <2>2, Arriving
<1>9. CASE /\ w.action = "start" /\ ScopeUnlocked
           /\ req' = [req EXCEPT ![r].pc = "insert", ![r].action = w.action,
                                 ![r].act = w.act, ![r].closing = Active]
  <2>1. /\ req \in [Requests -> ReqState] /\ w.act \in Activities /\ w.action \in Actions
        /\ req[r].job = r /\ "insert" \in RequestPC /\ Active \subseteq Requests
    BY <1>1, <1>3, TypeParts, ConstantTypes DEF Wanted, IInv, Handlers, Handler, RequestPC, Active
  <2>2. req[r] \in ReqState /\ w.action = "start" /\ ScopeUnlocked
    BY <1>9, <2>1
  <2> DEFINE q == [req[r] EXCEPT !.pc = "insert", !.action = w.action, !.act = w.act,
                                 !.closing = Active]
  <2>3. /\ q \in ReqState /\ q.pc = "insert" /\ q.action = w.action /\ q.job = req[r].job
        /\ q.closing = Active
    BY ONLY <2>1, <2>2 DEF ReqState
  <2>4. req' = [req EXCEPT ![r] = q]
    BY <1>9, <2>1
  <2> HIDE DEF q
  <2>5. q.job = r /\ q.action = "start" /\ Active \subseteq q.closing
    BY <2>1, <2>2, <2>3
  <2> QED
    BY <1>3, <1>4, <2>2, <2>3, <2>4, <2>5, Arriving
<1>10. CASE StartLookup(r, w)
  BY <1>6, <1>8, <1>9, <1>10 DEF StartLookup
<1>11. CASE UpdateFind(r, w)
  BY <1>6, <1>7, <1>11 DEF UpdateFind
<1>12. CASE EndFind(r, w)
  BY <1>6, <1>7, <1>12 DEF EndFind
<1> QED
  BY <1>2, <1>10, <1>11, <1>12

-----------------------------------------------------------------------------
(***************************************************************************)
(* Steps of a fan-out that emit nothing.                                   *)
(***************************************************************************)
LEMMA FanGotoMoves ==
  ASSUME TypeOK, NEW d \in Requests, NEW p \in FanoutPC, FanGoto(d, p)
  PROVE  /\ fan' \in [Requests -> FanState] /\ fan'[d].pc = p
         /\ fan'[d].count = fan[d].count /\ fan'[d].cursor = fan[d].cursor
         /\ \A z \in Requests : z # d => fan'[z] = fan[z]
<1>1. fan \in [Requests -> FanState] /\ fan[d] \in FanState
  BY TypeParts
<1> DEFINE q == [fan[d] EXCEPT !.pc = p]
<1>2. fan' = [fan EXCEPT ![d] = q]
  BY <1>1 DEF FanGoto
<1>3. q \in FanState /\ q.pc = p /\ q.count = fan[d].count /\ q.cursor = fan[d].cursor
  BY <1>1 DEF FanState
<1> HIDE DEF q
<1> QED
  BY <1>1, <1>2, <1>3

LEMMA FanStep ==
  ASSUME IInv, NEW d \in Requests, fan[d].pc \notin {"idle", "done"}, SameTables,
         UNCHANGED <<req, jobQ>>, faults' \in Nat, JobsEnd, job' \in [Requests -> JobStatus],
         NEW p \in FanoutPC \ {"idle", "complete"}, fan' \in [Requests -> FanState],
         fan'[d].pc = p, fan'[d].count = fan[d].count, fan'[d].cursor = fan[d].cursor,
         p \in Sweeping => fan[d].pc \in Sweeping,
         NEW x \in RowState, row' = [row EXCEPT ![d] = x],
         \A z \in Requests : z # d => fan'[z] = fan[z],
         x.succ = row[d].succ, x.fail = row[d].fail,
         p \in {"guard", "progress"} => x.status \in {"ENQUEUE_PENDING", "QUEUED"},
         p \in {"check", "scope", "page"} => x.status = "IN_PROGRESS",
         \/ x = row[d]
         \/ /\ x.status \in {"IN_PROGRESS", "FAILED", "DISPATCHED", "COMPLETED", "SUPERSEDED"}
            /\ x.status \in {"DISPATCHED", "COMPLETED", "SUPERSEDED"} => x.total = fan[d].count
            /\ x.status = "COMPLETED" => Known(d) >= fan[d].count
            /\ x.status = "DISPATCHED" => Known(d) < fan[d].count
            /\ x.status \in {"DISPATCHED", "COMPLETED"} => fan[d].pc = "complete"
            /\ x.status = "SUPERSEDED" => Stale(d)
  PROVE  IInv'
<1>1. /\ TypeOK /\ Handlers /\ QueuedOnce /\ InLane(d) /\ Placed(d) /\ Tally(d) /\ Totals(d)
      /\ \A z \in Requests : Placed(z)
  BY DEF IInv, Dispatches, InLane
<1>2. row \in [Requests -> RowState] /\ jobQ \in Seq(Requests) /\ req \in [Requests -> ReqState]
  BY <1>1, TypeParts
<1>3. row' \in [Requests -> RowState] /\ row'[d] = x /\ \A z \in Requests : z # d => row'[z] = row[z]
  BY <1>2
<1>4. NextTypes
  BY <1>2, <1>3 DEF NextTypes
<1>5. OnlyAt(d)
  BY <1>3 DEF OnlyAt, Queued
<1>6. Handlers'
  BY <1>1, HandlersFrame
<1>7. QueuedOnce'
  BY <1>1 DEF QueuedOnce
<1>8. Running' \subseteq Running /\ d \in Running
  BY DEF Running
<1>9. (Cardinality(Running) <= Masters)'
  BY <1>1, <1>8, RunningFrame
<1>10. /\ Emitted(d)' = Emitted(d) /\ ~Queued(d)' /\ req'[d] = req[d] /\ req[d].pc \in Handed
       /\ Known(d)' = Known(d)
  BY <1>1, <1>3 DEF Emitted, SameTables, Queued, Placed, Known
<1>11. Placed(d)'
  BY <1>3, <1>10 DEF Placed, Handed
<1>12. Totals(d)'
  <2>1. fan[d].count = Cardinality(Emitted(d))
    BY <1>1, <1>8 DEF Tally
  <2>2. CASE x = row[d]
    BY <1>1, <1>3, <1>10, <2>2 DEF Totals
  <2>3. CASE x # row[d]
    BY <1>3, <1>10, <2>1, <2>3 DEF Totals
  <2> QED
    BY <2>2, <2>3
<1>13. Reached(d) => Reached(d)'
  BY <1>3, <1>10 DEF Reached
<1>14. Stale(d) => \E e \in Requests : e > d /\ JobOf(e) = JobOf(d) /\ Reached(e)
  BY <1>1 DEF Stale, Reached, Superseding, Placed, Handed
<1>15. /\ row'[d].status = "SUPERSEDED" =>
            \/ row[d].status = "SUPERSEDED"
            \/ \E e \in Requests : e > d /\ JobOf(e) = JobOf(d) /\ Reached(e)
       /\ fan'[d].pc = "complete" \/ row'[d].status \in {"DISPATCHED", "COMPLETED"} =>
           fan[d].pc = "complete" \/ row[d].status \in {"DISPATCHED", "COMPLETED"}
  BY <1>3, <1>14
<1> QED
  BY <1>4, <1>5, <1>6, <1>7, <1>8, <1>9, <1>10, <1>11, <1>12, <1>13, <1>15, Onward

\* A step of the fan-out that leaves the row alone.
LEMMA FanMove ==
  ASSUME IInv, NEW d \in Requests, fan[d].pc \notin {"idle", "done"}, SameTables,
         UNCHANGED <<row, req, jobQ>>, faults' \in Nat, JobsEnd, job' \in [Requests -> JobStatus],
         NEW p \in FanoutPC \ {"idle", "complete"}, FanGoto(d, p),
         p \in Sweeping => fan[d].pc \in Sweeping,
         p \in {"guard", "progress"} => row[d].status \in {"ENQUEUE_PENDING", "QUEUED"},
         p \in {"check", "scope", "page"} => row[d].status = "IN_PROGRESS"
  PROVE  IInv'
<1>1. TypeOK
  BY DEF IInv
<1>2. /\ row[d] \in RowState /\ row' = [row EXCEPT ![d] = row[d]]
  BY <1>1, TypeParts
<1>3. /\ fan' \in [Requests -> FanState] /\ fan'[d].pc = p
      /\ fan'[d].count = fan[d].count /\ fan'[d].cursor = fan[d].cursor
      /\ \A z \in Requests : z # d => fan'[z] = fan[z]
  BY <1>1, FanGotoMoves
<1> QED
  BY <1>2, <1>3, FanStep

\* A step of the fan-out that writes the row.
LEMMA FanWrite ==
  ASSUME IInv, NEW d \in Requests, fan[d].pc \notin {"idle", "done"}, SameTables,
         UNCHANGED <<req, jobQ>>, faults' \in Nat, JobsEnd, job' \in [Requests -> JobStatus],
         NEW p \in FanoutPC \ {"idle", "complete", "guard"}, FanGoto(d, p),
         p \in Sweeping => fan[d].pc \in Sweeping,
         NEW x \in RowState, row' = [row EXCEPT ![d] = x],
         x.succ = row[d].succ, x.fail = row[d].fail,
         p # "progress", p \in {"check", "scope", "page"} => x.status = "IN_PROGRESS",
         x.status \in {"IN_PROGRESS", "FAILED", "DISPATCHED", "COMPLETED", "SUPERSEDED"},
         x.status \in {"DISPATCHED", "COMPLETED", "SUPERSEDED"} => x.total = fan[d].count,
         x.status = "COMPLETED" => Known(d) >= fan[d].count,
         x.status = "DISPATCHED" => Known(d) < fan[d].count,
         x.status \in {"DISPATCHED", "COMPLETED"} => fan[d].pc = "complete",
         x.status = "SUPERSEDED" => Stale(d)
  PROVE  IInv'
<1>1. TypeOK
  BY DEF IInv
<1>2. /\ fan' \in [Requests -> FanState] /\ fan'[d].pc = p
      /\ fan'[d].count = fan[d].count /\ fan'[d].cursor = fan[d].cursor
      /\ \A z \in Requests : z # d => fan'[z] = fan[z]
  BY <1>1, FanGotoMoves
<1> QED
  BY <1>2, FanStep

\* A write that settles the dispatch with what was emitted so far.
LEMMA FanSettle ==
  ASSUME IInv, NEW d \in Requests, fan[d].pc \notin {"idle", "done"}, SameTables,
         UNCHANGED <<req, jobQ>>, faults' \in Nat, JobsEnd, job' \in [Requests -> JobStatus],
         NEW p \in {"fail", "failStart", "done"}, FanGoto(d, p),
         NEW st \in {"SUPERSEDED", "FAILED"}, st = "SUPERSEDED" => Stale(d),
         row' = [row EXCEPT ![d].status = st, ![d].total = fan[d].count]
  PROVE  IInv'
<1>1. /\ row \in [Requests -> RowState] /\ row[d] \in RowState
      /\ fan[d].count \in Nat /\ st \in DispatchStatus
  BY TypeParts, AtTypes DEF IInv, DispatchStatus
<1> DEFINE n == fan[d].count
           x == [row[d] EXCEPT !.status = st, !.total = n]
<1>2. /\ x \in RowState /\ x.status = st /\ x.total = n
      /\ x.succ = row[d].succ /\ x.fail = row[d].fail
  BY <1>1 DEF RowState
<1>3. row' = [row EXCEPT ![d] = x]
  BY <1>1
<1> HIDE DEF x
<1>4. p \in FanoutPC \ {"idle", "complete", "guard"} /\ p # "progress" /\ p \notin Sweeping
      /\ p \notin {"check", "scope", "page"}
  BY DEF FanoutPC, Sweeping
<1>5. /\ x.status \in {"FAILED", "SUPERSEDED"} /\ x.status = "SUPERSEDED" => Stale(d)
      /\ x.total = fan[d].count
  BY <1>2
<1> HIDE DEF n
<1> QED
  BY <1>2, <1>3, <1>4, <1>5, FanWrite

LEMMA SupersedeKeeps ==
  ASSUME IInv, NEW d \in Requests, NEW pc, NEW next, SupersedeIfStale(d, pc, next),
         <<pc, next>> \in {<<"guard", "progress">>, <<"check", "scope">>}
  PROVE  IInv'
<1>1. TypeOK /\ fan[d].pc = pc /\ Placed(d)
  BY DEF IInv, Dispatches, InLane, SupersedeIfStale
<1>2. PICK answer :
       /\ Call("supersede", answer)
       /\ row' = IF TakesEffect(answer) /\ Stale(d)
                 THEN [row EXCEPT ![d].status = "SUPERSEDED", ![d].total = fan[d].count]
                 ELSE row
       /\ FanGoto(d, IF answer # "ok" THEN "fail" ELSE IF Stale(d) THEN "done" ELSE next)
  BY DEF SupersedeIfStale
<1>3. /\ SameTables /\ UNCHANGED <<req, jobQ, job>> /\ faults' \in Nat
      /\ JobsEnd /\ job' \in [Requests -> JobStatus]
  BY <1>1, <1>2, TypeParts, CallTypes DEF SupersedeIfStale, SameTables, JobsEnd
<1>4. /\ (pc = "guard" /\ next = "progress") \/ (pc = "check" /\ next = "scope")
      /\ pc \in Sweeping /\ next \in Sweeping /\ {"fail", "done", next} \subseteq FanoutPC
      /\ "fail" \notin Sweeping /\ "done" \notin Sweeping
  BY DEF Sweeping, FanoutPC
<1>5. CASE TakesEffect(answer) /\ Stale(d)
  <2>1. PICK p \in {"fail", "failStart", "done"} : FanGoto(d, p)
    BY <1>2, <1>5
  <2>2. PICK st \in {"SUPERSEDED", "FAILED"} :
          row' = [row EXCEPT ![d].status = st, ![d].total = fan[d].count]
    BY <1>2, <1>5
  <2>3. fan[d].pc \notin {"idle", "done"} /\ Stale(d)
    BY <1>1, <1>4, <1>5
  <2> QED
    BY <1>3, <2>1, <2>2, <2>3, FanSettle
<1>6. CASE ~(TakesEffect(answer) /\ Stale(d))
  <2>1. PICK p \in {"fail", "done", next} : FanGoto(d, p) /\ UNCHANGED row
    BY <1>2, <1>6
  <2>2. fan[d].pc \notin {"idle", "done"} /\ p \in FanoutPC \ {"idle", "complete"}
    BY <1>1, <1>4 DEF FanoutPC
  <2>3. /\ p \in Sweeping => fan[d].pc \in Sweeping
        /\ p \in {"guard", "progress"} => row[d].status \in {"ENQUEUE_PENDING", "QUEUED"}
        /\ p \in {"check", "scope", "page"} => row[d].status = "IN_PROGRESS"
    BY <1>1, <1>4 DEF Placed
  <2> QED
    BY <1>3, <2>1, <2>2, <2>3, FanMove
<1> QED
  BY <1>5, <1>6

LEMMA MarkInProgressKeeps ==
  ASSUME IInv, NEW d \in Requests, MarkInProgress(d)
  PROVE  IInv'
<1>1. TypeOK /\ fan[d].pc = "progress" /\ Placed(d)
  BY DEF IInv, Dispatches, InLane, MarkInProgress
<1>2. PICK answer :
       /\ Call("progress", answer)
       /\ row' = IF TakesEffect(answer) THEN SetStatus(d, "IN_PROGRESS") ELSE row
       /\ FanGoto(d, IF answer = "ok" THEN BeforePage(d) ELSE "fail")
  BY DEF MarkInProgress
<1>3. /\ SameTables /\ UNCHANGED <<req, jobQ, job>> /\ faults' \in Nat
      /\ JobsEnd /\ job' \in [Requests -> JobStatus]
  BY <1>1, <1>2, TypeParts, CallTypes DEF MarkInProgress, SameTables, JobsEnd
<1>4. BeforePage(d) \in {"check", "scope"}
  BY DEF BeforePage
<1>5. CASE TakesEffect(answer)
  <2>1. PICK p \in {"check", "scope", "fail"} : FanGoto(d, p)
    BY <1>2, <1>4
  <2> DEFINE x == [row[d] EXCEPT !.status = "IN_PROGRESS"]
  <2>2. row \in [Requests -> RowState] /\ row[d] \in RowState /\ "IN_PROGRESS" \in DispatchStatus
    BY <1>1, TypeParts DEF DispatchStatus
  <2>3. /\ x \in RowState /\ x.status = "IN_PROGRESS"
        /\ x.succ = row[d].succ /\ x.fail = row[d].fail /\ row' = [row EXCEPT ![d] = x]
    BY <1>2, <1>5, <2>2 DEF RowState, SetStatus
  <2> HIDE DEF x
  <2>4. fan[d].pc \notin {"idle", "done"} /\ p \in FanoutPC \ {"idle", "complete", "guard"}
        /\ fan[d].pc \in Sweeping /\ p # "progress"
    BY <1>1 DEF FanoutPC, Sweeping
  <2> QED
    BY <1>3, <2>1, <2>3, <2>4, FanWrite
<1>6. CASE ~TakesEffect(answer)
  <2>1. FanGoto(d, "fail") /\ UNCHANGED row
    BY <1>2, <1>6 DEF TakesEffect
  <2>2. /\ fan[d].pc \notin {"idle", "done"} /\ "fail" \in FanoutPC \ {"idle", "complete"}
        /\ "fail" \notin Sweeping
    BY <1>1 DEF FanoutPC, Sweeping
  <2> QED
    BY <1>3, <2>1, <2>2, FanMove
<1> QED
  BY <1>5, <1>6

LEMMA LoadScopeKeeps ==
  ASSUME IInv, NEW d \in Requests, LoadScope(d)
  PROVE  IInv'
<1>1. TypeOK /\ fan[d].pc = "scope" /\ Placed(d)
  BY DEF IInv, Dispatches, InLane, LoadScope
<1>2. PICK answer : /\ Call("scope", answer)
                    /\ fan' = [fan EXCEPT ![d].pc = IF answer = "ok" THEN "page" ELSE "fail",
                                          ![d].wide = StartPending(JobOf(d))]
  BY DEF LoadScope
<1>3. /\ SameTables /\ UNCHANGED <<row, req, jobQ, job>> /\ faults' \in Nat
      /\ JobsEnd /\ job' \in [Requests -> JobStatus]
  BY <1>1, <1>2, TypeParts, CallTypes DEF LoadScope, SameTables, JobsEnd, tables
<1>4. PICK p \in {"page", "fail"}, b \in BOOLEAN :
        fan' = [fan EXCEPT ![d].pc = p, ![d].wide = b]
  BY <1>2 DEF StartPending
<1> DEFINE q == [fan[d] EXCEPT !.pc = p, !.wide = b]
<1>5. fan \in [Requests -> FanState] /\ fan[d] \in FanState /\ p \in FanoutPC \ {"idle", "complete"}
      /\ row \in [Requests -> RowState]
  BY <1>1, TypeParts DEF FanoutPC
<1>6. q \in FanState /\ q.pc = p /\ q.count = fan[d].count /\ q.cursor = fan[d].cursor
  BY <1>5 DEF FanState
<1>7. fan' = [fan EXCEPT ![d] = q]
  BY <1>4, <1>5
<1> HIDE DEF q
<1>8. /\ fan' \in [Requests -> FanState] /\ fan'[d] = q
      /\ \A z \in Requests : z # d => fan'[z] = fan[z]
  BY <1>5, <1>6, <1>7
<1>9. row' = [row EXCEPT ![d] = row[d]] /\ row[d] \in RowState /\ row[d].status = "IN_PROGRESS"
  BY <1>1, <1>3, <1>5 DEF Placed
<1>10. fan[d].pc \in Sweeping /\ fan[d].pc \notin {"idle", "done"}
  BY <1>1 DEF Sweeping
<1> QED
  BY <1>3, <1>5, <1>6, <1>8, <1>9, <1>10, FanStep

LEMMA FailEnqueueKeeps ==
  ASSUME IInv, NEW d \in Requests, FailEnqueue(d)
  PROVE  IInv'
<1>1. TypeOK /\ fan[d].pc = "fail"
  BY DEF IInv, FailEnqueue
<1>2. PICK answer :
       /\ Call("failEnqueue", answer)
       /\ row' = IF TakesEffect(answer) /\ row[d].status \in Unfinished
                 THEN [row EXCEPT ![d].status = "FAILED", ![d].total = fan[d].count]
                 ELSE row
  BY DEF FailEnqueue
<1>3. /\ SameTables /\ UNCHANGED <<req, jobQ, job>> /\ faults' \in Nat
      /\ JobsEnd /\ job' \in [Requests -> JobStatus]
  BY <1>1, <1>2, TypeParts, CallTypes DEF FailEnqueue, SameTables, JobsEnd
<1>4. PICK p \in {"failStart", "done"} : FanGoto(d, p)
  BY DEF FailEnqueue
<1>5. /\ p \in FanoutPC \ {"idle", "complete", "guard"} /\ p # "progress" /\ p \notin Sweeping
      /\ fan[d].pc \notin {"idle", "done"}
  BY <1>1 DEF FanoutPC, Sweeping
<1>6. CASE TakesEffect(answer) /\ row[d].status \in Unfinished
  <2>1. PICK st \in {"SUPERSEDED", "FAILED"} :
          /\ row' = [row EXCEPT ![d].status = st, ![d].total = fan[d].count]
          /\ st = "FAILED"
    BY <1>2, <1>6
  <2>2. p \in {"fail", "failStart", "done"} /\ (st = "SUPERSEDED" => Stale(d))
    BY <2>1
  <2> QED
    BY <1>3, <1>4, <1>5, <2>1, <2>2, FanSettle
<1>7. CASE ~(TakesEffect(answer) /\ row[d].status \in Unfinished)
  <2>1. UNCHANGED row
    BY <1>2, <1>7
  <2> QED
    BY <1>3, <1>4, <1>5, <2>1, FanMove
<1> QED
  BY <1>6, <1>7

LEMMA FailStartKeeps ==
  ASSUME IInv, NEW d \in Requests, FailStart(d)
  PROVE  IInv'
<1>1. TypeOK /\ fan[d].pc = "failStart" /\ FanGoto(d, "done")
  BY DEF IInv, FailStart
<1>2. PICK answer :
       /\ Call("failJob", answer)
       /\ job' = IF TakesEffect(answer) THEN IfActive(JobOf(d), "FAILED") ELSE job
  BY DEF FailStart
<1>3. SameTables /\ UNCHANGED <<row, req, jobQ>> /\ faults' \in Nat
  BY <1>1, <1>2, CallTypes DEF FailStart, SameTables
<1>4. JobsEnd /\ job' \in [Requests -> JobStatus]
  BY <1>1, <1>2, TypeParts DEF JobsEnd, IfActive, JobStatus
<1>5. /\ "done" \in FanoutPC \ {"idle", "complete"} /\ "done" \notin Sweeping
      /\ fan[d].pc \notin {"idle", "done"}
  BY <1>1 DEF FanoutPC, Sweeping
<1> QED
  BY <1>1, <1>3, <1>4, <1>5, FanMove

LEMMA FinishEmptyKeeps ==
  ASSUME IInv, NEW d \in Requests, FinishEmpty(d)
  PROVE  IInv'
<1>1. TypeOK /\ fan[d].pc = "finishEmpty"
  BY DEF IInv, FinishEmpty
<1>2. PICK answer :
       /\ Call("finishEmpty", answer)
       /\ job' = IF TakesEffect(answer)
                 THEN IfActive(JobOf(d), IF req[d].action = "start" THEN "FAILED" ELSE "CLOSED")
                 ELSE job
       /\ FanGoto(d, IF answer = "ok" THEN "done" ELSE "fail")
  BY DEF FinishEmpty
<1>3. SameTables /\ UNCHANGED <<row, req, jobQ>> /\ faults' \in Nat
  BY <1>1, <1>2, CallTypes DEF FinishEmpty, SameTables
<1>4. JobsEnd /\ job' \in [Requests -> JobStatus]
  <2>1. PICK st \in {"FAILED", "CLOSED"} : job' = job \/ job' = IfActive(JobOf(d), st)
    BY <1>2
  <2> QED
    BY <1>1, <2>1, TypeParts DEF JobsEnd, IfActive, JobStatus
<1>5. PICK p \in {"done", "fail"} : FanGoto(d, p)
  BY <1>2
<1>6. /\ p \in FanoutPC \ {"idle", "complete"} /\ p \notin Sweeping
      /\ fan[d].pc \notin {"idle", "done"} /\ p \notin {"guard", "progress", "check", "scope", "page"}
  BY <1>1 DEF FanoutPC, Sweeping
<1> QED
  BY <1>3, <1>4, <1>5, <1>6, FanMove

\* The count of the fan-out decides whether the dispatch is complete.
LEMMA CompleteEnqueueKeeps ==
  ASSUME IInv, NEW d \in Requests, CompleteEnqueue(d)
  PROVE  IInv'
<1>1. TypeOK /\ fan[d].pc = "complete"
  BY DEF IInv, CompleteEnqueue
<1> DEFINE n == fan[d].count
           counted == [row[d] EXCEPT !.total = n, !.status = "DISPATCHED"]
           written == IF n = 0 THEN [counted EXCEPT !.status = "COMPLETED"] ELSE IfReady(counted)
<1>2. PICK answer :
       /\ Call("complete", answer)
       /\ row' = IF TakesEffect(answer) THEN [row EXCEPT ![d] = written] ELSE row
       /\ job' = IF n = 0 THEN job ELSE CloseEnded(row, row')
       /\ FanGoto(d, IF answer # "ok" THEN "fail"
                     ELSE IF n = 0 /\ req[d].action # "update" THEN "finishEmpty" ELSE "done")
  BY DEF CompleteEnqueue
<1>3. SameTables /\ UNCHANGED <<req, jobQ>> /\ faults' \in Nat
  BY <1>1, <1>2, CallTypes DEF CompleteEnqueue, SameTables
<1>4. JobsEnd /\ job' \in [Requests -> JobStatus]
  BY <1>1, <1>2, TypeParts DEF JobsEnd, CloseEnded, JobStatus
<1>5. PICK p \in {"fail", "finishEmpty", "done"} : FanGoto(d, p)
  BY <1>2
<1>6. /\ p \in FanoutPC \ {"idle", "complete", "guard"} /\ p \notin Sweeping /\ p # "progress"
      /\ fan[d].pc \notin {"idle", "done"} /\ p \notin {"check", "scope", "page"}
  BY <1>1 DEF FanoutPC, Sweeping
<1>7. CASE TakesEffect(answer)
  <2>1. row[d] \in RowState /\ n \in Nat /\ Known(d) \in Nat /\ Known(d) = row[d].succ + row[d].fail
    BY <1>1, TypeParts, AtTypes DEF Known
  <2>2. /\ counted \in RowState /\ counted.status = "DISPATCHED" /\ counted.total = n
        /\ counted.succ = row[d].succ /\ counted.fail = row[d].fail
    BY <2>1 DEF RowState, DispatchStatus
  <2> DEFINE done == [counted EXCEPT !.status = "COMPLETED"]
  <2> HIDE DEF counted
  <2>3. /\ done \in RowState /\ done.status = "COMPLETED" /\ done.total = n
        /\ done.succ = row[d].succ /\ done.fail = row[d].fail
    BY <2>2 DEF RowState, DispatchStatus
  <2>4. IfReady(counted) = IF Known(d) >= n THEN done ELSE counted
    BY <2>1, <2>2 DEF IfReady
  <2>5. row' = [row EXCEPT ![d] = written] /\ written = IF n = 0 THEN done ELSE IfReady(counted)
    BY <1>2, <1>7 DEF counted
  <2> HIDE DEF done, written, n
  <2>6. written = IF n = 0 \/ Known(d) >= n THEN done ELSE counted
    BY <2>4, <2>5
  <2>7. PICK x \in RowState :
          /\ row' = [row EXCEPT ![d] = x] /\ x.total = n
          /\ x.succ = row[d].succ /\ x.fail = row[d].fail
          /\ x.status \in {"DISPATCHED", "COMPLETED"}
          /\ x.status = "COMPLETED" => Known(d) >= n
          /\ x.status = "DISPATCHED" => Known(d) < n
    <3>1. CASE n = 0 \/ Known(d) >= n
      <4>1. Known(d) >= n
        BY <2>1, <3>1
      <4> QED
        BY <2>3, <2>5, <2>6, <3>1, <4>1
    <3>2. CASE ~(n = 0 \/ Known(d) >= n)
      <4>1. Known(d) < n
        BY <2>1, <3>2
      <4> QED
        BY <2>2, <2>5, <2>6, <3>2, <4>1
    <3> QED
      BY <3>1, <3>2
  <2> QED
    BY <1>1, <1>3, <1>4, <1>5, <1>6, <2>7, FanWrite DEF n
<1>8. CASE ~TakesEffect(answer)
  <2>1. UNCHANGED row
    BY <1>2, <1>8
  <2> QED
    BY <1>3, <1>4, <1>5, <1>6, <2>1, FanMove
<1> QED
  BY <1>7, <1>8

-----------------------------------------------------------------------------
(***************************************************************************)
(* A master takes the dispatch at the head of the queue.                   *)
(***************************************************************************)
LEMMA TailQueue ==
  ASSUME jobQ \in Seq(Requests), jobQ # <<>>, QueuedOnce, jobQ' = Tail(jobQ),
         NEW d, d = Head(jobQ)
  PROVE  /\ QueuedOnce' /\ jobQ' \in Seq(Requests)
         /\ d \in Requests /\ Queued(d) /\ ~Queued(d)'
         /\ \A z \in Requests : z # d => (Queued(z)' <=> Queued(z))
<1>1. /\ Len(jobQ) \in Nat \ {0} /\ DOMAIN jobQ = 1 .. Len(jobQ)
      /\ DOMAIN jobQ' = 1 .. Len(jobQ) - 1 /\ d = jobQ[1]
      /\ \A i \in 1 .. Len(jobQ) - 1 : jobQ'[i] = jobQ[i + 1]
      /\ jobQ' \in Seq(Requests) /\ d \in Requests
  OBVIOUS
<1>2. QueuedOnce'
  <2> SUFFICES ASSUME NEW i \in 1 .. Len(jobQ) - 1, NEW k \in 1 .. Len(jobQ) - 1,
                      jobQ'[i] = jobQ'[k]
               PROVE  i = k
    BY <1>1 DEF QueuedOnce
  <2>1. i + 1 \in DOMAIN jobQ /\ k + 1 \in DOMAIN jobQ /\ jobQ[i + 1] = jobQ[k + 1]
    BY <1>1
  <2>2. i + 1 = k + 1
    BY <2>1 DEF QueuedOnce
  <2> QED
    BY <2>2
<1>3. \A i \in 2 .. Len(jobQ) : jobQ[i] # d
  BY <1>1 DEF QueuedOnce
<1>4. ~Queued(d)'
  <2> SUFFICES ASSUME NEW i \in 1 .. Len(jobQ) - 1, jobQ'[i] = d
               PROVE  FALSE
    BY <1>1 DEF Queued
  <2>1. i + 1 \in 2 .. Len(jobQ) /\ jobQ[i + 1] = d
    BY <1>1
  <2> QED
    BY <1>3, <2>1
<1>5. ASSUME NEW z \in Requests, z # d
      PROVE  Queued(z)' <=> Queued(z)
  <2>1. ASSUME Queued(z)'
        PROVE  Queued(z)
    <3>1. PICK i \in 1 .. Len(jobQ) - 1 : jobQ'[i] = z
      BY <1>1, <2>1 DEF Queued
    <3>2. i + 1 \in 1 .. Len(jobQ) /\ jobQ[i + 1] = z
      BY <1>1, <3>1
    <3> QED
      BY <1>1, <3>2 DEF Queued
  <2>2. ASSUME Queued(z)
        PROVE  Queued(z)'
    <3>1. PICK i \in 1 .. Len(jobQ) : jobQ[i] = z
      BY <1>1, <2>2 DEF Queued
    <3>2. i - 1 \in 1 .. Len(jobQ) - 1 /\ jobQ'[i - 1] = jobQ[i - 1 + 1] /\ i - 1 + 1 = i
      BY <1>1, <1>5, <3>1
    <3> QED
      BY <1>1, <3>1, <3>2 DEF Queued
  <2> QED
    BY <2>1, <2>2
<1>6. Queued(d)
  BY <1>1 DEF Queued
<1> QED
  BY <1>1, <1>2, <1>4, <1>5, <1>6

LEMMA ReceiveKeeps ==
  ASSUME IInv, Receive
  PROVE  IInv'
<1>1. TypeOK /\ Handlers /\ QueuedOnce
  BY DEF IInv
<1>0. PICK d : d = Head(jobQ)
  OBVIOUS
<1>2. /\ jobQ # <<>> /\ jobQ' = Tail(jobQ) /\ Cardinality(Running) < Masters
      /\ SameTables /\ UNCHANGED <<job, row, req, faults>>
  BY DEF Receive, SameTables, tables
<1>3. /\ QueuedOnce' /\ jobQ' \in Seq(Requests) /\ d \in Requests /\ Queued(d) /\ ~Queued(d)'
      /\ \A z \in Requests : z # d => (Queued(z)' <=> Queued(z))
  BY <1>0, <1>1, <1>2, TypeParts, TailQueue
<1>4. PICK p \in {"guard", "progress"} : FanGoto(d, p) /\ p \in FanoutPC
  BY <1>0 DEF Receive, FanoutPC
<1>5. Placed(d) /\ fan[d].pc = "idle" /\ Emitted(d) = {} /\ Totals(d)
  BY <1>3 DEF IInv, Dispatches, InLane, Placed
<1>6. /\ fan' \in [Requests -> FanState] /\ fan'[d].pc = p
      /\ fan'[d].count = fan[d].count /\ fan'[d].cursor = fan[d].cursor
      /\ \A z \in Requests : z # d => fan'[z] = fan[z]
  BY <1>1, <1>2, <1>3, <1>4, FanGotoMoves
<1>7. NextTypes
  BY <1>1, <1>2, <1>3, <1>6, TypeParts DEF NextTypes
<1>8. OnlyAt(d)
  BY <1>2, <1>3, <1>6 DEF OnlyAt
<1>9. Handlers'
  <2>1. JobsEnd
    BY <1>2 DEF JobsEnd
  <2> QED
    BY <1>1, <1>2, <2>1, HandlersFrame
<1>10. (Cardinality(Running) <= Masters)'
  <2>1. Running' = Running \cup {d} /\ d \notin Running
    BY <1>3, <1>4, <1>5, <1>6 DEF Running
  <2>2. IsFiniteSet(Running)
    <3>1. Running \subseteq Requests
      BY DEF Running
    <3> QED
      BY <3>1, ConstantTypes, FS_Subset
  <2>3. Cardinality(Running') = Cardinality(Running) + 1
    BY <2>1, <2>2, FS_AddElement
  <2> QED
    BY <1>2, <2>2, <2>3, ConstantTypes, FS_CardinalityType
<1>11. Emitted(d)' = Emitted(d) /\ row'[d] = row[d] /\ req'[d] = req[d]
  BY <1>2 DEF Emitted, SameTables
<1>12. Placed(d)'
  BY <1>3, <1>4, <1>5, <1>6, <1>11 DEF Placed
<1>13. Totals(d)'
  BY <1>5, <1>11 DEF Totals, Known
<1>14. Reached(d) => Reached(d)'
  BY <1>11 DEF Reached
<1>15. fan'[d].pc \in Sweeping => fan[d].pc \in Sweeping
  BY <1>5 DEF Sweeping
<1>16. fan'[d].pc # "complete" /\ row'[d] = row[d] /\ req'[d] = req[d]
  BY <1>4, <1>6, <1>11
<1> QED
  BY <1>2, <1>3, <1>5, <1>7, <1>8, <1>9, <1>10, <1>12, <1>13, <1>14, <1>15, <1>16, Onward

-----------------------------------------------------------------------------
(***************************************************************************)
(* Steps that send: a page of the fan-out, and a sender.                   *)
(***************************************************************************)
LEMMA LaneStep ==
  ASSUME IInv, NEW d \in Requests, UNCHANGED <<tables, req, jobQ, crashes>>, faults' \in Nat,
         fan' \in [Requests -> FanState], fan'[d].count <= Cardinality(Tokens),
         send' \in [Requests -> [Tokens -> SendState]], pending' \subseteq Requests \X Tokens,
         Growing, Running' \subseteq Running,
         \A z \in Requests : z # d =>
           /\ send'[z] = send[z] /\ fan'[z] = fan[z]
           /\ \A t \in Tokens : <<z, t>> \in pending' <=> <<z, t>> \in pending,
         Placed(d)', Tally(d)', Totals(d)', Swept(d)'
  PROVE  IInv'
<1>1. TypeOK /\ Handlers /\ QueuedOnce /\ Kept /\ \A z \in Requests : InLane(z)
  BY DEF IInv, Dispatches
<1>2. UNCHANGED <<job, expired, row, valid, assoc>>
  BY DEF tables
<1>3. Handlers'
  <2>1. JobsEnd
    BY <1>2 DEF JobsEnd
  <2> QED
    BY <1>1, <2>1, HandlersFrame
<1>4. Reaching
  BY <1>2 DEF Reaching, Reached
<1>5. TypeOK'
  <2>1. \A z \in Requests : fan'[z].count <= Cardinality(Tokens)
    BY <1>1, TypeParts
  <2>2. (Cardinality(Running) <= Masters)'
    BY <1>1, RunningFrame
  <2> HIDE DEF Running
  <2> QED
    BY <1>1, <1>2, <2>1, <2>2 DEF TypeOK, RowState, ReqState, FanState, SendState
<1>6. \A z \in Requests : (Queued(z)' <=> Queued(z)) /\ SameAim(z)
  BY DEF Queued, SameAim
<1>7. ASSUME NEW z \in Requests, z # d
      PROVE  InLane(z)'
  <2>1. SameLane(z)
    BY <1>2, <1>7 DEF SameLane, SameSends
  <2> QED
    BY <1>1, <1>4, <1>6, <2>1, Aside
<1>8. InLane(d)'
  <2>1. Replaced(d)'
    BY <1>1, <1>2, <1>4, ReplacedFrame DEF InLane
  <2> QED
    BY <2>1 DEF InLane
<1>9. Kept'
  <2>1. valid \ valid' \subseteq Volatile
    BY <1>2
  <2> QED
    BY <1>1, <2>1, KeptFrame
<1>10. QueuedOnce'
  BY <1>1 DEF QueuedOnce
<1> QED
  BY <1>3, <1>5, <1>7, <1>8, <1>9, <1>10 DEF IInv, Dispatches

\* A page holds the first tokens ahead of the cursor.
LEMMA PageFirst ==
  ASSUME TypeOK, NEW d \in Requests
  PROVE  /\ Page(d) \subseteq Ahead(d) /\ Ahead(d) \subseteq Tokens
         /\ \A t \in Ahead(d) : t > fan[d].cursor
         /\ \A t \in Ahead(d), last \in Page(d) : t <= last => t \in Page(d)
<1>1. Page(d) \subseteq Ahead(d) /\ Ahead(d) \subseteq Tokens /\ \A t \in Ahead(d) : t > fan[d].cursor
  BY TypeParts DEF Page, Ahead, Recipients
<1>2. ASSUME NEW t \in Ahead(d), NEW last \in Page(d), t <= last
      PROVE  t \in Page(d)
  <2> DEFINE Before(x) == {u \in Ahead(d) : u < x}
  <2>1. Before(t) \subseteq Before(last) /\ Before(last) \subseteq Tokens
    BY <1>1, <1>2, ConstantTypes
  <2>2. /\ Cardinality(Before(t)) <= Cardinality(Before(last))
        /\ Cardinality(Before(t)) \in Nat /\ Cardinality(Before(last)) \in Nat
    BY <2>1, TokenSets
  <2>3. Cardinality(Before(last)) < BatchSize
    BY DEF Page
  <2>4. Cardinality(Before(t)) < BatchSize
    BY <2>2, <2>3, ConstantTypes
  <2> QED
    BY <2>4 DEF Page
<1> QED
  BY <1>1, <1>2

\* Every device that shows an activity of the past and was not reached is ahead.
LEMMA SteadyAhead ==
  ASSUME IInv, NEW d \in Requests, req[d].action = "update", JobOf(d) \in Past,
         NEW t \in Steady, t > fan[d].cursor
  PROVE  t \in Ahead(d) \/ Dead(t)
<1>1. t \in valid \/ Dead(t)
  BY DEF IInv, Kept
<1>2. t \in UpdateTokens /\ <<ActivityOf(d), t>> \in assoc
  BY DEF IInv, Kept, Steady, ActivityOf
<1> QED
  BY <1>1, <1>2 DEF Ahead, Recipients

LEMMA FanOutPageKeeps ==
  ASSUME IInv, NEW d \in Requests, FanOutPage(d)
  PROVE  IInv'
<1>1. TypeOK /\ fan[d].pc = "page" /\ InLane(d) /\ Placed(d) /\ Tally(d) /\ Swept(d)
  BY DEF IInv, Dispatches, InLane, FanOutPage
<1>2. PICK answer \in {"ok", "failed"} :
        /\ Call("page", answer)
        /\ IF answer = "ok"
           THEN /\ send' = [send EXCEPT ![d] = [t \in Tokens |->
                              IF t \in Page(d) THEN "task" ELSE send[d][t]]]
                /\ \E last \in Page(d) \cup {fan[d].cursor} :
                     /\ \A t \in Page(d) : t <= last
                     /\ fan' = [fan EXCEPT
                          ![d].pc = IF Page(d) = Ahead(d) THEN "complete" ELSE BeforePage(d),
                          ![d].count = @ + Cardinality(Page(d)),
                          ![d].cursor = last, ![d].wide = FALSE]
           ELSE FanGoto(d, "fail") /\ UNCHANGED send
  BY DEF FanOutPage
<1>3. UNCHANGED <<tables, req, jobQ, pending, crashes>> /\ faults' \in Nat
  BY <1>1, <1>2, CallTypes DEF FanOutPage
<1>4. UNCHANGED <<job, row, expired, valid, assoc>>
  BY <1>3 DEF tables
<1>5. CASE answer = "failed"
  <2>1. FanGoto(d, "fail") /\ SameTables /\ JobsEnd /\ job' \in [Requests -> JobStatus]
    BY <1>1, <1>2, <1>3, <1>4, <1>5, TypeParts DEF SameTables, JobsEnd
  <2>2. "fail" \in FanoutPC \ {"idle", "complete"} /\ "fail" \notin Sweeping
    BY DEF FanoutPC, Sweeping
  <2> QED
    BY <1>1, <1>3, <1>4, <2>1, <2>2, FanMove
<1>6. CASE answer = "ok"
  <2>1. PICK P : P = Page(d)
    OBVIOUS
  <2>2. PICK c : c = fan[d].cursor
    OBVIOUS
  <2>3. PICK last \in P \cup {c}, pc \in {"complete", "check", "scope"} :
          /\ \A t \in P : t <= last
          /\ fan' = [fan EXCEPT ![d].pc = pc, ![d].count = @ + Cardinality(P),
                                ![d].cursor = last, ![d].wide = FALSE]
          /\ pc = "complete" <=> P = Ahead(d)
    BY <1>2, <1>6, <2>1, <2>2 DEF BeforePage
  <2>4. send' = [send EXCEPT ![d] = [t \in Tokens |-> IF t \in P THEN "task" ELSE send[d][t]]]
    BY <1>2, <1>6, <2>1
  <2>5. /\ P \subseteq Tokens /\ P \subseteq Ahead(d) /\ c \in Nat /\ Ahead(d) \subseteq Tokens
        /\ \A t \in P : t > c
        /\ \A t \in Ahead(d), u \in P : t <= u => t \in P
    BY <1>1, <2>1, <2>2, PageFirst, AtTypes
  <2>6. last \in Nat /\ c <= last /\ (last # c => last \in P)
    BY <2>3, <2>5, ConstantTypes
  <2>7. /\ fan[d].count = Cardinality(Emitted(d)) /\ \A t \in Emitted(d) : t <= c
        /\ d \in Running
    BY <1>1, <2>2 DEF Tally, Running
  <2>8. P \cap Emitted(d) = {}
    BY <2>5, <2>7, SetsOf, ConstantTypes
  <2>9. \A t \in P : send[d][t] = "none"
    BY <2>5, <2>8 DEF Emitted
  <2>10. send \in [Requests -> [Tokens -> SendState]] /\ fan \in [Requests -> FanState]
         /\ Cardinality(P) \in Nat
    BY <1>1, <2>5, TypeParts, TokenSets
  <2>11. /\ send' \in [Requests -> [Tokens -> SendState]]
         /\ \A z \in Requests : z # d => send'[z] = send[z]
         /\ \A t \in Tokens : send'[d][t] = IF t \in P THEN "task" ELSE send[d][t]
    BY <2>4, <2>10 DEF SendState
  <2>12. /\ fan' \in [Requests -> FanState] /\ fan'[d].pc = pc /\ fan'[d].cursor = last
         /\ fan'[d].count = fan[d].count + Cardinality(P)
         /\ \A z \in Requests : z # d => fan'[z] = fan[z]
    <3> DEFINE n == fan[d].count + Cardinality(P)
               q == [fan[d] EXCEPT !.pc = pc, !.count = n, !.cursor = last, !.wide = FALSE]
    <3>1. n \in Nat /\ pc \in FanoutPC /\ fan[d] \in FanState
      BY <1>1, <2>10, AtTypes DEF FanoutPC
    <3>2. fan' = [fan EXCEPT ![d] = q]
      BY <2>3, <2>10
    <3> HIDE DEF n
    <3>3. q \in FanState /\ q.pc = pc /\ q.count = n /\ q.cursor = last
      BY <2>6, <3>1 DEF FanState
    <3> HIDE DEF q
    <3> QED
      BY <2>10, <3>2, <3>3 DEF n
  <2>13. /\ Emitted(d)' = Emitted(d) \cup P
         /\ Out(d)' = Out(d) \cup P /\ Missed(d)' = Missed(d)
    BY <1>3, <1>4, <2>5, <2>9, <2>11 DEF Emitted, Out, Missed, ActivityOf, JobOf
  <2>14. Out(d) \cap P = {} /\ (Out(d) \cup Missed(d)) \cap P = {}
    BY <1>1, <2>5, <2>9 DEF Out, Missed, Tally
  <2>15. /\ Cardinality(Emitted(d)') = Cardinality(Emitted(d)) + Cardinality(P)
         /\ Cardinality(Out(d)') = Cardinality(Out(d)) + Cardinality(P)
         /\ Cardinality(Out(d)' \cup Missed(d)') = Cardinality(Out(d) \cup Missed(d)) + Cardinality(P)
    <3>1. Out(d)' \cup Missed(d)' = (Out(d) \cup Missed(d)) \cup P
      BY <2>13
    <3>2. Emitted(d) \subseteq Tokens /\ Out(d) \subseteq Tokens /\ Out(d) \cup Missed(d) \subseteq Tokens
      BY SetsOf
    <3> QED
      BY <2>5, <2>8, <2>13, <2>14, <3>1, <3>2, Disjoint
  <2>16. fan'[d].count <= Cardinality(Tokens)
    <3>1. Emitted(d)' \in SUBSET Tokens
      BY DEF Emitted
    <3> QED
      BY <2>7, <2>12, <2>15, <3>1, TokenSets
  <2>17. Growing
    BY <1>3, <1>4, <2>9, <2>11 DEF Growing
  <2>18. Running' \subseteq Running
    BY <2>7, <2>12 DEF Running
  <2>19. row'[d] = row[d] /\ row[d].status = "IN_PROGRESS" /\ req'[d] = req[d]
    BY <1>1, <1>3, <1>4 DEF Placed
  <2>20. Placed(d)'
    <3>1. Queued(d)' <=> Queued(d)
      BY <1>3 DEF Queued
    <3> QED
      BY <1>1, <2>3, <2>12, <2>19, <3>1 DEF Placed
  <2>21. Tally(d)'
    <3>1. \A t \in Tokens : <<d, t>> \in pending' => send'[d][t] \in {"ok", "invalidToken", "refused"}
      BY <1>1, <1>3, <2>9, <2>11 DEF Tally
    <3>2. /\ fan'[d].count = Cardinality(Emitted(d)')
          /\ \A t \in Emitted(d)' : t <= fan'[d].cursor
      <4>1. \A t \in Emitted(d) : t <= last
        <5>1. \A t \in Emitted(d) : t \in Nat /\ t <= c
          BY <2>7, SetsOf, ConstantTypes
        <5>2. c \in Nat /\ last \in Nat /\ c <= last
          BY <2>5, <2>6
        <5> QED
          BY <5>1, <5>2
      <4> QED
        BY <2>3, <2>7, <2>12, <2>13, <2>15, <4>1
    <3>3. Known(d)' = Known(d) /\ crashes' = crashes
      BY <1>3, <1>4 DEF Known
    <3>4. /\ Known(d) \in Nat /\ Cardinality(Emitted(d)) \in Nat /\ Cardinality(Out(d)) \in Nat
          /\ Cardinality(Out(d) \cup Missed(d)) \in Nat
      BY <1>1, SetsOf, AtTypes
    <3>5. "apply" \notin Unsure => Known(d)' + Cardinality(Out(d)' \cup Missed(d)') <= Cardinality(Emitted(d)')
      <4>1. "apply" \notin Unsure => Known(d) + Cardinality(Out(d) \cup Missed(d)) <= Cardinality(Emitted(d))
        BY <1>1 DEF Tally
      <4> QED
        BY <2>10, <2>15, <3>3, <3>4, <4>1
    <3>6. "apply" \notin Unsure /\ crashes' = 0 => Known(d)' + Cardinality(Out(d)') = Cardinality(Emitted(d)')
      <4>1. "apply" \notin Unsure /\ crashes = 0 => Known(d) + Cardinality(Out(d)) = Cardinality(Emitted(d))
        BY <1>1 DEF Tally
      <4> QED
        BY <2>10, <2>15, <3>3, <3>4, <4>1
    <3>7. fan'[d].count <= Cardinality(Emitted(d)')
      BY <2>10, <2>15, <3>2, <3>4
    <3> QED
      BY <3>1, <3>2, <3>5, <3>6, <3>7 DEF Tally
  <2>22. Totals(d)'
    BY <2>19 DEF Totals
  <2>23. Swept(d)'
    <3>1. \A t \in Tokens : Dead(t) => Dead(t)'
      BY <2>17 DEF Dead, Growing
    <3>2. SUFFICES ASSUME req[d].action = "update", JobOf(d) \in Past
                   PROVE  \A t \in Steady : t <= last \/ pc = "complete" => t \in Emitted(d)' \/ Dead(t)'
      BY <1>3, <2>12, <2>19 DEF Swept, JobOf, Steady, UpdateTokens
    <3>3. TAKE t \in Steady
    <3>4. HAVE t <= last \/ pc = "complete"
    <3>5. t \in Tokens /\ t \in Nat
      BY ConstantTypes DEF Steady, UpdateTokens
    <3>6. CASE t <= c
      <4>1. t \in Emitted(d) \/ Dead(t)
        BY <1>1, <2>2, <3>2, <3>6 DEF Swept, Sweeping
      <4> QED
        BY <2>13, <3>1, <3>5, <4>1
    <3>7. CASE t > c
      <4>1. t \in Ahead(d) \/ Dead(t)
        BY <2>2, <3>2, <3>7, SteadyAhead
      <4>2. t \in Ahead(d) => t \in P
        BY <2>3, <2>5, <2>6, <3>4, <3>5, <3>7
      <4> QED
        BY <2>13, <3>1, <3>5, <4>1, <4>2
    <3> QED
      BY <2>5, <3>5, <3>6, <3>7
  <2> QED
    BY <1>1, <1>3, <1>4, <2>10, <2>11, <2>12, <2>16, <2>17, <2>18, <2>20, <2>21, <2>22, <2>23,
       TypeParts, LaneStep
<1> QED
  BY <1>2, <1>5, <1>6

LEMMA SendKeeps ==
  ASSUME IInv, NEW d \in Requests, NEW t \in Tokens, NEW result \in Results,
         DispatchLATask(d, t, result)
  PROVE  IInv'
<1>1. TypeOK /\ InLane(d) /\ Placed(d) /\ Tally(d) /\ Totals(d) /\ Swept(d)
  BY DEF IInv, Dispatches, InLane
<1>2. /\ send[d][t] = "task" /\ send' = [send EXCEPT ![d][t] = result]
      /\ pending' = pending \cup {<<d, t>>}
      /\ UNCHANGED <<tables, req, jobQ, fan, faults, crashes>>
  BY DEF DispatchLATask
<1>3. UNCHANGED <<job, row, expired, valid, assoc>>
  BY <1>2 DEF tables
<1>4. result \in {"ok", "invalidToken", "refused"} /\ result \in SendState
  BY ConstantTypes DEF SendState
<1>5. /\ send' \in [Requests -> [Tokens -> SendState]]
      /\ \A z \in Requests : z # d => send'[z] = send[z]
      /\ \A u \in Tokens : send'[d][u] = IF u = t THEN result ELSE send[d][u]
  BY <1>1, <1>2, <1>4, TypeParts
<1>6. /\ pending' \subseteq Requests \X Tokens
      /\ \A z \in Requests, u \in Tokens : <<z, u>> \in pending' <=> <<z, u>> \in pending \/ (z = d /\ u = t)
  BY <1>1, <1>2, TypeParts
<1>7. Emitted(d)' = Emitted(d) /\ Known(d)' = Known(d)
  BY <1>2, <1>3, <1>4, <1>5 DEF Emitted, Known
<1>8. Out(d)' = Out(d)
  BY <1>2, <1>4, <1>5, <1>6 DEF Out
<1>9. Out(d)' \cup Missed(d)' \subseteq Out(d) \cup Missed(d)
  <2>1. Missed(d)' \subseteq Missed(d) \cup {t}
    BY <1>2, <1>3, <1>5 DEF Missed, ActivityOf, JobOf
  <2>2. t \in Out(d)
    BY <1>2 DEF Out
  <2> QED
    BY <1>8, <2>1, <2>2
<1>10. Growing
  BY <1>2, <1>3, <1>5 DEF Growing
<1>11. Placed(d)'
  <2>1. (Queued(d)' <=> Queued(d)) /\ row'[d] = row[d] /\ fan'[d] = fan[d] /\ req'[d] = req[d]
    BY <1>2, <1>3 DEF Queued
  <2> QED
    BY <1>1, <1>7, <2>1 DEF Placed
<1>12. Totals(d)'
  BY <1>1, <1>3, <1>7 DEF Totals
<1>13. Tally(d)'
  <2>1. \A u \in Tokens : <<d, u>> \in pending' => send'[d][u] \in {"ok", "invalidToken", "refused"}
    BY <1>1, <1>4, <1>5, <1>6 DEF Tally
  <2>2. "apply" \notin Unsure => Known(d)' + Cardinality(Out(d)' \cup Missed(d)') <= Cardinality(Emitted(d)')
    <3>1. "apply" \notin Unsure => Known(d) + Cardinality(Out(d) \cup Missed(d)) <= Cardinality(Emitted(d))
      BY <1>1 DEF Tally
    <3>2. Out(d) \cup Missed(d) \in SUBSET Tokens
      BY SetsOf
    <3>3. /\ Cardinality(Out(d)' \cup Missed(d)') <= Cardinality(Out(d) \cup Missed(d))
          /\ Cardinality(Out(d)' \cup Missed(d)') \in Nat
      BY <1>9, <3>2, TokenSets
    <3>4. Known(d) \in Nat /\ Cardinality(Emitted(d)) \in Nat /\ Cardinality(Out(d) \cup Missed(d)) \in Nat
      BY <1>1, SetsOf, AtTypes
    <3> QED
      BY <1>7, <3>1, <3>3, <3>4
  <2>3. "apply" \notin Unsure /\ crashes' = 0 => Known(d)' + Cardinality(Out(d)') = Cardinality(Emitted(d)')
    BY <1>1, <1>2, <1>7, <1>8 DEF Tally
  <2>4. /\ fan'[d].count <= Cardinality(Emitted(d)')
        /\ (d \in Running)' => /\ fan'[d].count = Cardinality(Emitted(d)')
                               /\ \A u \in Emitted(d)' : u <= fan'[d].cursor
    BY <1>1, <1>2, <1>7 DEF Tally, Running
  <2> QED
    BY <2>1, <2>2, <2>3, <2>4 DEF Tally
<1>14. Swept(d)'
  <2>1. \A u \in Tokens : Dead(u) => Dead(u)'
    BY <1>10 DEF Dead, Growing
  <2> QED
    BY <1>1, <1>2, <1>3, <1>7, <2>1 DEF Swept, JobOf, Steady, UpdateTokens
<1>15. /\ fan' \in [Requests -> FanState] /\ fan' = fan /\ fan'[d].count <= Cardinality(Tokens)
       /\ faults' \in Nat /\ Running' \subseteq Running
  BY <1>1, <1>2, TypeParts DEF Running
<1>16. \A z \in Requests : z # d => \A u \in Tokens : <<z, u>> \in pending' <=> <<z, u>> \in pending
  BY <1>6
<1> QED
  BY <1>2, <1>5, <1>6, <1>10, <1>11, <1>12, <1>13, <1>14, <1>15, <1>16, LaneStep

-----------------------------------------------------------------------------
(***************************************************************************)
(* The outcome worker.                                                     *)
(***************************************************************************)

\* The outcomes of one dispatch are as many as their tokens.
LEMMA Paired ==
  ASSUME NEW d, NEW S \in SUBSET Tokens
  PROVE  Cardinality({<<d, t>> : t \in S}) = Cardinality(S)
<1> DEFINE f == [t \in S |-> <<d, t>>]
           P == {<<d, t>> : t \in S}
<1>1. f \in [S -> P] /\ \A t \in S : f[t] = <<d, t>>
  OBVIOUS
<1>2. \A t, u \in S : f[t] = f[u] => t = u
  BY <1>1
<1>3. \A p \in P : \E t \in S : f[t] = p
  BY <1>1
<1>4. f \in Bijection(S, P)
  BY <1>1, <1>2, <1>3 DEF Bijection, Injection, Surjection, IsInjective
<1>5. IsFiniteSet(S)
  BY TokenSets
<1> QED
  BY <1>4, <1>5, FS_Bijection DEF ExistsBijection

InBatch(d, batch) == {t \in Tokens : <<d, t>> \in batch}

\* What a batch does to the row of a dispatch.
LEMMA CountedRow ==
  ASSUME IInv, NEW d \in Requests, NEW batch \in SUBSET pending, NEW x, x = Counted(d, batch)
  PROVE  /\ x \in RowState /\ x.total = row[d].total
         /\ x.succ + x.fail = Known(d) + Cardinality(InBatch(d, batch))
         /\ \/ x.status = row[d].status
            \/ row[d].status = "DISPATCHED" /\ x.status = "COMPLETED"
         /\ x.status = "COMPLETED" => row[d].status = "COMPLETED" \/ x.succ + x.fail >= x.total
         /\ x.status = "DISPATCHED" => InBatch(d, batch) = {} \/ x.succ + x.fail < x.total
<1>1. TypeOK /\ Tally(d) /\ pending \subseteq Requests \X Tokens
  BY TypeParts DEF IInv, Dispatches, InLane
<1> DEFINE B == InBatch(d, batch)
           Of(results) == Cardinality({o \in batch : o[1] = d /\ send[d][o[2]] \in results})
           In(results) == {t \in B : send[d][t] \in results}
<1>2. /\ B \subseteq Tokens /\ \A results : In(results) \subseteq Tokens
      /\ \A o \in batch : o = <<o[1], o[2]>> /\ o[2] \in Tokens
      /\ \A t \in B : <<d, t>> \in batch /\ send[d][t] \in {"ok", "invalidToken", "refused"}
      /\ \A o \in batch : o[1] = d => o[2] \in B
  <2>1. \A o \in batch : o = <<o[1], o[2]>> /\ o[2] \in Tokens
    BY <1>1
  <2>2. \A t \in B : <<d, t>> \in batch /\ <<d, t>> \in pending /\ t \in Tokens
    BY DEF InBatch
  <2>3. \A t \in Tokens : <<d, t>> \in pending => send[d][t] \in {"ok", "invalidToken", "refused"}
    BY <1>1 DEF Tally
  <2> QED
    BY <2>1, <2>2, <2>3 DEF InBatch
<1>3. \A results : Of(results) = Cardinality(In(results)) /\ Of(results) \in Nat
  <2> SUFFICES ASSUME NEW results
               PROVE  Of(results) = Cardinality(In(results)) /\ Of(results) \in Nat
    OBVIOUS
  <2>1. {o \in batch : o[1] = d /\ send[d][o[2]] \in results} = {<<d, t>> : t \in In(results)}
    <3>1. ASSUME NEW o \in batch, o[1] = d, send[d][o[2]] \in results
          PROVE  o \in {<<d, t>> : t \in In(results)}
      <4>1. o[2] \in In(results) /\ o = <<d, o[2]>>
        BY <1>2, <3>1
      <4> QED
        BY <4>1
    <3>2. ASSUME NEW t \in In(results)
          PROVE  <<d, t>> \in batch /\ send[d][t] \in results
      BY <1>2
    <3> QED
      BY <3>1, <3>2
  <2> DEFINE S == In(results)
  <2>2. S \in SUBSET Tokens
    BY <1>2
  <2>3. Of(results) = Cardinality({<<d, t>> : t \in S})
    BY <2>1
  <2> HIDE DEF S
  <2>4. Cardinality({<<d, t>> : t \in S}) = Cardinality(S)
    BY <2>2, Paired
  <2>5. Cardinality(S) \in Nat
    BY <2>2, TokenSets
  <2>6. Of(results) = Cardinality(S) /\ Of(results) \in Nat
    BY ONLY <2>3, <2>4, <2>5
  <2> QED
    BY ONLY <2>6 DEF S
<1>4. Of({"ok"}) + Of({"invalidToken", "refused"}) = Cardinality(B)
  <2>1. /\ In({"ok"}) \cup In({"invalidToken", "refused"}) = B
        /\ In({"ok"}) \cap In({"invalidToken", "refused"}) = {}
    BY <1>2
  <2>2. In({"ok"}) \subseteq Tokens /\ In({"invalidToken", "refused"}) \subseteq Tokens
    BY <1>2
  <2>3. Of({"ok"}) = Cardinality(In({"ok"}))
    BY <1>3
  <2>4. Of({"invalidToken", "refused"}) = Cardinality(In({"invalidToken", "refused"}))
    BY <1>3
  <2> HIDE DEF In, Of, B
  <2> QED
    BY <2>1, <2>2, <2>3, <2>4, Disjoint
<1> DEFINE s == row[d].succ + Of({"ok"})
           f == row[d].fail + Of({"invalidToken", "refused"})
           y == [row[d] EXCEPT !.succ = s, !.fail = f]
<1>5. /\ row[d] \in RowState /\ row[d].succ \in Nat /\ row[d].fail \in Nat
      /\ Known(d) = row[d].succ + row[d].fail /\ row[d].total \in Nat
  BY <1>1, TypeParts, AtTypes DEF Known
<1>6. Of({"ok"}) \in Nat /\ Of({"invalidToken", "refused"}) \in Nat
  BY <1>3
<1>7. x = IF B # {} THEN IfReady(y) ELSE row[d]
  <2>1. y = [row[d] EXCEPT !.succ = @ + Of({"ok"}), !.fail = @ + Of({"invalidToken", "refused"})]
    BY <1>5 DEF RowState
  <2>2. (\E o \in batch : o[1] = d) <=> B # {}
    <3>1. \A t \in B : <<d, t>> \in batch /\ <<d, t>>[1] = d
      BY <1>2
    <3> QED
      BY <1>2, <3>1
  <2> QED
    BY <2>1, <2>2 DEF Counted
<1> HIDE DEF Of
<1>8. s \in Nat /\ f \in Nat /\ s + f = Known(d) + Cardinality(B)
  BY <1>4, <1>5, <1>6
<1> HIDE DEF s, f
<1>9. /\ y \in RowState /\ y.succ = s /\ y.fail = f /\ y.total = row[d].total
      /\ y.status = row[d].status
  BY <1>5, <1>8 DEF RowState
<1> DEFINE z == [y EXCEPT !.status = "COMPLETED"]
<1> HIDE DEF y
<1>10. /\ z \in RowState /\ z.succ = s /\ z.fail = f /\ z.total = row[d].total
       /\ z.status = "COMPLETED"
  BY <1>9 DEF RowState, DispatchStatus
<1>11. IfReady(y) = IF y.status = "DISPATCHED" /\ s + f >= row[d].total THEN z ELSE y
  BY <1>9 DEF IfReady
<1> HIDE DEF z, B
<1>12. CASE B = {}
  <2>1. x = row[d] /\ Cardinality(B) = 0
    BY <1>7, <1>12, FS_EmptySet
  <2> QED
    BY <1>5, <1>12, <2>1 DEF B
<1>13. CASE B # {} /\ y.status = "DISPATCHED" /\ s + f >= row[d].total
  <2>1. x = z
    BY <1>7, <1>11, <1>13
  <2> QED
    BY <1>8, <1>9, <1>10, <1>13, <2>1 DEF B
<1>14. CASE B # {} /\ ~(y.status = "DISPATCHED" /\ s + f >= row[d].total)
  <2>1. x = y
    BY <1>7, <1>11, <1>14
  <2>2. s + f >= row[d].total \/ s + f < row[d].total
    BY <1>5, <1>8
  <2> QED
    BY <1>8, <1>9, <1>14, <2>1, <2>2 DEF B
<1> QED
  BY <1>12, <1>13, <1>14

\* A step outside the lane: registrations, invalidations, the clock.
LEMMA QuietKeeps ==
  ASSUME IInv, UNCHANGED <<job, row, req, lane, crashes>>, faults' \in Nat,
         expired' \subseteq Perishable, valid' \subseteq Tokens, valid \ valid' \subseteq Volatile,
         assoc \subseteq assoc', assoc' \subseteq Activities \X Tokens
  PROVE  IInv'
<1>1. TypeOK /\ Handlers /\ QueuedOnce /\ Kept /\ \A z \in Requests : InLane(z)
  BY DEF IInv, Dispatches
<1>2. UNCHANGED <<jobQ, fan, send, pending>>
  BY DEF lane
<1>3. Growing /\ Reaching
  BY <1>2 DEF Growing, Reaching, Reached
<1>4. TypeOK'
  <2>1. Running' = Running
    BY <1>2 DEF Running
  <2>2. (Cardinality(Running) <= Masters)'
    BY <1>1, <2>1, RunningFrame
  <2> HIDE DEF Running
  <2> QED
    BY <1>1, <1>2, <2>2 DEF TypeOK
<1>5. Handlers'
  <2>1. JobsEnd
    BY DEF JobsEnd
  <2> QED
    BY <1>1, <2>1, HandlersFrame
<1>6. ASSUME NEW z \in Requests
      PROVE  InLane(z)'
  <2>1. SameLane(z) /\ SameAim(z) /\ (Queued(z)' <=> Queued(z))
    BY <1>2 DEF SameLane, SameSends, SameAim, Queued
  <2> QED
    BY <1>1, <1>3, <2>1, Aside
<1>7. Kept' /\ QueuedOnce'
  <2>1. Kept'
    BY <1>1, <1>3, KeptFrame
  <2> QED
    BY <1>1, <1>2, <2>1 DEF QueuedOnce
<1> QED
  BY <1>4, <1>5, <1>6, <1>7 DEF IInv, Dispatches

LEMMA TokensKeep ==
  ASSUME IInv,
         \/ \E t \in Tokens : InvalidateLAToken(t) \/ \E a \in Activities : RegisterLAToken(t, a)
         \/ \E j \in Requests : Expire(j)
  PROVE  IInv'
<1>1. /\ valid \subseteq Tokens /\ assoc \subseteq Activities \X Tokens /\ faults \in Nat
      /\ expired \subseteq Perishable
  BY TypeParts DEF IInv, TypeOK
<1>2. CASE \E t \in Tokens : InvalidateLAToken(t)
  BY <1>1, <1>2, QuietKeeps DEF InvalidateLAToken
<1>3. CASE \E t \in Tokens, a \in Activities : RegisterLAToken(t, a)
  BY <1>1, <1>3, QuietKeeps DEF RegisterLAToken
<1>4. CASE \E j \in Requests : Expire(j)
  BY <1>1, <1>4, QuietKeeps DEF Expire
<1> QED
  BY <1>2, <1>3, <1>4

\* The counters of a dispatch after a batch: what was on its way is counted,
\* and a start that is counted has associated its device.  A batch that is
\* kept although it was counted needs a commit that may be ambiguous.
LEMMA CountedTally ==
  ASSUME IInv, NEW d \in Requests, NEW batch \in SUBSET pending,
         pending' \subseteq pending, "apply" \notin Unsure => pending' = pending \ batch,
         row'[d] = Counted(d, batch), UNCHANGED <<req, fan, send, crashes>>,
         assoc' = assoc \cup
           {<<ActivityOf(o[1]), o[2]>> : o \in {p \in batch :
              /\ send[p[1]][p[2]] = "ok" /\ req[p[1]].action = "start"
              /\ Kind[p[2]] = "fcm"}}
  PROVE  Tally(d)'
<1>1. TypeOK /\ Tally(d)
  BY DEF IInv, Dispatches, InLane
<1>2. Emitted(d)' = Emitted(d)
  BY DEF Emitted
<1>3. ASSUME "apply" \notin Unsure
      PROVE  /\ Known(d)' + Cardinality(Out(d)' \cup Missed(d)') <= Cardinality(Emitted(d)')
             /\ crashes' = 0 => Known(d)' + Cardinality(Out(d)') = Cardinality(Emitted(d)')
  <2>1. pending' = pending \ batch
    BY <1>3
  <2>2. PICK B : B = InBatch(d, batch)
    OBVIOUS
  <2>3. PICK k : k = Counted(d, batch)
    OBVIOUS
  <2>4. k.succ + k.fail = Known(d) + Cardinality(B)
    BY <2>2, <2>3, CountedRow
  <2>5. Known(d)' = Known(d) + Cardinality(B)
    BY <2>3, <2>4 DEF Known
  <2>6. B \subseteq Tokens /\ B \subseteq Out(d) /\ Cardinality(B) \in Nat
    <3>1. B \subseteq Tokens /\ B \subseteq Out(d)
      BY <2>2 DEF InBatch, Out
    <3> QED
      BY <3>1, TokenSets
  <2>7. Out(d)' \cap B = {} /\ Out(d)' \cup B = Out(d)
    <3>1. \A t \in B : send[d][t] # "task" /\ <<d, t>> \in batch
      BY <1>1, <2>2 DEF Tally, InBatch
    <3>2. \A t \in Tokens : t \notin B => <<d, t>> \notin batch
      BY <2>2 DEF InBatch
    <3> QED
      BY <2>1, <2>6, <3>1, <3>2 DEF Out
  <2>8. Missed(d)' \cap B = {} /\ Missed(d)' \subseteq Missed(d)
    <3>1. ASSUME NEW t \in B, send[d][t] = "ok", Kind[t] = "fcm", req[d].action = "start"
          PROVE  <<ActivityOf(d), t>> \in assoc'
      <4>1. <<d, t>> \in batch /\ <<d, t>>[1] = d /\ <<d, t>>[2] = t
        BY <2>2 DEF InBatch
      <4> QED
        BY <3>1, <4>1
    <3>2. ActivityOf(d)' = ActivityOf(d) /\ assoc \subseteq assoc'
      BY DEF ActivityOf, JobOf
    <3> QED
      BY <3>1, <3>2 DEF Missed
  <2>9. Cardinality(Out(d)) = Cardinality(Out(d)') + Cardinality(B)
    <3>1. Out(d)' \subseteq Tokens
      BY <2>6, <2>7, SetsOf
    <3> QED
      BY <2>6, <2>7, <3>1, Disjoint
  <2>10. /\ Cardinality(Out(d)' \cup Missed(d)') + Cardinality(B) <= Cardinality(Out(d) \cup Missed(d))
         /\ Cardinality(Out(d)' \cup Missed(d)') \in Nat
    <3> DEFINE S == Out(d)' \cup Missed(d)'
    <3>1. S \subseteq Tokens /\ S \cap B = {} /\ S \cup B \subseteq Out(d) \cup Missed(d)
          /\ Out(d) \cup Missed(d) \in SUBSET Tokens
      BY <2>6, <2>7, <2>8, SetsOf
    <3> HIDE DEF S
    <3>2. Cardinality(S \cup B) = Cardinality(S) + Cardinality(B) /\ Cardinality(S) \in Nat
      BY <2>6, <3>1, Disjoint, TokenSets
    <3>3. Cardinality(S \cup B) <= Cardinality(Out(d) \cup Missed(d))
      BY <3>1, TokenSets
    <3> QED
      BY <3>2, <3>3 DEF S
  <2>11. /\ Known(d) \in Nat /\ Cardinality(Emitted(d)) \in Nat /\ Cardinality(Out(d)) \in Nat
         /\ Cardinality(Out(d) \cup Missed(d)) \in Nat /\ Cardinality(Out(d)') \in Nat
    <3>1. Out(d)' \subseteq Tokens
      BY <2>6, <2>7, SetsOf
    <3> QED
      BY <1>1, <3>1, SetsOf, AtTypes, TokenSets
  <2>12. Known(d)' + Cardinality(Out(d)' \cup Missed(d)') <= Cardinality(Emitted(d)')
    <3>1. Known(d) + Cardinality(Out(d) \cup Missed(d)) <= Cardinality(Emitted(d))
      BY <1>1, <1>3 DEF Tally
    <3> QED
      BY <1>2, <2>5, <2>6, <2>10, <2>11, <3>1
  <2>13. crashes' = 0 => Known(d)' + Cardinality(Out(d)') = Cardinality(Emitted(d)')
    <3>1. crashes = 0 => Known(d) + Cardinality(Out(d)) = Cardinality(Emitted(d))
      BY <1>1, <1>3 DEF Tally
    <3> QED
      BY <1>2, <2>5, <2>6, <2>9, <2>11, <3>1
  <2> QED
    BY <2>12, <2>13
<1>4. \A t \in Tokens : <<d, t>> \in pending' => send'[d][t] \in {"ok", "invalidToken", "refused"}
  BY <1>1 DEF Tally
<1>5. /\ fan'[d].count <= Cardinality(Emitted(d)')
      /\ (d \in Running)' => /\ fan'[d].count = Cardinality(Emitted(d)')
                             /\ \A u \in Emitted(d)' : u <= fan'[d].cursor
  BY <1>1, <1>2 DEF Tally, Running
<1> QED
  BY <1>3, <1>4, <1>5 DEF Tally

LEMMA FlushKeeps ==
  ASSUME IInv, NEW batch \in SUBSET pending, ApplyLAOutcomeBatch(batch)
  PROVE  IInv'
<1>1. TypeOK /\ Handlers /\ QueuedOnce /\ Kept /\ \A z \in Requests : InLane(z)
  BY DEF IInv, Dispatches
<1>2. PICK answer \in Answers :
       /\ Call("apply", answer)
       /\ pending' = IF answer = "ok" THEN pending \ batch ELSE pending
       /\ IF TakesEffect(answer)
          THEN /\ valid' = valid \ {o[2] : o \in {p \in batch : send[p[1]][p[2]] = "invalidToken"}}
               /\ assoc' = assoc \cup
                    {<<ActivityOf(o[1]), o[2]>> : o \in {p \in batch :
                       /\ send[p[1]][p[2]] = "ok" /\ req[p[1]].action = "start"
                       /\ Kind[p[2]] = "fcm"}}
               /\ row' = [d \in Requests |-> Counted(d, batch)]
               /\ job' = CloseEnded(row, row')
          ELSE UNCHANGED <<valid, assoc, row, job>>
  BY DEF ApplyLAOutcomeBatch
<1>3. UNCHANGED <<expired, req, jobQ, fan, send, crashes>> /\ faults' \in Nat
  BY <1>1, <1>2, CallTypes DEF ApplyLAOutcomeBatch
<1>4. CASE answer = "failed"
  <2>1. UNCHANGED <<pending, valid, assoc, row, job>>
    BY <1>2, <1>4 DEF TakesEffect
  <2>2. expired \subseteq Perishable /\ valid \subseteq Tokens /\ assoc \subseteq Activities \X Tokens
    BY <1>1, TypeParts DEF TypeOK
  <2> QED
    BY <1>3, <2>1, <2>2, QuietKeeps DEF lane
<1>5. CASE answer # "failed"
  <2>1. /\ pending' \subseteq pending /\ ("apply" \notin Unsure => pending' = pending \ batch)
        /\ valid' = valid \ {o[2] : o \in {p \in batch : send[p[1]][p[2]] = "invalidToken"}}
        /\ assoc' = assoc \cup
             {<<ActivityOf(o[1]), o[2]>> : o \in {p \in batch :
                /\ send[p[1]][p[2]] = "ok" /\ req[p[1]].action = "start"
                /\ Kind[p[2]] = "fcm"}}
        /\ row' = [d \in Requests |-> Counted(d, batch)]
        /\ job' = CloseEnded(row, row')
    BY <1>2, <1>5 DEF TakesEffect, Answers, Call
  <2>2. \A o \in batch : o[1] \in Requests /\ o[2] \in Tokens
    BY <1>1, TypeParts
  <2>3. /\ pending' \subseteq Requests \X Tokens /\ valid' \subseteq Tokens
        /\ assoc' \subseteq Activities \X Tokens /\ assoc \subseteq assoc'
    <3>1. pending' \subseteq Requests \X Tokens /\ valid' \subseteq Tokens /\ assoc \subseteq assoc'
      BY <1>1, <2>1, TypeParts
    <3>2. \A o \in batch : ActivityOf(o[1]) \in Activities
      BY <1>1, <2>2, AtTypes DEF ActivityOf
    <3> QED
      BY <1>1, <2>1, <2>2, <3>1, <3>2, TypeParts
  <2>4. ASSUME NEW z \in Requests
        PROVE  /\ row'[z] \in RowState /\ row'[z].total = row[z].total
               /\ row'[z].succ + row'[z].fail = Known(z) + Cardinality(InBatch(z, batch))
               /\ \/ row'[z].status = row[z].status
                  \/ row[z].status = "DISPATCHED" /\ row'[z].status = "COMPLETED"
               /\ row'[z].status = "COMPLETED" =>
                    row[z].status = "COMPLETED" \/ row'[z].succ + row'[z].fail >= row'[z].total
               /\ row'[z].status = "DISPATCHED" =>
                    InBatch(z, batch) = {} \/ row'[z].succ + row'[z].fail < row'[z].total
    <3>1. PICK x : x = Counted(z, batch)
      OBVIOUS
    <3>2. row'[z] = x
      BY <2>1, <3>1
    <3> QED
      BY <3>1, <3>2, CountedRow
  <2>5. row' \in [Requests -> RowState]
    BY <2>1, <2>4
  <2>6. JobsEnd /\ job' \in [Requests -> JobStatus]
    BY <1>1, <2>1, TypeParts DEF JobsEnd, CloseEnded, JobStatus
  <2>7. Handlers'
    BY <1>1, <1>3, <2>6, HandlersFrame
  <2>8. Growing
    BY <1>3, <2>3 DEF Growing
  <2>9. Reaching
    BY <1>3, <2>4 DEF Reaching, Reached
  <2>10. TypeOK'
    <3>1. Running' = Running
      BY <1>3 DEF Running
    <3>2. (Cardinality(Running) <= Masters)'
      BY <1>1, <3>1, RunningFrame
    <3> HIDE DEF Running
    <3> QED
      BY <1>1, <1>3, <2>3, <2>5, <2>6, <3>2 DEF TypeOK, RowState
  <2>11. ASSUME NEW z \in Requests
         PROVE  InLane(z)'
    <3>1. Placed(z) /\ Totals(z) /\ Replaced(z) /\ Swept(z)
      BY <1>1 DEF InLane
    <3>2. Emitted(z)' = Emitted(z) /\ (Queued(z)' <=> Queued(z)) /\ req'[z] = req[z] /\ fan'[z] = fan[z]
      BY <1>3 DEF Emitted, Queued
    <3>3. Placed(z)'
      BY <2>4, <3>1, <3>2 DEF Placed, Superseding
    <3>4. Tally(z)'
      <4>1. row'[z] = Counted(z, batch)
        BY <2>1
      <4> QED
        BY <1>3, <2>1, <4>1, CountedTally
    <3>5. Totals(z)'
      <4>1. Known(z)' = Known(z) + Cardinality(InBatch(z, batch)) /\ Known(z)' = row'[z].succ + row'[z].fail
        BY <2>4 DEF Known
      <4>2. Known(z) \in Nat /\ row[z].total \in Nat /\ Cardinality(InBatch(z, batch)) \in Nat
        <5>1. InBatch(z, batch) \subseteq Tokens
          BY DEF InBatch
        <5> QED
          BY <1>1, <5>1, AtTypes, TokenSets
      <4>3. InBatch(z, batch) = {} => Cardinality(InBatch(z, batch)) = 0
        BY FS_EmptySet
      <4>4. row'[z].status \in {"DISPATCHED", "COMPLETED", "SUPERSEDED"} =>
              row'[z].total = Cardinality(Emitted(z))
        BY <2>4, <3>1 DEF Totals
      <4>5. row'[z].status = "COMPLETED" => Known(z)' >= row'[z].total
        <5>1. row[z].status = "COMPLETED" => Known(z) >= row[z].total
          BY <3>1 DEF Totals
        <5> QED
          BY <2>4, <4>1, <4>2, <5>1
      <4>6. row'[z].status = "DISPATCHED" => Known(z)' < row'[z].total
        <5>1. row[z].status = "DISPATCHED" => Known(z) < row[z].total
          BY <3>1 DEF Totals
        <5>2. row'[z].status = "DISPATCHED" => row[z].status = "DISPATCHED"
          BY <2>4
        <5> QED
          BY <2>4, <4>1, <4>2, <4>3, <5>1, <5>2
      <4> QED
        BY <3>2, <4>4, <4>5, <4>6 DEF Totals
    <3>6. Replaced(z)'
      BY <1>3, <2>4, <2>9, <3>1, ReplacedFrame
    <3>7. Swept(z)'
      <4>1. \A t \in Tokens : Dead(t) => Dead(t)'
        BY <2>8 DEF Dead, Growing
      <4>2. row'[z].status \in {"DISPATCHED", "COMPLETED"} => row[z].status \in {"DISPATCHED", "COMPLETED"}
        BY <2>4
      <4>3. JobOf(z)' = JobOf(z)
        BY <1>3 DEF JobOf
      <4> QED
        BY <3>1, <3>2, <4>1, <4>2, <4>3 DEF Swept, Steady, UpdateTokens
    <3> QED
      BY <3>3, <3>4, <3>5, <3>6, <3>7 DEF InLane
  <2>12. Kept'
    <3>1. \A t \in Tokens : Dead(t) => Dead(t)'
      BY <2>8 DEF Dead, Growing
    <3>2. ASSUME NEW t \in valid, t \notin valid'
          PROVE  Dead(t)
      BY <2>1, <2>2, <3>2 DEF Dead
    <3>3. \A t \in Steady : t \in Tokens
      BY DEF Steady, UpdateTokens
    <3>4. \A t \in Steady : t \in valid' \/ Dead(t)'
      BY <1>1, <3>1, <3>2, <3>3 DEF Kept
    <3>5. \A r \in Past : /\ req'[r].pc = "accepted" /\ req'[r].action = "start" /\ req'[r].job = r
                          /\ \A t \in UpdateTokens : <<req'[r].act, t>> \in assoc'
      BY <1>1, <1>3, <2>3 DEF Kept
    <3> QED
      BY <3>4, <3>5 DEF Kept, Steady
  <2>13. QueuedOnce'
    BY <1>1, <1>3 DEF QueuedOnce
  <2> QED
    BY <2>7, <2>10, <2>11, <2>12, <2>13 DEF IInv, Dispatches
<1> QED
  BY <1>2, <1>4, <1>5

-----------------------------------------------------------------------------
(***************************************************************************)
(* A kill: the handlers, the pipelines and the outcomes in them are gone,  *)
(* what was emitted and not answered is lost.                              *)
(***************************************************************************)
LEMMA CrashKeeps ==
  ASSUME IInv, Crash
  PROVE  IInv'
<1>1. TypeOK /\ Handlers /\ QueuedOnce /\ Kept /\ \A z \in Requests : InLane(z)
  BY DEF IInv, Dispatches
<1>2. /\ UNCHANGED <<job, expired, row, valid, assoc, faults>>
      /\ jobQ' = <<>> /\ pending' = {} /\ crashes' = crashes + 1
  BY DEF Crash, tables
<1>3. /\ req \in [Requests -> ReqState] /\ fan \in [Requests -> FanState] /\ crashes \in Nat
      /\ send \in [Requests -> [Tokens -> SendState]]
  BY <1>1, TypeParts
<1>4. /\ req' \in [Requests -> ReqState]
      /\ \A z \in Requests :
           /\ req'[z].action = req[z].action /\ req'[z].act = req[z].act
           /\ req'[z].job = req[z].job
           /\ IF req[z].pc \in Answered \cup {"idle"} THEN req'[z] = req[z]
              ELSE req'[z].pc = "gone" /\ req[z].pc # "idle"
  <2> DEFINE q(z) == [req[z] EXCEPT !.pc = "gone", !.closing = {}]
  <2>1. ASSUME NEW z \in Requests
        PROVE  /\ q(z) \in ReqState /\ q(z).pc = "gone" /\ q(z).action = req[z].action
               /\ q(z).act = req[z].act /\ q(z).job = req[z].job
    <3>1. req[z] \in ReqState /\ "gone" \in RequestPC
      BY <1>3 DEF RequestPC, Answered
    <3> QED
      BY <3>1 DEF ReqState
  <2>2. req' = [z \in Requests |-> IF req[z].pc \in Answered \cup {"idle"} THEN req[z] ELSE q(z)]
    BY DEF Crash
  <2> HIDE DEF q
  <2> QED
    BY <1>3, <2>1, <2>2
<1>5. /\ fan' \in [Requests -> FanState]
      /\ \A z \in Requests : \/ fan'[z] = fan[z] /\ fan[z].pc \in {"idle", "done"}
                             \/ /\ fan'[z].pc = "done" /\ fan'[z].count = 0
                                /\ fan[z].pc \notin {"idle", "done"}
  <2> DEFINE g == [NoFan EXCEPT !.pc = "done"]
  <2>1. g \in FanState /\ g.pc = "done" /\ g.count = 0
    BY DEF NoFan, FanState, FanoutPC
  <2>2. fan' = [d \in Requests |-> IF d \in Running THEN g ELSE fan[d]]
    BY DEF Crash
  <2> HIDE DEF g
  <2> QED
    BY <1>3, <2>1, <2>2 DEF Running
<1>6. /\ send' \in [Requests -> [Tokens -> SendState]]
      /\ \A z \in Requests, t \in Tokens :
           send'[z][t] = IF send[z][t] = "task" THEN "lost" ELSE send[z][t]
  BY <1>3 DEF Crash, SendState
<1>7. Handlers'
  <2>1. JobsEnd
    BY <1>2 DEF JobsEnd
  <2>2. \A z \in Requests :
          /\ req'[z].action = req[z].action /\ req'[z].act = req[z].act
          /\ req'[z].job = req[z].job
          /\ \/ req'[z] = req[z]
             \/ req[z].pc # "idle" /\ req'[z].pc \notin {"idle", "insert", "alreadyStarted"}
    BY <1>4
  <2> QED
    BY <1>1, <2>1, <2>2, HandlersFrame
<1>8. TypeOK'
  <2>1. Running' \subseteq Running
    BY <1>5 DEF Running
  <2>2. (Cardinality(Running) <= Masters)'
    BY <1>1, <2>1, RunningFrame
  <2>3. \A z \in Requests : fan'[z].count <= Cardinality(Tokens)
    <3>1. Cardinality(Tokens) \in Nat
      BY TokenSets
    <3> QED
      BY <1>1, <1>5, <3>1, TypeParts
  <2>4. jobQ' \in Seq(Requests) /\ pending' \subseteq Requests \X Tokens /\ crashes' \in Nat
    BY <1>2, <1>3
  <2> HIDE DEF Running
  <2> QED
    BY <1>1, <1>2, <1>4, <1>5, <1>6, <2>2, <2>3, <2>4 DEF TypeOK, ReqState, FanState, SendState
<1>9. \A t \in Tokens : Dead(t) => Dead(t)'
  BY <1>6 DEF Dead
<1>10. Reaching
  BY <1>2, <1>4 DEF Reaching, Reached, Answered
<1>11. ASSUME NEW z \in Requests
       PROVE  InLane(z)'
  <2>1. Placed(z) /\ Tally(z) /\ Totals(z) /\ Replaced(z) /\ Swept(z)
    BY <1>1 DEF InLane
  <2>2. Emitted(z)' = Emitted(z) /\ row'[z] = row[z] /\ ~Queued(z)'
    BY <1>2, <1>6 DEF Emitted, Queued
  <2>3. /\ fan'[z].pc \in {"idle", "done"}
        /\ fan'[z].pc = "idle" <=> fan[z].pc = "idle"
        /\ fan[z].pc = "idle" => fan'[z] = fan[z]
    BY <1>5
  <2>4. Placed(z)'
    <3>1. req[z].pc \in Handed => req'[z].pc \in Handed
      BY <1>4 DEF Handed, Answered
    <3>2. req'[z].pc \in {"idle", "insert", "touch", "row"} => req[z].pc = "idle"
      BY <1>4 DEF Answered
    <3>3. req'[z].pc \notin {"submit", "markFailed"}
      BY <1>4 DEF Answered
    <3>4. CASE fan[z].pc = "idle"
      <4>1. fan'[z] = fan[z]
        BY <2>3, <3>4
      <4> QED
        BY <2>1, <2>2, <3>1, <3>2, <3>3, <3>4, <4>1 DEF Placed
    <3>5. CASE fan[z].pc # "idle"
      <4>1. fan'[z].pc = "done" /\ req[z].pc \in Handed
        BY <2>1, <2>3, <3>5 DEF Placed
      <4>2. req[z].pc # "idle"
        BY <4>1 DEF Handed
      <4> QED
        BY <2>2, <3>1, <3>2, <3>3, <4>1, <4>2 DEF Placed
    <3> QED
      BY <3>4, <3>5
  <2>5. Tally(z)'
    <3>1. Out(z)' = {} /\ Missed(z)' = Missed(z) /\ Known(z)' = Known(z)
      BY <1>2, <1>4, <1>6, AtTypes, <1>1 DEF Out, Missed, Known, ActivityOf, JobOf
    <3>2. "apply" \notin Unsure => Known(z)' + Cardinality(Out(z)' \cup Missed(z)') <= Cardinality(Emitted(z)')
      <4>1. "apply" \notin Unsure => Known(z) + Cardinality(Out(z) \cup Missed(z)) <= Cardinality(Emitted(z))
        BY <2>1 DEF Tally
      <4>2. Out(z) \cup Missed(z) \in SUBSET Tokens /\ Out(z)' \cup Missed(z)' \subseteq Out(z) \cup Missed(z)
        BY <3>1, SetsOf
      <4>3. /\ Cardinality(Out(z)' \cup Missed(z)') <= Cardinality(Out(z) \cup Missed(z))
            /\ Cardinality(Out(z)' \cup Missed(z)') \in Nat
        BY <4>2, TokenSets
      <4>4. /\ Known(z) \in Nat /\ Cardinality(Emitted(z)) \in Nat
            /\ Cardinality(Out(z) \cup Missed(z)) \in Nat
        BY <1>1, SetsOf, AtTypes
      <4> QED
        BY <2>2, <3>1, <4>1, <4>3, <4>4
    <3>3. fan'[z].count <= Cardinality(Emitted(z)') /\ z \notin Running'
      <4>1. Cardinality(Emitted(z)) \in Nat
        BY SetsOf
      <4> QED
        BY <1>5, <2>1, <2>2, <2>3, <4>1 DEF Tally, Running
    <3>4. crashes' # 0
      BY <1>2, <1>3
    <3> QED
      BY <1>2, <3>2, <3>3, <3>4 DEF Tally
  <2>6. Totals(z)'
    BY <2>1, <2>2 DEF Totals, Known
  <2>7. Replaced(z)'
    BY <1>4, <1>10, <2>1, <2>2, ReplacedFrame
  <2>8. Swept(z)'
    <3>1. JobOf(z)' = JobOf(z) /\ req'[z].action = req[z].action
      BY <1>4 DEF JobOf
    <3>2. fan'[z].pc \in Sweeping => fan[z].pc \in Sweeping /\ fan'[z] = fan[z]
      BY <2>3 DEF Sweeping
    <3>3. fan'[z].pc # "complete"
      BY <2>3
    <3> QED
      BY <1>9, <2>1, <2>2, <3>1, <3>2, <3>3 DEF Swept, Steady, UpdateTokens
  <2> QED
    BY <2>4, <2>5, <2>6, <2>7, <2>8 DEF InLane
<1>12. Kept'
  <2>1. \A t \in Steady : t \in Tokens
    BY DEF Steady, UpdateTokens
  <2>2. \A t \in Steady : t \in valid' \/ Dead(t)'
    BY <1>1, <1>2, <1>9, <2>1 DEF Kept
  <2>3. \A r \in Past : r \in Requests /\ req[r].pc = "accepted" /\ req'[r] = req[r]
    BY <1>1, <1>4, ConstantTypes DEF Kept, Answered
  <2>4. \A r \in Past : /\ req'[r].pc = "accepted" /\ req'[r].action = "start" /\ req'[r].job = r
                        /\ \A t \in UpdateTokens : <<req'[r].act, t>> \in assoc'
    BY <1>1, <1>2, <2>3 DEF Kept
  <2> QED
    BY <2>2, <2>4 DEF Kept, Steady
<1>13. QueuedOnce'
  BY <1>2 DEF QueuedOnce
<1> QED
  BY <1>7, <1>8, <1>11, <1>12, <1>13 DEF IInv, Dispatches

-----------------------------------------------------------------------------
(***************************************************************************)
(* The initial state, and the steps together.                              *)
(***************************************************************************)
LEMMA InvInit ==
  ASSUME Init
  PROVE  IInv
<1>0. PICK started \in [Past -> Activities] : StartedBefore(started)
  BY DEF Init
<1>1. assoc \subseteq Activities \X Tokens
      /\ \A r \in Past, t \in UpdateTokens : <<started[r], t>> \in assoc
  BY <1>0 DEF StartedBefore, UpdateTokens
<1>2. /\ \A r \in Requests :
           /\ req[r] \in ReqState /\ req[r].action = "start" /\ req[r].job = r
           /\ req[r].pc = IF r \in Past THEN "accepted" ELSE "idle"
           /\ r \in Past => req[r].act = started[r]
      /\ req \in [Requests -> ReqState]
  <2>1. ASSUME NEW r \in Requests
        PROVE  /\ Idle(r) \in ReqState /\ Idle(r).action = "start" /\ Idle(r).job = r
               /\ Idle(r).pc = "idle"
    <3>1. (CHOOSE a \in Activities : TRUE) \in Activities
      BY ConstantTypes
    <3> QED
      BY <3>1 DEF Idle, ReqState, RequestPC, Actions
  <2> DEFINE q(r) == [Idle(r) EXCEPT !.pc = "accepted", !.act = started[r]]
  <2>2. ASSUME NEW r \in Requests, r \in Past
        PROVE  /\ q(r) \in ReqState /\ q(r).action = "start" /\ q(r).job = r
               /\ q(r).pc = "accepted" /\ q(r).act = started[r]
    <3>1. PICK i \in ReqState : i = Idle(r)
      BY <2>1
    <3>2. PICK a \in Activities : a = started[r]
      BY <2>2
    <3>3. "accepted" \in RequestPC /\ i.action = "start" /\ i.job = r
      BY <2>1, <3>1 DEF RequestPC, Answered
    <3>4. q(r) = [i EXCEPT !.pc = "accepted", !.act = a]
      BY <3>1, <3>2
    <3> HIDE DEF q
    <3> QED
      BY <3>2, <3>3, <3>4 DEF ReqState
  <2>3. req = [r \in Requests |-> IF r \in Past THEN q(r) ELSE Idle(r)]
    BY <1>0 DEF StartedBefore
  <2> HIDE DEF q
  <2> QED
    BY <2>1, <2>2, <2>3
<1>3. /\ job = [r \in Requests |-> IF r \in Past THEN "ACTIVE" ELSE "NONE"]
      /\ expired = {} /\ valid = Tokens /\ jobQ = <<>> /\ pending = {}
      /\ faults = 0 /\ crashes = 0
  BY DEF Init
<1>4. /\ IsFiniteSet(StartTokens) /\ Cardinality(StartTokens) \in Nat /\ StartTokens \subseteq Tokens
      /\ UpdateTokens \subseteq Tokens
  <2>1. StartTokens \subseteq Tokens /\ UpdateTokens \subseteq Tokens
    BY DEF StartTokens, UpdateTokens
  <2> QED
    BY <2>1, TokenSets
<1>5. /\ row \in [Requests -> RowState]
      /\ \A r \in Requests :
           /\ row[r].fail = 0
           /\ r \in Past => /\ row[r].status = "COMPLETED" /\ row[r].total = Cardinality(StartTokens)
                            /\ row[r].succ = Cardinality(StartTokens)
           /\ r \notin Past => row[r].status = "NONE" /\ row[r].succ = 0
  BY <1>4 DEF Init, NoRow, RowState, DispatchStatus
<1>6. /\ fan \in [Requests -> FanState]
      /\ \A r \in Requests :
           /\ fan[r].pc = (IF r \in Past THEN "done" ELSE "idle")
           /\ fan[r].count = 0
           /\ r \notin Past => fan[r] = NoFan
  <2>1. fan = [r \in Requests |-> [NoFan EXCEPT !.pc = IF r \in Past THEN "done" ELSE "idle"]]
    BY DEF Init
  <2> QED
    BY <2>1 DEF NoFan, FanState, FanoutPC
<1>7. send = [r \in Requests |-> [t \in Tokens |->
                IF r \in Past /\ t \in StartTokens THEN "ok" ELSE "none"]]
  BY DEF Init
<1>8. /\ send \in [Requests -> [Tokens -> SendState]]
      /\ \A r \in Requests, t \in Tokens :
           send[r][t] = IF r \in Past /\ t \in StartTokens THEN "ok" ELSE "none"
  BY <1>7 DEF SendState
<1>10. TypeOK
  <2>1. Running = {}
    BY <1>6 DEF Running
  <2>2. Cardinality(Running) <= Masters /\ \A d \in Requests : fan[d].count <= Cardinality(Tokens)
    <3>1. Cardinality(Running) = 0
      BY <2>1, FS_EmptySet
    <3>2. Cardinality(Tokens) \in Nat
      BY TokenSets
    <3> QED
      BY <1>6, <3>1, <3>2, ConstantTypes
  <2>3. job \in [Requests -> JobStatus]
    BY <1>3 DEF JobStatus
  <2> HIDE DEF Running
  <2> QED
    BY <1>2, <1>3, <1>5, <1>6, <1>1, <1>8, <2>2, <2>3
       DEF TypeOK, RowState, ReqState, FanState, SendState
<1>11. Handlers
  BY <1>2, <1>3 DEF Handlers, Handler, JobOf
<1>12. QueuedOnce /\ \A d \in Requests : ~Queued(d)
  BY <1>3 DEF QueuedOnce, Queued
<1>13. Kept
  <2>1. \A t \in Steady : t \in valid
    BY <1>3, <1>4 DEF Steady
  <2>2. \A r \in Past : r \in Requests
    BY ConstantTypes
  <2> QED
    BY <1>1, <1>2, <2>1, <2>2 DEF Kept
<1>14. ASSUME NEW d \in Requests
       PROVE  InLane(d)
  <2>1. Emitted(d) = IF d \in Past THEN StartTokens ELSE {}
    BY <1>4, <1>8 DEF Emitted
  <2>2. Out(d) = {} /\ Missed(d) = {}
    <3>1. Out(d) = {}
      BY <1>3, <1>8 DEF Out
    <3>2. ASSUME NEW t \in Tokens, send[d][t] = "ok", Kind[t] = "fcm"
          PROVE  <<ActivityOf(d), t>> \in assoc
      <4>1. d \in Past /\ t \in UpdateTokens /\ ActivityOf(d) = started[d]
        BY <1>2, <1>8, <3>2 DEF UpdateTokens, ActivityOf, JobOf
      <4> QED
        BY <1>1, <4>1
    <3> QED
      BY <3>1, <3>2 DEF Missed
  <2>3. Cardinality(Emitted(d)) = Known(d) /\ Known(d) \in Nat
    <3>1. CASE d \in Past
      BY <1>4, <1>5, <2>1, <3>1 DEF Known
    <3>2. CASE d \notin Past
      BY <1>5, <2>1, <3>2, FS_EmptySet DEF Known
    <3> QED
      BY <3>1, <3>2
  <2>4. Placed(d)
    BY <1>2, <1>5, <1>6, <1>12, <2>1 DEF Placed, Handed, Superseding
  <2>5. Tally(d)
    <3>1. Cardinality(Out(d)) = 0 /\ Cardinality(Out(d) \cup Missed(d)) = 0
      BY <2>2, FS_EmptySet
    <3>2. fan[d].count = 0 /\ d \notin Running
      BY <1>6 DEF Running
    <3> QED
      BY <1>3, <2>3, <3>1, <3>2 DEF Tally
  <2>6. Totals(d)
    <3>1. CASE d \in Past
      BY <1>4, <1>5, <2>1, <2>3, <3>1 DEF Totals
    <3>2. CASE d \notin Past
      BY <1>5, <3>2 DEF Totals
    <3> QED
      BY <3>1, <3>2
  <2>7. Replaced(d) /\ Swept(d)
    BY <1>2, <1>5 DEF Replaced, Swept
  <2> QED
    BY <2>4, <2>5, <2>6, <2>7 DEF InLane
<1> QED
  BY <1>10, <1>11, <1>12, <1>13, <1>14 DEF IInv, Dispatches

LEMMA InvStep ==
  ASSUME IInv, [Next]_vars
  PROVE  IInv'
<1>1. ASSUME NEW r \in Requests, RequestStep(r)
      PROVE  IInv'
  BY <1>1, StartInsertKeeps, RollbackStartKeeps, TouchKeeps, CreateRowKeeps, SubmitKeeps,
     MarkEnqueuedKeeps, MarkFailedKeeps DEF RequestStep
<1>2. ASSUME NEW d \in Requests, SupersedeIfStale(d, "guard", "progress")
      PROVE  IInv'
  BY <1>2, SupersedeKeeps
<1>3. ASSUME NEW d \in Requests, SupersedeIfStale(d, "check", "scope")
      PROVE  IInv'
  BY <1>3, SupersedeKeeps
<1>4. ASSUME NEW d \in Requests, FanoutStep(d)
      PROVE  IInv'
  BY <1>2, <1>3, <1>4, MarkInProgressKeeps, LoadScopeKeeps, FanOutPageKeeps, CompleteEnqueueKeeps,
     FinishEmptyKeeps, FailEnqueueKeeps, FailStartKeeps DEF FanoutStep
<1>5. CASE \E r \in Requests : Arrive(r) \/ RequestStep(r) \/ FanoutStep(r) \/ Expire(r)
  BY <1>1, <1>4, <1>5, ArriveKeeps, TokensKeep
<1>6. CASE Receive
  BY <1>6, ReceiveKeeps
<1>7. CASE SendStep
  BY <1>7, SendKeeps DEF SendStep
<1>8. CASE Flush
  BY <1>8, FlushKeeps DEF Flush
<1>9. CASE \E t \in Tokens : InvalidateLAToken(t) \/ \E a \in Activities : RegisterLAToken(t, a)
  BY <1>9, TokensKeep
<1>10. CASE Crash
  BY <1>10, CrashKeeps
<1>11. CASE UNCHANGED vars
  <2>1. /\ UNCHANGED <<job, row, req, lane, crashes>>
        /\ UNCHANGED <<expired, valid, assoc, faults>>
    BY <1>11 DEF vars, tables
  <2>2. /\ valid \subseteq Tokens /\ assoc \subseteq Activities \X Tokens /\ faults \in Nat
        /\ expired \subseteq Perishable
    BY TypeParts DEF IInv, TypeOK
  <2> QED
    BY <2>1, <2>2, QuietKeeps
<1> QED
  BY <1>5, <1>6, <1>7, <1>8, <1>9, <1>10, <1>11 DEF Next

-----------------------------------------------------------------------------
\* The inductive invariant holds of every behaviour of the lane, whatever the
\* numbers of requests, tokens and masters, the page size, the failing calls
\* and the crashes (handlers, fan-out and outcome worker of the lane).  What
\* Tally says of the counters is conditional: a commit of outcomes that takes
\* effect and reports an error would count them twice
\* (live_activity_postgres.go:818, outcome.go:106-109).
THEOREM Invariant == Spec => []IInv
<1>1. Init => IInv
  BY InvInit
<1>2. IInv /\ [Next]_vars => IInv'
  BY InvStep
<1> QED
  BY <1>1, <1>2, PTL DEF Spec

\* Every variable keeps its type, no more fan-outs run than there are masters
\* and none emits more tasks than there are tokens.
THEOREM TypeCorrect == Spec => []TypeOK
<1>1. IInv => TypeOK
  BY DEF IInv
<1> QED
  BY <1>1, Invariant, PTL

\* What a client was told was rejected is sent to nobody
\* (server/live_activity.go:47-68): only a request the pipeline has taken
\* leaves Placed's first lines.
THEOREM RejectedStaysUnsent == Spec => []RejectedNotSent
<1>1. IInv => RejectedNotSent
  <2> SUFFICES ASSUME IInv, NEW r \in Requests, req[r].pc = "rejected"
               PROVE  Emitted(r) = {} /\ fan[r].pc = "idle" /\ ~Queued(r)
    BY DEF RejectedNotSent, Queued
  <2> QED
    BY Early DEF Handed
<1> QED
  BY <1>1, Invariant, PTL

\* "already_started" is an answer about the activity that was asked for
\* (live_activity_postgres.go:276-294, 350-361).
THEOREM AnswersOwnJob == Spec => []AlreadyStartedIsOwn
<1>1. IInv => AlreadyStartedIsOwn
  BY DEF IInv, Handlers, Handler, AlreadyStartedIsOwn
<1> QED
  BY <1>1, Invariant, PTL

\* The totals of a dispatch are what was emitted, COMPLETED means that every
\* outcome is in, and DISPATCHED that one is on its way or was lost in a crash
\* (live_activity_postgres.go:709-740, 898-945), provided that a commit of
\* outcomes that reports an error took no effect: else the batch is counted
\* again and COMPLETED may come early.
THEOREM OutcomesAccounted ==
  ASSUME "apply" \notin Unsure
  PROVE  Spec => []Accounted
<1>1. IInv => Accounted
  <2> SUFFICES ASSUME IInv, NEW d \in Requests
               PROVE  /\ row[d].status \in {"DISPATCHED", "COMPLETED", "SUPERSEDED"} =>
                           row[d].total = Cardinality(Emitted(d))
                      /\ row[d].status = "COMPLETED" => Known(d) = row[d].total /\ Out(d) = {}
                      /\ row[d].status = "DISPATCHED" => Out(d) # {} \/ crashes > 0
    BY DEF Accounted, Known, Out
  <2>1. TypeOK /\ Tally(d) /\ Totals(d)
    BY DEF IInv, Dispatches, InLane
  <2>2. Out(d) \in SUBSET Tokens /\ Out(d) \cup Missed(d) \in SUBSET Tokens
    BY SetsOf
  <2>3. /\ Cardinality(Out(d)) \in Nat /\ Cardinality(Out(d) \cup Missed(d)) \in Nat
        /\ Cardinality(Out(d)) <= Cardinality(Out(d) \cup Missed(d))
        /\ Cardinality(Out(d)) = 0 <=> Out(d) = {}
    BY <2>2, TokenSets, FS_EmptySet
  <2>4. Known(d) \in Nat /\ Cardinality(Emitted(d)) \in Nat /\ row[d].total \in Nat /\ crashes \in Nat
    BY <2>1, SetsOf, AtTypes, TypeParts
  <2>5. row[d].status \in {"DISPATCHED", "COMPLETED", "SUPERSEDED"} =>
          row[d].total = Cardinality(Emitted(d))
    BY <2>1 DEF Totals
  <2>6. Known(d) + Cardinality(Out(d) \cup Missed(d)) <= Cardinality(Emitted(d))
    BY <2>1 DEF Tally
  <2>7. ASSUME row[d].status = "COMPLETED"
        PROVE  Known(d) = row[d].total /\ Out(d) = {}
    <3>1. Known(d) >= row[d].total /\ row[d].total = Cardinality(Emitted(d))
      BY <2>1, <2>5, <2>7 DEF Totals
    <3>2. Known(d) = row[d].total /\ Cardinality(Out(d)) = 0
      BY <2>3, <2>4, <2>6, <3>1
    <3> QED
      BY <2>3, <3>2
  <2>8. ASSUME row[d].status = "DISPATCHED", crashes = 0
        PROVE  Out(d) # {}
    <3>1. Known(d) < row[d].total /\ row[d].total = Cardinality(Emitted(d))
      BY <2>1, <2>5, <2>8 DEF Totals
    <3>2. Known(d) + Cardinality(Out(d)) = Cardinality(Emitted(d))
      BY <2>1, <2>8 DEF Tally
    <3>3. Cardinality(Out(d)) # 0
      BY <2>3, <2>4, <3>1, <3>2
    <3> QED
      BY <2>3, <3>3
  <2>9. crashes = 0 \/ crashes > 0
    BY <2>4
  <2> QED
    BY <2>5, <2>7, <2>8, <2>9
<1> QED
  BY <1>1, Invariant, PTL

\* A device that was sent the start over FCM gets the updates of the active
\* job: a completed start has associated every such device
\* (live_activity_postgres.go:622-652, 799-816, 920-933), provided that the
\* commits of outcomes are not ambiguous: a start counted twice is completed
\* while the outcome of another device is still on its way.
THEOREM StartedReachable ==
  ASSUME "apply" \notin Unsure
  PROVE  Spec => []StartedStaysReachable
<1>1. IInv => StartedStaysReachable
  <2> SUFFICES ASSUME IInv, NEW j \in Requests, job[j] = "ACTIVE", NEW t \in Tokens,
                      Kind[t] = "fcm", send[j][t] = "ok",
                      row[j].status \in {"QUEUED", "IN_PROGRESS", "DISPATCHED", "COMPLETED"}
               PROVE  StartPending(j) \/ <<req[j].act, t>> \in assoc
    BY TypeParts DEF IInv, StartedStaysReachable, Active
  <2>1. TypeOK /\ Tally(j) /\ Totals(j)
    BY DEF IInv, Dispatches, InLane
  <2>2. req[j].action = "start" /\ JobOf(j) = j
    BY DEF IInv, Handlers, Handler, JobOf
  <2>3. CASE row[j].status # "COMPLETED"
    BY <2>2, <2>3 DEF StartPending, StartUnderWay
  <2>4. CASE row[j].status = "COMPLETED"
    <3>1. Known(j) >= Cardinality(Emitted(j))
      BY <2>1, <2>4 DEF Totals
    <3>2. Known(j) + Cardinality(Out(j) \cup Missed(j)) <= Cardinality(Emitted(j))
      BY <2>1 DEF Tally
    <3>3. /\ Known(j) \in Nat /\ Cardinality(Emitted(j)) \in Nat
          /\ Out(j) \cup Missed(j) \in SUBSET Tokens
          /\ Cardinality(Out(j) \cup Missed(j)) \in Nat
      BY <2>1, SetsOf, AtTypes
    <3>4. Cardinality(Out(j) \cup Missed(j)) = 0
      BY <3>1, <3>2, <3>3
    <3>5. Out(j) \cup Missed(j) = {}
      BY <3>3, <3>4, TokenSets, FS_EmptySet
    <3>6. t \notin Missed(j)
      BY <3>5
    <3> QED
      BY <2>2, <3>6 DEF Missed, ActivityOf
  <2> QED
    BY <2>3, <2>4
<1> QED
  BY <1>1, Invariant, PTL

\* The newest update that reached the pipeline is not superseded, and once it
\* is dispatched it has gone to every device known to show the activity
\* (live_activity_postgres.go:760-781, fanout_la.go:40-71).
THEOREM NewestReaches == Spec => []NewestUpdateReaches
<1>1. IInv => NewestUpdateReaches
  <2> SUFFICES ASSUME IInv, NEW d \in Requests, Reached(d),
                      \A e \in Requests : e > d /\ JobOf(e) = JobOf(d) => ~Reached(e)
               PROVE  /\ row[d].status # "SUPERSEDED"
                      /\ JobOf(d) \in Past /\ row[d].status \in {"DISPATCHED", "COMPLETED"} =>
                           \A t \in Steady : t \in Emitted(d) \/ Dead(t)
    BY DEF NewestUpdateReaches, Steady, Dead, UpdateTokens
  <2>1. Replaced(d) /\ Swept(d) /\ req[d].action = "update"
    BY DEF IInv, Dispatches, InLane, Reached
  <2> QED
    BY <2>1 DEF Replaced, Swept
<1> QED
  BY <1>1, Invariant, PTL

\* The statements that write the status of a row, each after what it checks.
LEMMA SettledStays ==
  ASSUME IInv, [Next]_vars, NEW d \in Requests, row[d].status \in Settled
  PROVE  row'[d].status = row[d].status
<1>1. /\ TypeOK /\ row \in [Requests -> RowState]
      /\ \A z \in Requests : Placed(z) /\ row[z] \in RowState
  BY TypeParts DEF IInv, Dispatches, InLane
<1>2. row[d].status \in {"COMPLETED", "SUPERSEDED", "FAILED"}
  BY DEF Settled
<1>3. CASE UNCHANGED row
  BY <1>3
<1>4. ASSUME NEW z \in Requests, NEW x, row' = [row EXCEPT ![z] = x], row[z].status \notin Settled
      PROVE  row'[d].status = row[d].status
  BY <1>1, <1>4
<1>5. ASSUME NEW z \in Requests, NEW st, row' = SetStatus(z, st), row[z].status \notin Settled
      PROVE  row'[d].status = row[d].status
  BY <1>1, <1>5 DEF SetStatus
<1>6. ASSUME NEW z \in Requests, RequestStep(z)
      PROVE  row'[d].status = row[d].status
  <2>1. CASE CreateLADispatch(z)
    <3>1. row[z].status = "NONE"
      BY <1>1, <2>1 DEF CreateLADispatch, Placed
    <3>2. UNCHANGED row \/ row' = SetStatus(z, "ENQUEUE_PENDING")
      BY <2>1 DEF CreateLADispatch
    <3> QED
      BY <1>3, <1>5, <3>1, <3>2 DEF Settled
  <2>2. CASE MarkLADispatchEnqueued(z)
    <3>1. UNCHANGED row \/ (row' = SetStatus(z, "QUEUED") /\ row[z].status = "ENQUEUE_PENDING")
      BY <2>2 DEF MarkLADispatchEnqueued
    <3> QED
      BY <1>3, <1>5, <3>1 DEF Settled
  <2>3. CASE MarkEnqueueFailed(z)
    <3>1. row[z].status = "ENQUEUE_PENDING"
      BY <1>1, <2>3 DEF MarkEnqueueFailed, Placed
    <3>2. UNCHANGED row \/ row' = SetStatus(z, "FAILED")
      BY <2>3 DEF MarkEnqueueFailed
    <3> QED
      BY <1>3, <1>5, <3>1, <3>2 DEF Settled
  <2>4. CASE \/ StartInsert(z) \/ RollbackStart(z) \/ UpdateLAJobPayloadIfActive(z)
             \/ Submit(z) \/ FailLAJobIfActive(z)
    <3>1. UNCHANGED row
      BY <2>4 DEF StartInsert, RollbackStart, UpdateLAJobPayloadIfActive, Submit,
                  FailLAJobIfActive, tables
    <3> QED
      BY <1>3, <3>1
  <2> QED
    BY <1>6, <2>1, <2>2, <2>3, <2>4 DEF RequestStep
<1>7. ASSUME NEW z \in Requests, NEW pc, NEW next, SupersedeIfStale(z, pc, next)
      PROVE  row'[d].status = row[d].status
  <2>1. CASE UNCHANGED row
    BY <2>1
  <2>2. CASE /\ row' = [row EXCEPT ![z].status = "SUPERSEDED", ![z].total = fan[z].count]
             /\ Stale(z)
    <3>1. row[z].status \in {"QUEUED", "IN_PROGRESS"}
      BY <2>2 DEF Stale
    <3>2. z # d
      BY <1>2, <3>1
    <3> QED
      BY <1>1, <2>2, <3>2
  <2> QED
    BY <1>7, <2>1, <2>2 DEF SupersedeIfStale
<1>8. ASSUME NEW z \in Requests, FanoutStep(z)
      PROVE  row'[d].status = row[d].status
  <2>1. CASE MarkInProgress(z)
    <3>1. row[z].status \in {"ENQUEUE_PENDING", "QUEUED"}
      BY <1>1, <2>1 DEF MarkInProgress, Placed
    <3>2. UNCHANGED row \/ row' = SetStatus(z, "IN_PROGRESS")
      BY <2>1 DEF MarkInProgress
    <3> QED
      BY <1>3, <1>5, <3>1, <3>2 DEF Settled
  <2>2. CASE CompleteEnqueue(z)
    <3>1. row[z].status = "IN_PROGRESS"
      BY <1>1, <2>2 DEF CompleteEnqueue, Placed
    <3>2. UNCHANGED row \/ \E x : row' = [row EXCEPT ![z] = x]
      BY <2>2 DEF CompleteEnqueue
    <3> QED
      BY <1>3, <1>4, <3>1, <3>2 DEF Settled
  <2>3. CASE FailEnqueue(z)
    <3>1. CASE UNCHANGED row
      BY <3>1
    <3>2. CASE /\ row' = [row EXCEPT ![z].status = "FAILED", ![z].total = fan[z].count]
               /\ row[z].status \in Unfinished
      <4>1. z # d
        BY <1>2, <3>2 DEF Unfinished
      <4> QED
        BY <1>1, <3>2, <4>1
    <3> QED
      BY <2>3, <3>1, <3>2 DEF FailEnqueue
  <2>4. CASE LoadScope(z) \/ FanOutPage(z) \/ FinishEmpty(z) \/ FailStart(z)
    <3>1. UNCHANGED row
      BY <2>4 DEF LoadScope, FanOutPage, FinishEmpty, FailStart, tables
    <3> QED
      BY <1>3, <3>1
  <2>5. CASE SupersedeIfStale(z, "guard", "progress")
    BY <1>7, <2>5
  <2>6. CASE SupersedeIfStale(z, "check", "scope")
    BY <1>7, <2>6
  <2> QED
    BY <1>8, <2>1, <2>2, <2>3, <2>4, <2>5, <2>6 DEF FanoutStep
<1>9. ASSUME NEW batch \in SUBSET pending, ApplyLAOutcomeBatch(batch)
      PROVE  row'[d].status = row[d].status
  <2>1. CASE UNCHANGED row
    BY <2>1
  <2>2. CASE row' = [z \in Requests |-> Counted(z, batch)]
    <3>1. PICK x : x = Counted(d, batch)
      OBVIOUS
    <3>2. x.status = row[d].status
      BY <1>2, <3>1, CountedRow
    <3> QED
      BY <2>2, <3>1, <3>2
  <2> QED
    BY <1>9, <2>1, <2>2 DEF ApplyLAOutcomeBatch
<1>10. CASE \/ \E r \in Requests : Arrive(r) \/ Expire(r)
            \/ Receive \/ SendStep \/ Crash
            \/ \E t \in Tokens : InvalidateLAToken(t) \/ \E a \in Activities : RegisterLAToken(t, a)
            \/ UNCHANGED vars
  <2>1. UNCHANGED row
    BY <1>10 DEF Arrive, StartLookup, UpdateFind, EndFind, Expire, Receive, SendStep,
                 DispatchLATask, Crash, InvalidateLAToken, RegisterLAToken, vars, tables
  <2> QED
    BY <2>1
<1> QED
  BY <1>6, <1>8, <1>9, <1>10 DEF Next, Flush

\* A dispatch that is completed, superseded or failed stays so
\* (live_activity_postgres.go:586-620, 709-781, 920-945).
THEOREM SettledForGood == Spec => SettledIsFinal
<1>1. IInv /\ [Next]_vars =>
        [\A d \in Requests : row[d].status \in Settled => row'[d].status = row[d].status]_vars
  BY SettledStays
<1> QED
  BY <1>1, Invariant, PTL DEF Spec, SettledIsFinal
=============================================================================
