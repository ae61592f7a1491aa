------------------------- MODULE PushDeliverySafety -------------------------
(***************************************************************************)
(* The safety properties of PushDelivery, proved from the inductive        *)
(* invariant of PushDeliveryInv: where each job is (Placement), how the    *)
(* fan-out moves through the tokens (Paging), and what becomes of its      *)
(* tasks (Conserved, Dispatched, Counted).                                 *)
(***************************************************************************)
EXTENDS PushDeliveryInv, PushDeliveryProofs

-----------------------------------------------------------------------------
(***************************************************************************)
(* What an update of master m leaves in its fields.                        *)
(***************************************************************************)
Others(m) == \A n \in Masters : n # m => master'[n] = master[n]
SamePaging(m) ==
  /\ master'[m].job = master[m].job /\ master'[m].page = master[m].page
  /\ master'[m].cursor = master[m].cursor /\ master'[m].count = master[m].count

LEMMA ToPC ==
  ASSUME TypeOK, NEW m \in Masters, NEW p,
         master' = [master EXCEPT ![m] = [@ EXCEPT !.pc = p]]
  PROVE  Others(m) /\ SamePaging(m) /\ master'[m].pc = p
<1>1. master \in [Masters -> MasterState] /\ master[m] \in MasterState
  BY DEF TypeOK
<1>2. master'[m] = [master[m] EXCEPT !.pc = p] /\ Others(m)
  BY <1>1 DEF Others
<1> QED
  BY <1>1, <1>2 DEF MasterState, SamePaging

LEMMA ToIdle ==
  ASSUME TypeOK, NEW m \in Masters, master' = [master EXCEPT ![m] = IdleMaster]
  PROVE  /\ Others(m)
         /\ master'[m] = IdleMaster /\ IdleMaster.pc = "receive"
         /\ IdleMaster.page = {} /\ IdleMaster.count = 0
<1>1. master \in [Masters -> MasterState]
  BY DEF TypeOK
<1> QED
  BY <1>1 DEF Others, IdleMaster

LEMMA ReceiveMoves ==
  ASSUME TypeOK, NEW m \in Masters, MasterReceive(m)
  PROVE  /\ Others(m)
         /\ master[m].pc = "receive" /\ master'[m].pc = "start"
         /\ master'[m].job = Head(jobQ)
         /\ master'[m].page = master[m].page /\ master'[m].count = master[m].count
<1>1. master \in [Masters -> MasterState] /\ master[m] \in MasterState
  BY DEF TypeOK
<1>2. /\ master'[m] = [master[m] EXCEPT !.pc = "start", !.job = Head(jobQ)]
      /\ Others(m) /\ master[m].pc = "receive"
  BY <1>1 DEF Others, MasterReceive
<1> QED
  BY <1>1, <1>2 DEF MasterState

LEMMA FetchMoves ==
  ASSUME TypeOK, NEW m \in Masters, FetchPage(m)
  PROVE  /\ Others(m) /\ master[m].pc = "fetch" /\ master'[m].job = master[m].job
         /\ \/ \E c \in Tokens, A \in SUBSET Tokens :
                 LET page == Page(A, master[m].cursor)
                 IN  /\ IsNextCursor(c, A, master[m].cursor)
                     /\ master'[m].pc = "emit" /\ master'[m].cursor = c
                     /\ master'[m].page = page
                     /\ master'[m].count = master[m].count + Cardinality(page)
            \/ master'[m].pc \in {"finalize", "fail"} /\ SamePaging(m)
<1>1. master \in [Masters -> MasterState] /\ master[m] \in MasterState
  BY DEF TypeOK
<1> DEFINE A == Recipients(master[m].job)
           page == Page(A, master[m].cursor)
           more == HasMore(A, master[m].cursor)
           n == master[m].count + Cardinality(page)
<1>2. A \in SUBSET Tokens
  BY DEF Recipients, TypeOK
<1>3. CASE master' = [master EXCEPT ![m] = [@ EXCEPT !.pc = "finalize", !.more = FALSE]]
  <2>1. master'[m] = [master[m] EXCEPT !.pc = "finalize", !.more = FALSE] /\ Others(m)
    BY <1>1, <1>3 DEF Others
  <2>2. master[m].pc = "fetch"
    BY DEF FetchPage
  <2> QED
    BY <1>1, <2>1, <2>2 DEF MasterState, SamePaging
<1>4. CASE master' = [master EXCEPT ![m] = [@ EXCEPT !.pc = "fail"]]
  BY <1>4, ToPC DEF SamePaging, FetchPage
<1>5. ASSUME NEW c \in Tokens, IsNextCursor(c, A, master[m].cursor),
             master' = [master EXCEPT
               ![m] = [@ EXCEPT !.pc = "emit", !.cursor = c, !.page = page,
                                !.more = more, !.count = n]]
      PROVE  /\ Others(m)
             /\ master'[m].job = master[m].job
             /\ master'[m].pc = "emit" /\ master'[m].cursor = c
             /\ master'[m].page = page /\ master'[m].count = n
  <2> HIDE DEF page, more, n
  <2>1. /\ master'[m] = [master[m] EXCEPT !.pc = "emit", !.cursor = c, !.page = page,
                                         !.more = more, !.count = n]
        /\ Others(m)
    BY <1>1, <1>5 DEF Others
  <2> QED
    BY <1>1, <2>1 DEF MasterState
<1>6. /\ master[m].pc = "fetch"
      /\ \/ master' = [master EXCEPT ![m] = [@ EXCEPT !.pc = "finalize", !.more = FALSE]]
         \/ master' = [master EXCEPT ![m] = [@ EXCEPT !.pc = "fail"]]
         \/ \E c \in Tokens :
              /\ IsNextCursor(c, A, master[m].cursor)
              /\ master' = [master EXCEPT
                   ![m] = [@ EXCEPT !.pc = "emit", !.cursor = c, !.page = page,
                                    !.more = more, !.count = n]]
  BY DEF FetchPage
<1> QED
  BY <1>2, <1>3, <1>4, <1>5, <1>6

LEMMA EmitMoves ==
  ASSUME TypeOK, NEW m \in Masters, Emit(m)
  PROVE  /\ Others(m) /\ master[m].pc = "emit" /\ master[m].job \in Jobs
         /\ master'[m].job = master[m].job /\ master'[m].cursor = master[m].cursor
         /\ master'[m].count = master[m].count
         /\ \E t \in master[m].page :
              /\ \A u \in master[m].page : t <= u
              /\ master'[m].page = master[m].page \ {t}
              /\ master'[m].pc \in {"emit", "fetch", "finalize"}
              /\ master'[m].pc # "emit" => master'[m].page = {}
              /\ taskQ' = Append(taskQ, [job |-> master[m].job, token |-> t])
              /\ sent' = [sent EXCEPT ![master[m].job] = @ \cup {t}]
<1>1. master \in [Masters -> MasterState] /\ master[m] \in MasterState
  BY DEF TypeOK
<1>2. PICK t \in master[m].page :
        /\ \A u \in master[m].page : t <= u
        /\ taskQ' = Append(taskQ, [job |-> master[m].job, token |-> t])
        /\ master' = [master EXCEPT
             ![m] = [@ EXCEPT !.page = master[m].page \ {t},
                              !.pc = AfterEmit(master[m].page \ {t}, master[m].more)]]
        /\ sent' = [sent EXCEPT ![master[m].job] = @ \cup {t}]
  BY DEF Emit
<1> DEFINE p == AfterEmit(master[m].page \ {t}, master[m].more)
           rest == master[m].page \ {t}
<1>3. p \in {"emit", "fetch", "finalize"} /\ (p # "emit" => rest = {})
  BY DEF AfterEmit
<1>4. master'[m] = [master[m] EXCEPT !.page = rest, !.pc = p] /\ Others(m)
  BY <1>1, <1>2 DEF Others
<1>5. master[m].pc = "emit" /\ master[m].job \in Jobs
  BY DEF Emit, TypeOK
<1> HIDE DEF p, rest
<1>6. /\ master'[m].page = rest /\ master'[m].pc = p /\ master'[m].job = master[m].job
      /\ master'[m].cursor = master[m].cursor /\ master'[m].count = master[m].count
  BY <1>1, <1>4 DEF MasterState
<1> QED
  BY <1>2, <1>3, <1>4, <1>5, <1>6 DEF rest

LEMMA FinalizeMoves ==
  ASSUME TypeOK, NEW m \in Masters, FinalizeJobDispatch(m)
  PROVE  /\ Others(m) /\ SamePaging(m) /\ master[m].pc = "finalize"
         /\ master'[m].pc \in {"recheck", "fail"}
BY ToPC DEF FinalizeJobDispatch

-----------------------------------------------------------------------------
(***************************************************************************)
(* Placement: each job is in at most one place.                            *)
(***************************************************************************)

\* Steps that move no job: the queues and the workers' jobs stay, and no
\* status becomes one that only unseen jobs have.
LEMMA UnacceptedSubset ==
  /\ {"submit", "markFailed"} \subseteq Unaccepted
  /\ Unaccepted \subseteq {"submit", "markFailed", "rejected"}
  /\ "insert" \in Faults <=> "rejected" \notin Unaccepted
BY DEF Unaccepted

LEMMA PlacementFrame ==
  ASSUME Placement, UNCHANGED <<caller, claimed, jobQ, sent>>,
         \A m \in Masters, j \in Jobs : Working(m, j)' => Working(m, j),
         \A j \in Jobs : status'[j] = status[j] \/
           /\ status'[j] \notin {"NONE", "SCHEDULED"}
           /\ status'[j] = "DELETED" \/ caller[j] \notin Unaccepted,
         jobQ \in Seq(Jobs), claimed \subseteq Jobs
  PROVE  Placement'
<1>1. \A j \in Jobs : /\ Queued(j)' <=> Queued(j)
                      /\ Fresh(j) => Fresh(j)'
                      /\ Untouched(j) => Untouched(j)'
  BY DEF Queued, Fresh, Untouched
<1>3. \A j \in Jobs : status'[j] \in {"NONE", "SCHEDULED"} => Untouched(j)'
  BY <1>1 DEF Placement
<1>4. \A j \in Jobs : caller'[j] \in Unaccepted =>
                       Untouched(j)' /\ status'[j] \in {"QUEUED", "FAILED", "DELETED"}
  BY <1>1 DEF Placement
<1>5. \A j \in claimed' : ~Queued(j)' /\ Fresh(j)'
  BY <1>1 DEF Placement
<1>6. \A j \in Jobs : Queued(j)' => Fresh(j)'
  BY <1>1 DEF Placement
<1>7. \A m, n \in Masters : \A j \in Jobs : Working(m, j)' /\ Working(n, j)' => m = n
  BY DEF Placement
<1> QED
  BY <1>3, <1>4, <1>5, <1>6, <1>7 DEF Placement

LEMMA PlacementHandlers ==
  ASSUME TypeOK, Placement, NEW j \in Jobs,
         CreatePublishJob(j) \/ HandlerStep(j) \/ DeleteTarget(j)
  PROVE  Placement'
<1> USE DEF vars, rows, lane
<1>0. /\ status \in [Jobs -> Statuses \cup {"NONE", "DELETED"}]
      /\ caller \in [Jobs -> {"idle", "submit", "markFailed", "accepted", "rejected"}]
      /\ claimed \subseteq Jobs /\ jobQ \in Seq(Jobs)
  BY DEF TypeOK
<1>a. ASSUME UNCHANGED <<claimed, jobQ, sent, master>>
      PROVE  /\ \A k \in Jobs : (Queued(k)' <=> Queued(k)) /\ (Fresh(k)' <=> Fresh(k))
             /\ \A k \in Jobs : Untouched(k)' <=> Untouched(k)
             /\ \A m \in Masters, k \in Jobs : Working(m, k)' <=> Working(m, k)
  BY <1>a DEF Queued, Fresh, Untouched, Working
<1>b. {"submit", "markFailed"} \subseteq Unaccepted /\ "accepted" \notin Unaccepted
  BY UnacceptedSubset
<1>1. CASE CreatePublishJob(j)
  <2>1. /\ status[j] = "NONE"
        /\ UNCHANGED <<claimed, jobQ, sent, master>>
        /\ \/ /\ status' = [status EXCEPT ![j] = "QUEUED"]
              /\ caller'[j] \in {"submit", "rejected"}
           \/ /\ status' = [status EXCEPT ![j] = "SCHEDULED"]
              /\ caller'[j] \in {"accepted", "rejected"}
        /\ caller'[j] = "rejected" => "insert" \in Faults
        /\ \A k \in Jobs : k # j => caller'[k] = caller[k]
    BY <1>1, <1>0 DEF CreatePublishJob, InsertJob, JobStatusForSchedule, Fault
  <2>2. Untouched(j)
    BY <2>1 DEF Placement
  <2>3. \A k \in Jobs : status'[k] \in {"NONE", "SCHEDULED"} => Untouched(k)'
    BY <2>1, <2>2, <1>a, <1>0 DEF Placement
  <2>4. \A k \in Jobs : caller'[k] \in Unaccepted =>
                         Untouched(k)' /\ status'[k] \in {"QUEUED", "FAILED", "DELETED"}
    BY <2>1, <2>2, <1>a, <1>0, UnacceptedSubset DEF Placement
  <2> QED
    BY <2>1, <2>3, <2>4, <1>a, <1>0 DEF Placement
<1>2. CASE EnqueueImmediateJob(j)
  <2>1. /\ caller[j] = "submit" /\ jobQ' = Append(jobQ, j)
        /\ caller' = [caller EXCEPT ![j] = "accepted"]
        /\ UNCHANGED <<status, claimed, sent, master>>
    BY <1>2 DEF EnqueueImmediateJob
  <2>2. Untouched(j) /\ status[j] \in {"QUEUED", "FAILED", "DELETED"}
    BY <2>1, <1>b DEF Placement
  <2>3. /\ DOMAIN jobQ' = 1 .. Len(jobQ) + 1 /\ DOMAIN jobQ = 1 .. Len(jobQ)
        /\ jobQ'[Len(jobQ) + 1] = j
        /\ \A i \in 1 .. Len(jobQ) : jobQ'[i] = jobQ[i]
        /\ Len(jobQ) \in Nat
    BY <2>1, <1>0
  <2>4. /\ \A k \in Jobs : Queued(k)' <=> Queued(k) \/ k = j
        /\ \A k \in Jobs : Fresh(k)' <=> Fresh(k)
        /\ \A m \in Masters, k \in Jobs : Working(m, k)' <=> Working(m, k)
    <3>1. \A k \in Jobs : Queued(k)' <=> Queued(k) \/ k = j
      BY <2>3 DEF Queued
    <3> QED
      BY <2>1, <3>1 DEF Fresh, Working
  <2>5. \A k \in Jobs : k # j => (Untouched(k)' <=> Untouched(k))
    BY <2>4, <2>1 DEF Untouched
  <2>6. \A k \in Jobs : status'[k] \in {"NONE", "SCHEDULED"} => Untouched(k)'
    BY <2>1, <2>2, <2>5 DEF Placement
  <2>7. \A k \in Jobs : caller'[k] \in Unaccepted =>
                         Untouched(k)' /\ status'[k] \in {"QUEUED", "FAILED", "DELETED"}
    BY <2>1, <2>5, <1>b, <1>0 DEF Placement
  <2>8. \A k \in claimed' : ~Queued(k)' /\ Fresh(k)'
    BY <2>1, <2>2, <2>4, <1>0 DEF Placement, Untouched
  <2>9. \A k \in Jobs : Queued(k)' => Fresh(k)'
    BY <2>2, <2>4 DEF Placement, Untouched
  <2>10. \A i, k \in DOMAIN jobQ' : jobQ'[i] = jobQ'[k] => i = k
    <3>1. \A i \in 1 .. Len(jobQ) : jobQ[i] # j
      BY <2>2, <2>3 DEF Untouched, Queued
    <3>2. \A i, k \in 1 .. Len(jobQ) : jobQ[i] = jobQ[k] => i = k
      BY <2>3 DEF Placement
    <3> QED
      BY <2>3, <3>1, <3>2
  <2> QED
    BY <2>4, <2>6, <2>7, <2>8, <2>9, <2>10 DEF Placement
<1>3. CASE EnqueueTimeout(j)
  <2>1. /\ caller[j] = "submit" /\ caller' = [caller EXCEPT ![j] = "markFailed"]
        /\ UNCHANGED <<status, claimed, jobQ, sent, master>>
    BY <1>3 DEF EnqueueTimeout
  <2>2. \A k \in Jobs : caller'[k] \in Unaccepted =>
                         Untouched(k)' /\ status'[k] \in {"QUEUED", "FAILED", "DELETED"}
    BY <2>1, <1>a, <1>b, <1>0 DEF Placement
  <2> QED
    BY <2>1, <2>2, <1>a, <1>0 DEF Placement
<1>4. CASE MarkEnqueueFailed(j)
  <2>1. /\ caller[j] = "markFailed" /\ caller' = [caller EXCEPT ![j] = "rejected"]
        /\ UNCHANGED <<claimed, jobQ, sent, master>>
        /\ \A k \in Jobs : k # j => status'[k] = status[k]
        /\ status'[j] = status[j] \/ status'[j] = "FAILED"
    BY <1>4, <1>0 DEF MarkEnqueueFailed, UpdateJobStatus
  <2>2. \A k \in Jobs : caller'[k] \in Unaccepted =>
                         Untouched(k)' /\ status'[k] \in {"QUEUED", "FAILED", "DELETED"}
    BY <2>1, <1>a, <1>b, <1>0 DEF Placement
  <2>3. \A k \in Jobs : status'[k] \in {"NONE", "SCHEDULED"} => Untouched(k)'
    BY <2>1, <1>a DEF Placement
  <2> QED
    BY <2>1, <2>2, <2>3, <1>a, <1>0 DEF Placement
<1>5. CASE DeleteTarget(j)
  <2>1. /\ status' = [status EXCEPT ![j] = "DELETED"]
        /\ UNCHANGED <<caller, claimed, jobQ, sent, master>>
    BY <1>5 DEF DeleteTarget
  <2> QED
    BY <2>1, <1>a, <1>0, PlacementFrame
<1> QED
  BY <1>1, <1>2, <1>3, <1>4, <1>5 DEF HandlerStep

LEMMA PlacementScheduler ==
  ASSUME TypeOK, Placement, GetScheduledJobs \/ \E j \in Jobs : SubmitScheduledJob(j)
  PROVE  Placement'
<1>0. /\ status \in [Jobs -> Statuses \cup {"NONE", "DELETED"}]
      /\ claimed \subseteq Jobs /\ jobQ \in Seq(Jobs)
  BY DEF TypeOK
<1>1. CASE GetScheduledJobs
  <2>1. PICK due \in SUBSET Due :
          /\ status' = [j \in Jobs |-> IF j \in due THEN "QUEUED" ELSE status[j]]
          /\ claimed' \in {due, {}} /\ claimed = {}
          /\ UNCHANGED <<caller, jobQ, sent, master>>
    BY <1>1 DEF GetScheduledJobs
  <2>2. \A j \in due : j \in Jobs /\ status[j] = "SCHEDULED" /\ Untouched(j)
    BY DEF Due, Placement
  <2>3. /\ \A j \in Jobs : (Queued(j)' <=> Queued(j)) /\ (Fresh(j)' <=> Fresh(j))
        /\ \A m \in Masters, j \in Jobs : Working(m, j)' <=> Working(m, j)
    BY <2>1 DEF Queued, Fresh, Working
  <2>4. \A j \in Jobs \ due : Untouched(j) => Untouched(j)'
    BY <2>1, <2>3 DEF Untouched
  <2>5. \A j \in Jobs : status'[j] \in {"NONE", "SCHEDULED"} => Untouched(j)'
    BY <2>1, <2>4 DEF Placement
  <2>6. \A j \in Jobs : caller'[j] \in Unaccepted =>
                         Untouched(j)' /\ status'[j] \in {"QUEUED", "FAILED", "DELETED"}
    BY <2>1, <2>2, <2>4 DEF Placement
  <2>7. \A j \in claimed' : ~Queued(j)' /\ Fresh(j)'
    BY <2>1, <2>2, <2>3 DEF Untouched
  <2> QED
    BY <2>1, <2>3, <2>5, <2>6, <2>7 DEF Placement
<1>2. ASSUME NEW j \in Jobs, SubmitScheduledJob(j)
      PROVE  Placement'
  <2>1. /\ j \in claimed /\ jobQ' = Append(jobQ, j) /\ claimed' = claimed \ {j}
        /\ UNCHANGED <<status, caller, sent, master>>
    BY <1>2 DEF SubmitScheduledJob, rows
  <2>2. ~Queued(j) /\ Fresh(j)
    BY <2>1 DEF Placement
  <2>3. /\ DOMAIN jobQ' = 1 .. Len(jobQ) + 1 /\ DOMAIN jobQ = 1 .. Len(jobQ)
        /\ jobQ'[Len(jobQ) + 1] = j
        /\ \A i \in 1 .. Len(jobQ) : jobQ'[i] = jobQ[i]
        /\ Len(jobQ) \in Nat
    BY <2>1, <1>0
  <2>4. \A k \in Jobs : Queued(k)' <=> Queued(k) \/ k = j
    BY <2>3 DEF Queued
  <2>5. /\ \A k \in Jobs : Fresh(k)' <=> Fresh(k)
        /\ \A m \in Masters, k \in Jobs : Working(m, k)' <=> Working(m, k)
    BY <2>1 DEF Fresh, Working
  <2>6. \A k \in Jobs : Untouched(k) => k # j /\ Untouched(k)'
    BY <2>1, <2>4, <2>5 DEF Untouched
  <2>7. \A k \in Jobs : Queued(k)' => Fresh(k)'
    BY <2>2, <2>4, <2>5 DEF Placement
  <2>8. \A i, k \in DOMAIN jobQ' : jobQ'[i] = jobQ'[k] => i = k
    <3>1. \A i \in 1 .. Len(jobQ) : jobQ[i] # j
      BY <2>2, <2>3 DEF Queued
    <3>2. \A i, k \in 1 .. Len(jobQ) : jobQ[i] = jobQ[k] => i = k
      BY <2>3 DEF Placement
    <3> QED
      BY <2>3, <3>1, <3>2
  <2>9. \A k \in claimed' : ~Queued(k)' /\ Fresh(k)'
    BY <2>1, <2>4, <2>5, <1>0 DEF Placement
  <2> QED
    BY <2>1, <2>5, <2>6, <2>7, <2>8, <2>9 DEF Placement
<1> QED
  BY <1>1, <1>2

LEMMA PlacementMaster ==
  ASSUME TypeOK, Placement, NEW m \in Masters, MasterStep(m)
  PROVE  Placement'
<1> USE DEF rows
<1>0. /\ status \in [Jobs -> Statuses \cup {"NONE", "DELETED"}]
      /\ caller \in [Jobs -> {"idle", "submit", "markFailed", "accepted", "rejected"}]
      /\ claimed \subseteq Jobs /\ jobQ \in Seq(Jobs)
      /\ sent \in [Jobs -> SUBSET Tokens]
      /\ master[m].pc # "receive" => master[m].job \in Jobs
  BY DEF TypeOK
<1>a. ASSUME UNCHANGED <<caller, claimed, jobQ, sent>>, Others(m),
             master'[m].pc # "receive" =>
               master[m].pc # "receive" /\ master'[m].job = master[m].job,
             master[m].pc # "receive",
             \/ UNCHANGED status
             \/ \E st \in Statuses \ {"SCHEDULED"} : UpdateJobStatus(master[m].job, st)
             \/ \A k \in Jobs : status'[k] # status[k] => status'[k] = "COMPLETED" /\ k = master[m].job
      PROVE  Placement'
  <2>1. \A n \in Masters, k \in Jobs : Working(n, k)' => Working(n, k)
    BY <1>a DEF Working, Others
  <2>2. Working(m, master[m].job) /\ master[m].job \in Jobs
    BY <1>a, <1>0 DEF Working
  <2>3. caller[master[m].job] \notin Unaccepted
    BY <2>2 DEF Placement, Untouched, Fresh
  <2>4. \A k \in Jobs : status'[k] = status[k] \/
          /\ status'[k] \notin {"NONE", "SCHEDULED"}
          /\ status'[k] = "DELETED" \/ caller[k] \notin Unaccepted
    BY <1>a, <1>0, <2>2, <2>3 DEF UpdateJobStatus, Statuses
  <2> QED
    BY <1>a, <1>0, <2>1, <2>4, PlacementFrame
<1>1. CASE MasterReceive(m)
  <2> DEFINE h == Head(jobQ)
  <2>1. /\ jobQ # <<>> /\ jobQ' = Tail(jobQ)
        /\ UNCHANGED <<status, caller, claimed, sent>>
    BY <1>1 DEF MasterReceive
  <2>2. /\ Len(jobQ) \in Nat \ {0} /\ DOMAIN jobQ = 1 .. Len(jobQ)
        /\ DOMAIN jobQ' = 1 .. Len(jobQ) - 1
        /\ \A i \in 1 .. Len(jobQ) - 1 : jobQ'[i] = jobQ[i + 1]
        /\ h = jobQ[1] /\ h \in Jobs
    BY <2>1, <1>0
  <2>3. Queued(h) /\ Fresh(h) /\ h \notin claimed
    BY <2>2 DEF Queued, Placement
  <2>4. \A i, k \in DOMAIN jobQ : jobQ[i] = jobQ[k] => i = k
    BY DEF Placement
  <2>5. \A k \in Jobs : Queued(k)' <=> Queued(k) /\ k # h
    <3>1. \A i \in DOMAIN jobQ' : i + 1 \in DOMAIN jobQ /\ i + 1 # 1 /\ jobQ'[i] = jobQ[i + 1]
      BY <2>2
    <3>2. \A i \in DOMAIN jobQ : i # 1 => i - 1 \in DOMAIN jobQ' /\ jobQ'[i - 1] = jobQ[i]
      BY <2>2
    <3>3. 1 \in DOMAIN jobQ /\ jobQ[1] = h
      BY <2>2
    <3> HIDE DEF h
    <3>4. ASSUME NEW k \in Jobs, Queued(k)'
          PROVE  Queued(k) /\ k # h
      BY <3>1, <3>3, <3>4, <2>4 DEF Queued
    <3>5. ASSUME NEW k \in Jobs, Queued(k), k # h
          PROVE  Queued(k)'
      BY <3>2, <3>3, <3>5 DEF Queued
    <3> QED
      BY <3>4, <3>5
  <2>6. \A n \in Masters, k \in Jobs :
          Working(n, k)' <=> (n = m /\ k = h) \/ (n # m /\ Working(n, k))
    BY <1>1, ReceiveMoves DEF Working, Others
  <2>7. \A k \in Jobs : Fresh(k) /\ k # h => Fresh(k)'
    BY <2>1, <2>6 DEF Fresh
  <2> HIDE DEF h
  <2>8. \A k \in Jobs : Untouched(k) => Untouched(k)'
    BY <2>1, <2>3, <2>5, <2>7 DEF Untouched
  <2>9. \A i, k \in DOMAIN jobQ' : jobQ'[i] = jobQ'[k] => i = k
    BY <2>2, <2>4
  <2>10. \A n, o \in Masters : \A k \in Jobs : Working(n, k)' /\ Working(o, k)' => n = o
    BY <2>3, <2>6 DEF Placement, Fresh
  <2>11. /\ \A k \in Jobs : status'[k] \in {"NONE", "SCHEDULED"} => Untouched(k)'
         /\ \A k \in Jobs : caller'[k] \in Unaccepted =>
                             Untouched(k)' /\ status'[k] \in {"QUEUED", "FAILED", "DELETED"}
    BY <2>1, <2>8 DEF Placement
  <2>12. /\ \A k \in claimed' : ~Queued(k)' /\ Fresh(k)'
         /\ \A k \in Jobs : Queued(k)' => Fresh(k)'
    BY <2>1, <2>3, <2>5, <2>7, <1>0 DEF Placement
  <2> QED
    BY <2>9, <2>10, <2>11, <2>12 DEF Placement
<1>2. CASE MarkInProgress(m)
  <2>1. /\ UNCHANGED <<caller, claimed, jobQ, sent>>
        /\ master[m].pc = "start"
        /\ master' = [master EXCEPT ![m] = [@ EXCEPT !.pc = "fetch"]]
        /\ UNCHANGED status \/ UpdateJobStatus(master[m].job, "IN_PROGRESS")
    BY <1>2 DEF MarkInProgress
  <2> QED
    BY <2>1, <1>a, ToPC DEF Statuses, SamePaging
<1>3. CASE FetchPage(m)
  <2>1. UNCHANGED <<status, caller, claimed, jobQ, sent>>
    BY <1>3 DEF FetchPage
  <2> QED
    BY <2>1, <1>3, <1>a, FetchMoves DEF SamePaging
<1>4. CASE Emit(m)
  <2> DEFINE j == master[m].job
  <2>1. /\ UNCHANGED <<status, caller, claimed, jobQ>> /\ j \in Jobs
        /\ master[m].pc = "emit" /\ Others(m) /\ master'[m].job = j
        /\ master'[m].pc # "receive"
    BY <1>4, EmitMoves DEF Emit
  <2>2. \A k \in Jobs : k # j => sent'[k] = sent[k]
    BY <1>4, <1>0, EmitMoves
  <2>3. \A n \in Masters, k \in Jobs : Working(n, k)' <=> Working(n, k)
    BY <2>1 DEF Working, Others
  <2>4. Working(m, j)
    BY <2>1 DEF Working
  <2> HIDE DEF j
  <2>5. \A k \in Jobs : Fresh(k) => Fresh(k)'
    BY <2>1, <2>2, <2>3, <2>4 DEF Fresh
  <2>6. \A k \in Jobs : (Queued(k)' <=> Queued(k)) /\ (Untouched(k) => Untouched(k)')
    BY <2>1, <2>5 DEF Queued, Untouched
  <2>7. /\ \A k \in Jobs : status'[k] \in {"NONE", "SCHEDULED"} => Untouched(k)'
        /\ \A k \in Jobs : caller'[k] \in Unaccepted =>
                            Untouched(k)' /\ status'[k] \in {"QUEUED", "FAILED", "DELETED"}
    BY <2>1, <2>6 DEF Placement
  <2> QED
    BY <2>1, <2>3, <2>5, <2>6, <2>7, <1>0 DEF Placement
<1>5. CASE FinalizeJobDispatch(m)
  <2>1. UNCHANGED <<caller, claimed, jobQ, sent>>
    BY <1>5 DEF FinalizeJobDispatch
  <2>2. \/ UNCHANGED status
        \/ UpdateJobStatus(master[m].job, FinalStatus(master[m].count))
    BY <1>5 DEF FinalizeJobDispatch
  <2>3. FinalStatus(master[m].count) \in Statuses \ {"SCHEDULED"}
    BY DEF FinalStatus, Statuses
  <2> QED
    BY <2>1, <2>2, <2>3, <1>5, <1>a, FinalizeMoves DEF SamePaging
<1>6. CASE CompleteJobIfDone(m)
  <2>1. /\ UNCHANGED <<caller, claimed, jobQ, sent>> /\ master[m].pc = "recheck"
        /\ master' = [master EXCEPT ![m] = IdleMaster]
        /\ \A k \in Jobs : status'[k] # status[k] => status'[k] = "COMPLETED" /\ k = master[m].job
    BY <1>6, <1>0 DEF CompleteJobIfDone
  <2> QED
    BY <2>1, <1>a, ToIdle
<1>7. CASE MarkFanoutFailed(m)
  <2>1. /\ UNCHANGED <<caller, claimed, jobQ, sent>> /\ master[m].pc = "fail"
        /\ master' = [master EXCEPT ![m] = IdleMaster]
        /\ UNCHANGED status \/ UpdateJobStatus(master[m].job, "FAILED")
    BY <1>7 DEF MarkFanoutFailed
  <2> QED
    BY <2>1, <1>a, ToIdle DEF Statuses
<1> QED
  BY <1>1, <1>2, <1>3, <1>4, <1>5, <1>6, <1>7 DEF MasterStep

LEMMA PlacementRest ==
  ASSUME TypeOK, Placement,
         \/ \E s \in Senders : SenderStep(s)
         \/ OutcomeReceive \/ OutcomeCollect \/ FlushTick \/ Flush
         \/ \E t \in Tokens : ChangeAudience(t)
         \/ UNCHANGED vars
  PROVE  Placement'
<1> USE DEF rows, lane, vars
<1>0. claimed \subseteq Jobs /\ jobQ \in Seq(Jobs)
  BY DEF TypeOK
<1>1. /\ UNCHANGED <<caller, claimed, jobQ, sent, master>>
      /\ UNCHANGED status \/ ApplyOutcomes
  BY DEF SenderStep, SenderReceive, DispatchPushTask, OutcomeReceive, OutcomeCollect,
         FlushTick, Flush, ChangeAudience
<1>2. \A m \in Masters, j \in Jobs : Working(m, j)' => Working(m, j)
  BY <1>1 DEF Working
<1>3. \A j \in Jobs : status'[j] # status[j] =>
                        status'[j] = "COMPLETED" /\ status[j] = "DISPATCHED"
  BY <1>1 DEF ApplyOutcomes, Done
<1>4. \A j \in Jobs : status[j] = "DISPATCHED" => caller[j] \notin Unaccepted
  BY DEF Placement
<1>5. \A j \in Jobs : status'[j] = status[j] \/
        /\ status'[j] \notin {"NONE", "SCHEDULED"}
        /\ status'[j] = "DELETED" \/ caller[j] \notin Unaccepted
  BY <1>3, <1>4
<1> QED
  BY <1>0, <1>1, <1>2, <1>5, PlacementFrame

LEMMA PlacementCrash ==
  ASSUME TypeOK, Placement, Crash
  PROVE  Placement'
<1>1. /\ claimed' = {} /\ jobQ' = <<>> /\ UNCHANGED <<status, sent>>
      /\ master' = [m \in Masters |-> IdleMaster]
      /\ caller' = [j \in Jobs |-> IF caller[j] \in {"submit", "markFailed"}
                                  THEN "rejected" ELSE caller[j]]
  BY DEF Crash, rows
<1>2. \A m \in Masters, j \in Jobs : ~Working(m, j)'
  BY <1>1, IdleMasterType DEF Working
<1>3. \A j \in Jobs : ~Queued(j)'
  BY <1>1 DEF Queued
<1>4. \A j \in Jobs : sent[j] = {} => Untouched(j)'
  BY <1>1, <1>2, <1>3 DEF Untouched, Fresh
<1>5. \A j \in Jobs : Untouched(j) => Untouched(j)'
  BY <1>4 DEF Untouched, Fresh
<1>6. \A j \in Jobs : caller'[j] \in Unaccepted => caller[j] \in Unaccepted
  BY <1>1, UnacceptedSubset DEF TypeOK
<1> QED
  BY <1>1, <1>2, <1>3, <1>5, <1>6 DEF Placement

LEMMA PlacementStep == TypeOK /\ Placement /\ [Next]_vars => Placement'
<1> SUFFICES ASSUME TypeOK, Placement, [Next]_vars
             PROVE  Placement'
  OBVIOUS
<1> QED
  BY PlacementHandlers, PlacementScheduler, PlacementMaster, PlacementRest, PlacementCrash
  DEF Next, Idle

LEMMA PlacementInit == Init => Placement
<1> SUFFICES ASSUME Init PROVE Placement
  OBVIOUS
<1>1. \A j \in Jobs : Untouched(j)
  BY DEF Init, Untouched, Queued, Fresh, Working, IdleMaster
<1>2. \A j \in Jobs : caller[j] \notin Unaccepted
  BY UnacceptedSubset DEF Init
<1> QED
  BY <1>1, <1>2 DEF Init, Placement, Untouched, Queued, Fresh

LEMMA PlacementInvariant == Spec => []Placement
BY TypeCorrect, PlacementInit, PlacementStep, PTL DEF Spec

\* A job whose request was answered with an error is never sent to anyone,
\* provided that an error of the INSERT means that nothing was inserted.
THEOREM RejectedStaysUnsent ==
  ASSUME "insert" \notin Faults
  PROVE  Spec => []RejectedNeverSent
<1>1. Placement => RejectedNeverSent
  BY UnacceptedSubset DEF Placement, RejectedNeverSent, Untouched, Fresh
<1> QED
  BY <1>1, PlacementInvariant, PTL

-----------------------------------------------------------------------------
(***************************************************************************)
(* Paging: the fan-out moves upwards through the tokens.                   *)
(***************************************************************************)

\* Sets of tokens are finite and consist of numbers.
LEMMA TokenSets ==
  ASSUME NEW S \in SUBSET Tokens
  PROVE  IsFiniteSet(S) /\ Cardinality(S) \in Nat /\ S \subseteq Nat
BY ConstantTypes, FS_Subset, FS_CardinalityType

\* What PagingOf says when only the master's program counter moves on.
LEMMA PagingAdvance ==
  ASSUME NEW r, NEW q, NEW S, PagingOf(r, S), r.page = q.page, r.count = q.count,
         \/ r.pc = "start" /\ q.pc = "fetch"
         \/ r.pc = "fetch" /\ q.pc \in {"finalize", "fail"}
         \/ q.pc \in {"recheck", "fail"}
  PROVE  PagingOf(q, S)
<1>1. Cardinality({}) = 0
  BY FS_EmptySet
<1> QED
  BY <1>1 DEF PagingOf

\* One page is fetched: its tokens are above all those sent.
LEMMA PagingFetch ==
  ASSUME NEW r \in MasterState, NEW q, NEW S \in SUBSET Tokens, PagingOf(r, S),
         r.pc = "fetch", q.pc = "emit", NEW A \in SUBSET Tokens,
         IsNextCursor(q.cursor, A, r.cursor), q.page = Page(A, r.cursor),
         q.count = r.count + Cardinality(q.page)
  PROVE  PagingOf(q, S)
<1>1. /\ r.page = {} /\ r.count = Cardinality(S) + Cardinality(r.page)
      /\ \A t \in S : t <= r.cursor
  BY DEF PagingOf
<1>2. /\ q.page \subseteq A /\ \A t \in q.page : t > r.cursor
      /\ q.cursor \in q.page /\ \A t \in q.page : t <= q.cursor
  BY DEF Page, Ahead, IsNextCursor
<1>3. r.cursor \in Nat /\ S \subseteq Nat /\ A \subseteq Nat /\ q.page \subseteq Nat
  BY <1>2, TokenSets DEF MasterState
<1>4. Cardinality({}) = 0 /\ Cardinality(S) \in Nat /\ Cardinality(q.page) \in Nat
  BY <1>2, TokenSets, FS_EmptySet
<1>5. \A t \in S \cup q.page : t <= q.cursor
  BY <1>1, <1>2, <1>3
<1>6. \A t \in S, u \in q.page : t < u
  BY <1>1, <1>2, <1>3
<1>7. q.count = Cardinality(S) + Cardinality(q.page)
  BY <1>1, <1>4
<1> QED
  BY <1>5, <1>6, <1>7 DEF PagingOf

\* The smallest token of the page is emitted: it was not sent before.
LEMMA PagingEmit ==
  ASSUME NEW r \in MasterState, NEW q, NEW S \in SUBSET Tokens, PagingOf(r, S),
         r.pc = "emit", q.pc \in {"emit", "fetch", "finalize"}, NEW t \in r.page,
         \A u \in r.page : t <= u,
         q.pc # "emit" => q.page = {},
         q.page = r.page \ {t}, q.cursor = r.cursor, q.count = r.count
  PROVE  /\ t \notin S
         /\ Cardinality(S \cup {t}) = Cardinality(S) + 1
         /\ PagingOf(q, S \cup {t})
<1>1. r.page \in SUBSET Tokens /\ t \in Tokens /\ r.cursor \in Nat
  BY DEF MasterState
<1>2. /\ S \subseteq Nat /\ r.page \subseteq Nat
      /\ IsFiniteSet(S) /\ IsFiniteSet(r.page)
      /\ Cardinality(S) \in Nat /\ Cardinality(r.page) \in Nat
  BY <1>1, TokenSets
<1>3. /\ \A x \in S \cup r.page : x <= r.cursor
      /\ \A x \in S, u \in r.page : x < u
      /\ r.count = Cardinality(S) + Cardinality(r.page)
  BY DEF PagingOf
<1>4. t \notin S
  BY <1>2, <1>3
<1>5. Cardinality(S \cup {t}) = Cardinality(S) + 1
  BY <1>2, <1>4, FS_AddElement
<1>6. Cardinality(r.page \ {t}) = Cardinality(r.page) - 1
  BY <1>2, FS_RemoveElement
<1>7. /\ \A x \in (S \cup {t}) \cup q.page : x <= q.cursor
      /\ \A x \in S \cup {t}, u \in q.page : x < u
  BY <1>2, <1>3
<1>8. q.count = Cardinality(S \cup {t}) + Cardinality(q.page)
  BY <1>2, <1>3, <1>5, <1>6
<1> QED
  BY <1>4, <1>5, <1>7, <1>8 DEF PagingOf

LEMMA PagingMaster ==
  ASSUME TypeOK, Placement, Paging, NEW m \in Masters, MasterStep(m)
  PROVE  Paging'
<1> DEFINE j == master[m].job
<1>0. /\ master[m] \in MasterState /\ sent \in [Jobs -> SUBSET Tokens]
      /\ jobQ \in Seq(Jobs)
      /\ \A n \in Masters : master[n].pc # "receive" => master[n].job \in Jobs
  BY DEF TypeOK
<1>1. /\ master[m].pc = "receive" => PagingOf(master[m], {})
      /\ master[m].pc # "receive" => PagingOf(master[m], sent[j])
  BY DEF Paging
<1>a. ASSUME Others(m), UNCHANGED sent,
             master'[m].pc = "receive" => PagingOf(master'[m], {}),
             master'[m].pc # "receive" => PagingOf(master'[m], sent[master'[m].job])
      PROVE  Paging'
  BY <1>a DEF Paging, Others
<1>b. ASSUME Others(m), SamePaging(m), UNCHANGED sent,
             \/ master[m].pc = "start" /\ master'[m].pc = "fetch"
             \/ master[m].pc = "fetch" /\ master'[m].pc \in {"finalize", "fail"}
             \/ master[m].pc = "finalize" /\ master'[m].pc \in {"recheck", "fail"}
      PROVE  Paging'
  <2>1. PagingOf(master'[m], sent[j])
    BY <1>b, <1>1, PagingAdvance DEF SamePaging
  <2> QED
    BY <2>1, <1>a, <1>b DEF SamePaging
<1>2. CASE MasterReceive(m)
  <2>1. /\ Others(m) /\ UNCHANGED sent
        /\ master[m].pc = "receive" /\ master'[m].pc = "start"
        /\ master'[m].job = Head(jobQ)
        /\ master'[m].page = master[m].page /\ master'[m].count = master[m].count
    BY <1>2, ReceiveMoves DEF MasterReceive
  <2>2. Head(jobQ) = jobQ[1] /\ Head(jobQ) \in Jobs /\ 1 \in DOMAIN jobQ
    BY <1>0, <1>2 DEF MasterReceive
  <2>3. sent[Head(jobQ)] = {}
    BY <2>2 DEF Placement, Queued, Fresh
  <2>4. PagingOf(master'[m], {})
    BY <2>1, <1>1 DEF PagingOf
  <2> QED
    BY <2>1, <2>3, <2>4, <1>a
<1>3. CASE MarkInProgress(m)
  <2>1. /\ UNCHANGED sent /\ master[m].pc = "start"
        /\ master' = [master EXCEPT ![m] = [@ EXCEPT !.pc = "fetch"]]
    BY <1>3 DEF MarkInProgress
  <2> QED
    BY <2>1, <1>b, ToPC
<1>4. CASE FetchPage(m)
  <2>1. Others(m) /\ UNCHANGED sent /\ master[m].pc = "fetch" /\ master'[m].job = j
    BY <1>4, FetchMoves DEF FetchPage
  <2>2. CASE master'[m].pc \in {"finalize", "fail"} /\ SamePaging(m)
    BY <2>1, <2>2, <1>b
  <2>3. ASSUME NEW c \in Tokens, NEW A \in SUBSET Tokens,
               IsNextCursor(c, A, master[m].cursor),
               master'[m].pc = "emit", master'[m].cursor = c,
               master'[m].page = Page(A, master[m].cursor),
               master'[m].count = master[m].count + Cardinality(Page(A, master[m].cursor))
        PROVE  Paging'
    <3>1. j \in Jobs /\ sent[j] \in SUBSET Tokens
      BY <2>1, <1>0
    <3>2. PagingOf(master'[m], sent[j])
      BY <2>1, <2>3, <3>1, <1>0, <1>1, PagingFetch
    <3> QED
      BY <2>1, <2>3, <3>2, <1>a
  <2> QED
    BY <1>4, <2>2, <2>3, FetchMoves
<1>5. CASE Emit(m)
  <2>1. PICK t \in master[m].page :
          /\ \A u \in master[m].page : t <= u
          /\ master'[m].page = master[m].page \ {t}
          /\ master'[m].pc \in {"emit", "fetch", "finalize"}
          /\ master'[m].pc # "emit" => master'[m].page = {}
          /\ sent' = [sent EXCEPT ![j] = @ \cup {t}]
    BY <1>5, EmitMoves
  <2>2. /\ Others(m) /\ master[m].pc = "emit" /\ j \in Jobs /\ master'[m].job = j
        /\ master'[m].cursor = master[m].cursor /\ master'[m].count = master[m].count
    BY <1>5, EmitMoves
  <2>3. sent[j] \in SUBSET Tokens /\ sent'[j] = sent[j] \cup {t}
    BY <2>1, <2>2, <1>0
  <2>4. PagingOf(master'[m], sent[j] \cup {t})
    <3> DEFINE S == sent[j]
               q == master'[m]
               r == master[m]
    <3>1. /\ r \in MasterState /\ S \in SUBSET Tokens /\ PagingOf(r, S)
          /\ r.pc = "emit" /\ q.pc \in {"emit", "fetch", "finalize"}
          /\ q.page = r.page \ {t} /\ q.cursor = r.cursor /\ q.count = r.count
          /\ q.pc # "emit" => q.page = {}
          /\ \A u \in r.page : t <= u
          /\ t \in r.page
      BY <2>1, <2>2, <2>3, <1>0, <1>1
    <3> HIDE DEF S, q, r
    <3>2. PagingOf(q, S \cup {t})
      BY <3>1, PagingEmit
    <3> QED
      BY <3>2 DEF S, q
  <2>5. ASSUME NEW n \in Masters, n # m, master[n].pc # "receive"
        PROVE  sent'[master[n].job] = sent[master[n].job]
    <3>1. master[n].job # j
      BY <2>2, <2>5, <1>0 DEF Placement, Working
    <3> QED
      BY <3>1, <2>1, <2>5, <1>0
  <2> HIDE DEF j
  <2> QED
    BY <2>1, <2>2, <2>3, <2>4, <2>5 DEF Paging, Others
<1>6. CASE FinalizeJobDispatch(m)
  <2>1. UNCHANGED sent
    BY <1>6 DEF FinalizeJobDispatch
  <2> QED
    BY <2>1, <1>6, <1>b, FinalizeMoves
<1>7. CASE CompleteJobIfDone(m) \/ MarkFanoutFailed(m)
  <2>1. UNCHANGED sent /\ master' = [master EXCEPT ![m] = IdleMaster]
    BY <1>7 DEF CompleteJobIfDone, MarkFanoutFailed
  <2>2. /\ Others(m) /\ master'[m].pc = "receive" /\ master'[m].page = {}
        /\ master'[m].count = 0
    BY <2>1, ToIdle
  <2>3. PagingOf(master'[m], {})
    BY <2>2 DEF PagingOf
  <2> QED
    BY <2>1, <2>2, <2>3, <1>a
<1> QED
  BY <1>2, <1>3, <1>4, <1>5, <1>6, <1>7 DEF MasterStep

LEMMA PagingStep == TypeOK /\ Placement /\ Paging /\ [Next]_vars => Paging'
<1> SUFFICES ASSUME TypeOK, Placement, Paging, [Next]_vars
             PROVE  Paging'
  OBVIOUS
<1>1. CASE UNCHANGED <<master, sent>>
  BY <1>1 DEF Paging
<1>2. CASE Crash
  <2>1. \A m \in Masters : master'[m] = IdleMaster
    BY <1>2 DEF Crash
  <2>2. PagingOf(IdleMaster, {}) /\ IdleMaster.pc = "receive"
    BY DEF PagingOf, IdleMaster
  <2> QED
    BY <2>1, <2>2 DEF Paging
<1>3. CASE \E m \in Masters : MasterStep(m)
  BY <1>3, PagingMaster
<1> USE DEF rows, lane, vars
<1>4. CASE UNCHANGED vars
  BY <1>1, <1>4
<1>5. ASSUME NEW j \in Jobs,
             \/ CreatePublishJob(j) \/ HandlerStep(j) \/ DeleteTarget(j)
             \/ SubmitScheduledJob(j)
      PROVE  UNCHANGED <<master, sent>>
  BY <1>5 DEF CreatePublishJob, HandlerStep, EnqueueImmediateJob, EnqueueTimeout,
              MarkEnqueueFailed, DeleteTarget, SubmitScheduledJob
<1>6. ASSUME \/ GetScheduledJobs \/ \E s \in Senders : SenderStep(s)
             \/ OutcomeReceive \/ OutcomeCollect \/ FlushTick \/ Flush
             \/ \E t \in Tokens : ChangeAudience(t)
      PROVE  UNCHANGED <<master, sent>>
  BY <1>6 DEF GetScheduledJobs, SenderStep, SenderReceive, DispatchPushTask,
              OutcomeReceive, OutcomeCollect, FlushTick, Flush, ChangeAudience
<1> QED
  BY <1>1, <1>2, <1>3, <1>4, <1>5, <1>6 DEF Next, Idle

LEMMA PagingInvariant == Spec => []Paging
<1>1. Init => Paging
  BY DEF Init, Paging, PagingOf, IdleMaster
<1> QED
  BY <1>1, TypeCorrect, PlacementInvariant, PagingStep, PTL DEF Spec

\* What a page holds was not sent before.
LEMMA EmitFresh ==
  ASSUME TypeOK, Paging, NEW m \in Masters, Emit(m), NEW t \in master[m].page
  PROVE  t \notin sent[master[m].job]
<1> DEFINE j == master[m].job
<1>1. PagingOf(master[m], sent[j]) /\ master[m].pc = "emit"
  BY EmitMoves DEF Paging
<1>2. master[m] \in MasterState /\ j \in Jobs /\ sent[j] \in SUBSET Tokens
  BY EmitMoves DEF TypeOK
<1>3. \A x \in sent[j] : x < t
  BY <1>1 DEF PagingOf
<1>4. t \in Nat
  BY <1>2, ConstantTypes DEF MasterState
<1> HIDE DEF j
<1>5. t \in sent[j] => t < t
  BY <1>3
<1> QED
  BY <1>4, <1>5 DEF j

\* No token is sent twice for one job, by whatever page, worker or restart.
THEOREM EmittedOnce == Spec => EmittedAtMostOnce
<1> DEFINE Once == Len(taskQ') > Len(taskQ) =>
             LET t == taskQ'[Len(taskQ')] IN t.token \notin sent[t.job]
<1>1. ASSUME TypeOK, Paging, [Next]_vars
      PROVE  Once
  <2> USE <1>1 DEF rows, lane, vars
  <2>0. taskQ \in Seq(Task) /\ Len(taskQ) \in Nat
    BY DEF TypeOK
  <2>1. ASSUME NEW m \in Masters, Emit(m)
        PROVE  Once
    <3> DEFINE j == master[m].job
    <3>1. PICK t \in master[m].page :
            /\ \A u \in master[m].page : t <= u
            /\ taskQ' = Append(taskQ, [job |-> j, token |-> t])
      BY <2>1, EmitMoves
    <3>2. t \notin sent[j]
      BY <2>1, <3>1, EmitFresh
    <3>3. taskQ'[Len(taskQ')] = [job |-> j, token |-> t]
      BY <3>1, <2>0
    <3> QED
      BY <3>2, <3>3
  <2>2. CASE \A m \in Masters : ~Emit(m)
    <3>1. ASSUME NEW j \in Jobs,
                 \/ CreatePublishJob(j) \/ HandlerStep(j) \/ DeleteTarget(j)
                 \/ SubmitScheduledJob(j)
          PROVE  taskQ' = taskQ
      BY <3>1 DEF CreatePublishJob, HandlerStep, EnqueueImmediateJob, EnqueueTimeout,
                  MarkEnqueueFailed, DeleteTarget, SubmitScheduledJob
    <3>2. ASSUME NEW m \in Masters, MasterStep(m)
          PROVE  taskQ' = taskQ
      BY <3>2, <2>2 DEF MasterStep, MasterReceive, MarkInProgress, FetchPage,
                        FinalizeJobDispatch, CompleteJobIfDone, MarkFanoutFailed
    <3>3. ASSUME NEW s \in Senders, SenderStep(s)
          PROVE  taskQ' = taskQ \/ (taskQ # <<>> /\ taskQ' = Tail(taskQ))
      BY <3>3 DEF SenderStep, SenderReceive, DispatchPushTask
    <3>4. ASSUME \/ GetScheduledJobs \/ OutcomeReceive \/ OutcomeCollect \/ FlushTick
                 \/ Flush \/ \E t \in Tokens : ChangeAudience(t)
          PROVE  taskQ' = taskQ
      BY <3>4 DEF GetScheduledJobs, OutcomeReceive, OutcomeCollect, FlushTick, Flush,
                  ChangeAudience
    <3>5. Crash => Len(taskQ') = 0
      BY DEF Crash
    <3>6. UNCHANGED vars => taskQ' = taskQ
      OBVIOUS
    <3>7. taskQ' = taskQ \/ (taskQ # <<>> /\ taskQ' = Tail(taskQ)) \/ Len(taskQ') = 0
      BY <3>1, <3>2, <3>3, <3>4, <3>5, <3>6 DEF Next, Idle
    <3>8. taskQ # <<>> => Len(Tail(taskQ)) = Len(taskQ) - 1
      BY <2>0
    <3>9. ~(Len(taskQ') > Len(taskQ))
      BY <2>0, <3>7, <3>8
    <3> QED
      BY <3>9
  <2> QED
    BY <2>1, <2>2
<1> QED
  BY <1>1, TypeCorrect, PagingInvariant, PTL DEF Spec, EmittedAtMostOnce
=============================================================================
