--------------------------- MODULE RegistryProofs ---------------------------
(***************************************************************************)
(* The registry, proved for every set of users, topics, tokens and         *)
(* requests: its foreign keys hold, every new user is subscribed to the    *)
(* broadcast topic, and what a request was told to be created stays until  *)
(* another request takes it back.                                          *)
(***************************************************************************)
EXTENDS Registry, FiniteSetTheorems, TLAPS

(***************************************************************************)
(* The sweep: a batch is not larger than its limit, and one from which     *)
(* rows were deleted is smaller.                                           *)
(***************************************************************************)
Sweeping ==
  /\ Cardinality(sweep.selected) <= SweepBatch
  /\ sweep.selected # {} /\ sweep.left = 0 => Cardinality(sweep.selected) < SweepBatch

\* Which statement a request of each kind may be at.
OpAt(q) ==
  /\ q.pc = "ensureUser" => q.want.op \in {"registerToken", "registerLAToken"}
  /\ q.pc \in {"create", "welcome"} =>
       q.want.op \in {"createUser", "registerToken", "registerLAToken"}
  /\ q.pc = "insertToken" => q.want.op = "registerToken"
  /\ q.pc = "requireUser" => q.want.op \in {"subscribe", "joinLA"}
  /\ q.pc = "requireTopic" => q.want.op \in {"subscribe", "joinLA", "registerLAToken"}
  /\ q.pc = "subscribe" => q.want.op = "subscribe"
  /\ q.pc = "joinLA" => q.want.op \in {"joinLA", "registerLAToken"}
  /\ q.pc = "upsert" => q.want.op = "registerLAToken"

(***************************************************************************)
(* What a request that no other one has upset can rely on: the user it has *)
(* created, the subscription it has made, and a token of its own that only *)
(* a sweep after its expiry can select.                                    *)
(***************************************************************************)
Relies(q) ==
  LET w == q.want
      row == la[w.token]
  IN  /\ q.pc = "welcome" => w.user \in users
      /\ q.pc = "upsert" /\ w.topic # NoTopic => <<w.user, w.topic>> \in laSubs
      /\ q.pc = "created" /\ w.op = "registerLAToken" =>
           /\ row.expires = q.expires
           /\ w.token \in sweep.selected => Passed(q.expires)
Requesting ==
  \A r \in Requests : OpAt(req[r]) /\ (~req[r].upset => Relies(req[r]))

IInv ==
  /\ TypeOK /\ Broadcast \in topics /\ Sweeping
  /\ NewUsersSubscribed /\ Requesting /\ CreatedHolds

ReqState == [want : Wanted, pc : PC, expires : Nat \cup {Never}, upset : BOOLEAN]
LARow == [owner : users \cup {Nobody}, expires : Nat \cup {Never}, valid : BOOLEAN]
TableTypes ==
  /\ users \subseteq Users /\ topics \subseteq Topics
  /\ owner \in [Devices -> users \cup {Nobody}]
  /\ subs \subseteq users \X topics /\ laSubs \subseteq users \X topics
  /\ la \in [LATokens -> LARow]
  /\ excused \subseteq users

LEMMA ConstantTypes ==
  /\ IsFiniteSet(LATokens) /\ Broadcast \in Topics /\ Broadcast \notin Deletable
  /\ Nobody \notin Users /\ NoTopic \notin Topics /\ Never \notin Nat
  /\ \A r \in Requests : Menu[r] \subseteq Wanted /\ Menu[r] # {}
  /\ JobLifetime \in Nat /\ SweepBatch \in Nat \ {0} /\ SweepBatches \in Nat \ {0}
  /\ MaxFaults \in Nat /\ MaxTime \in Nat
BY RegistryAssumption

LEMMA TypeParts ==
  TypeOK <=> /\ TableTypes
             /\ req \in [Requests -> ReqState]
             /\ sweep \in [selected : SUBSET LATokens, left : 0..SweepBatches]
             /\ now \in 0..MaxTime /\ faults \in 0..MaxFaults
BY DEF TypeOK, TableTypes, ReqState, LARow

LEMMA WantTypes ==
  ASSUME NEW w \in Wanted
  PROVE  /\ w.op \in Ops /\ w.user \in Users /\ w.user # Nobody
         /\ w.topic \in Topics \cup {NoTopic}
         /\ w.lifetime \in Nat \cup {Never}
         /\ w.op = "registerToken" => w.token \in Devices
         /\ w.op = "registerLAToken" => w.token \in LATokens
BY ConstantTypes DEF Wanted

-----------------------------------------------------------------------------
(***************************************************************************)
(* How a step moves the requests.                                          *)
(***************************************************************************)
Others(r) == \A z \in Requests : z # r => req'[z] = req[z]
SameRequest(r) ==
  /\ req'[r].want = req[r].want /\ req'[r].pc = req[r].pc
  /\ req'[r].expires = req[r].expires

LEMMA GotoMoves ==
  ASSUME TypeOK, NEW r \in Requests, NEW p \in PC, Goto(r, p)
  PROVE  /\ req' \in [Requests -> ReqState] /\ Others(r) /\ req'[r].pc = p
         /\ req'[r].want = req[r].want /\ req'[r].expires = req[r].expires
         /\ req'[r].upset = req[r].upset
<1>1. req \in [Requests -> ReqState] /\ req[r] \in ReqState
  BY TypeParts
<1>2. req' = [req EXCEPT ![r] = [req[r] EXCEPT !.pc = p]]
  BY <1>1 DEF Goto
<1>3. [req[r] EXCEPT !.pc = p] \in ReqState
  BY <1>1 DEF ReqState
<1>4. /\ req'[r] = [req[r] EXCEPT !.pc = p] /\ Others(r)
      /\ req' \in [Requests -> ReqState]
  BY <1>1, <1>2, <1>3 DEF Others
<1> QED
  BY <1>1, <1>4 DEF ReqState

LEMMA UpsetMoves ==
  ASSUME TypeOK, NEW S
  PROVE  /\ Upset(S) \in [Requests -> ReqState]
         /\ \A r \in Requests :
              /\ r \notin S => Upset(S)[r] = req[r]
              /\ Upset(S)[r].want = req[r].want /\ Upset(S)[r].pc = req[r].pc
              /\ Upset(S)[r].expires = req[r].expires
              /\ r \in S => Upset(S)[r].upset
<1>1. req \in [Requests -> ReqState]
  BY TypeParts
<1>2. ASSUME NEW r \in Requests
      PROVE  /\ Upset(S)[r] \in ReqState
             /\ r \notin S => Upset(S)[r] = req[r]
             /\ Upset(S)[r].want = req[r].want /\ Upset(S)[r].pc = req[r].pc
             /\ Upset(S)[r].expires = req[r].expires
             /\ r \in S => Upset(S)[r].upset
  <2> DEFINE q == [req[r] EXCEPT !.upset = TRUE]
  <2>1. req[r] \in ReqState
    BY <1>1
  <2>2. /\ q \in ReqState /\ q.want = req[r].want /\ q.pc = req[r].pc
        /\ q.expires = req[r].expires /\ q.upset
    BY <2>1 DEF ReqState
  <2>3. Upset(S)[r] = IF r \in S THEN q ELSE req[r]
    BY DEF Upset
  <2> HIDE DEF q
  <2> QED
    BY <2>1, <2>2, <2>3
<1>3. Upset(S) \in [Requests -> ReqState]
  <2>1. Upset(S) = [r \in Requests |-> Upset(S)[r]]
    BY DEF Upset
  <2> QED
    BY <1>2, <2>1
<1> QED
  BY <1>2, <1>3

-----------------------------------------------------------------------------
(***************************************************************************)
(* What a request holds, and the steps that take nothing of it away.       *)
(***************************************************************************)
InOrder(r) ==
  /\ OpAt(req[r])
  /\ ~req[r].upset => Relies(req[r]) /\ (req[r].pc = "created" => Granted(r))

LEMMA Assemble ==
  IInv <=> /\ TypeOK /\ Broadcast \in topics /\ Sweeping /\ NewUsersSubscribed
           /\ \A r \in Requests : InOrder(r)
BY DEF IInv, Requesting, CreatedHolds, InOrder

Keeps(r) ==
  LET w == Want(r)
      pair == <<w.user, w.topic>>
      row == la[w.token]
      at == req[r].pc
  IN  /\ at \in HeldAt["user"] /\ w.user \in users => w.user \in users'
      /\ at = "created" /\ w.op = "subscribe" /\ pair \in subs => pair \in subs'
      /\ at \in HeldAt["topic"] /\ pair \in laSubs => pair \in laSubs'
      /\ at = "created" /\ w.op = "registerToken" /\ owner[w.token] = w.user =>
           owner'[w.token] = w.user
      /\ at = "created" /\ w.op = "registerLAToken" /\ row.owner = w.user =>
           /\ la'[w.token].owner = w.user /\ la'[w.token].expires = row.expires
           /\ row.valid => la'[w.token].valid \/ (w.token \in sweep.selected)
           /\ w.token \in sweep'.selected => w.token \in sweep.selected \/ Passed(row.expires)
      /\ now <= now'

LEMMA KeepsEnough ==
  ASSUME TypeOK, NEW r \in Requests, InOrder(r), SameRequest(r), Keeps(r),
         now' \in Nat, ~req'[r].upset => ~req[r].upset
  PROVE  InOrder(r)'
<1>1. /\ req[r] \in ReqState /\ now \in Nat
  BY TypeParts, ConstantTypes
<1>2. OpAt(req'[r])
  BY DEF SameRequest, OpAt, InOrder
<1>3. \A e \in Nat \cup {Never} : Passed(e) => Passed(e)'
  BY <1>1 DEF Passed, Keeps
<1>4. ASSUME ~req'[r].upset
      PROVE  Relies(req[r])' /\ (req'[r].pc = "created" => Granted(r)')
  <2> DEFINE w == req[r].want
             e == req[r].expires
  <2>1. ~req[r].upset /\ Relies(req[r]) /\ (req[r].pc = "created" => Granted(r))
    BY <1>4 DEF InOrder
  <2>2. req'[r].want = w /\ req'[r].pc = req[r].pc /\ req'[r].expires = e
    BY DEF SameRequest
  <2>3. e \in Nat \cup {Never} /\ w \in Wanted
    BY <1>1 DEF ReqState
  <2>4. CASE req[r].pc = "welcome"
    BY <2>1, <2>2, <2>4 DEF Relies, Keeps, HeldAt, Want
  <2>5. CASE req[r].pc = "upsert"
    BY <2>1, <2>2, <2>5 DEF Relies, Keeps, HeldAt, Want
  <2>6. CASE req[r].pc = "created" /\ w.op = "registerLAToken"
    <3>1. /\ la[w.token].owner = w.user /\ la[w.token].expires = e
          /\ w.token \in sweep.selected => Passed(e)
          /\ la[w.token].valid \/ Passed(e)
          /\ w.topic # NoTopic => <<w.user, w.topic>> \in laSubs
      BY <2>1, <2>6 DEF Relies, Granted, Want
    <3>2. /\ la'[w.token].owner = w.user /\ la'[w.token].expires = e
          /\ la[w.token].valid => la'[w.token].valid \/ w.token \in sweep.selected
          /\ w.token \in sweep'.selected => w.token \in sweep.selected \/ Passed(e)
          /\ w.topic # NoTopic => <<w.user, w.topic>> \in laSubs'
      BY <2>6, <3>1 DEF Keeps, HeldAt, Want
    <3>3. Passed(e) => Passed(e)'
      BY <1>3, <2>2, <2>3 DEF Passed
    <3>4. Relies(req[r])'
      BY <2>2, <2>6, <3>1, <3>2, <3>3 DEF Relies
    <3>5. Granted(r)'
      BY <2>2, <2>6, <3>1, <3>2, <3>3 DEF Granted, Want
    <3> QED
      BY <3>4, <3>5
  <2>7. CASE req[r].pc = "created" /\ w.op # "registerLAToken"
    <3>1. w.op \in Ops \ {"registerLAToken"}
      BY <2>3, <2>7, WantTypes
    <3>2. Granted(r)'
      BY <2>1, <2>2, <2>7, <3>1 DEF Granted, Keeps, HeldAt, Want, Ops
    <3> QED
      BY <2>2, <2>7, <3>2 DEF Relies
  <2>8. CASE req[r].pc \notin {"welcome", "upsert", "created"}
    BY <2>2, <2>8 DEF Relies
  <2> QED
    BY <2>4, <2>5, <2>6, <2>7, <2>8
<1> QED
  BY <1>2, <1>4 DEF InOrder

-----------------------------------------------------------------------------
(***************************************************************************)
(* One statement of a request: the tables grow at most, and only its own   *)
(* request moves.                                                          *)
(***************************************************************************)
Growing ==
  /\ users \subseteq users' /\ subs \subseteq subs' /\ laSubs \subseteq laSubs'
  /\ \A d \in Devices : owner[d] # Nobody => owner'[d] = owner[d]
  /\ UNCHANGED <<topics, la, sweep, now>>

LEMMA GrowingKeeps ==
  ASSUME TypeOK, NEW r \in Requests, Growing
  PROVE  Keeps(r)
<1>1. Want(r) \in Wanted /\ now \in Nat
  BY TypeParts, ConstantTypes DEF Want, ReqState
<1> DEFINE w == Want(r)
<1>2. w.op = "registerToken" /\ owner[w.token] = w.user => owner'[w.token] = w.user
  BY <1>1, WantTypes DEF Growing
<1> QED
  BY <1>1, <1>2 DEF Keeps, Growing

\* Nobody loses the broadcast topic, unless it is the last to be welcomed.
LEMMA StillSubscribed ==
  ASSUME NewUsersSubscribed,
         users' \ excused' \subseteq users \ excused,
         \A u \in Users : <<u, Broadcast>> \in subs /\ u \in users' \ excused' => <<u, Broadcast>> \in subs',
         users' \subseteq Users,
         \A r \in Requests : req[r].pc = "welcome" =>
            req'[r].pc = "welcome" /\ req'[r].want = req[r].want
  PROVE  NewUsersSubscribed'
BY DEF NewUsersSubscribed, Want

LEMMA Grow ==
  ASSUME IInv, NEW r \in Requests, req' \in [Requests -> ReqState], Others(r), Growing,
         TableTypes', faults' \in 0..MaxFaults, NewUsersSubscribed', InOrder(r)'
  PROVE  IInv'
<1>1. TypeOK /\ \A z \in Requests : InOrder(z)
  BY Assemble
<1>2. TypeOK'
  BY <1>1 DEF Growing, TypeOK, TableTypes, ReqState, LARow
<1>3. \A z \in Requests : InOrder(z)'
  <2> SUFFICES ASSUME NEW z \in Requests, z # r
               PROVE  InOrder(z)'
    OBVIOUS
  <2>1. SameRequest(z) /\ (~req'[z].upset => ~req[z].upset)
    BY DEF Others, SameRequest
  <2>2. now' \in Nat
    BY <1>1, TypeParts, ConstantTypes DEF Growing
  <2> QED
    BY <1>1, <2>1, <2>2, GrowingKeeps, KeepsEnough
<1>4. Broadcast \in topics' /\ Sweeping'
  BY Assemble DEF Growing, Sweeping
<1> QED
  BY <1>2, <1>3, <1>4 DEF IInv, Requesting, CreatedHolds, InOrder

\* A statement that changes no table and tells nobody of a success.
LEMMA MoveOn ==
  ASSUME IInv, NEW r \in Requests, NEW p \in PC \ {"created", "welcome"}, Goto(r, p),
         UNCHANGED <<tables, sweep, now, excused>>, faults' \in 0..MaxFaults,
         req[r].pc # "welcome", OpAt(req'[r]), p = "upsert" => Want(r).topic = NoTopic
  PROVE  IInv'
<1> USE DEF tables
<1>1. TypeOK /\ NewUsersSubscribed
  BY Assemble
<1>2. /\ Others(r) /\ req'[r].pc = p /\ req'[r].want = req[r].want
      /\ req' \in [Requests -> ReqState]
  BY <1>1, GotoMoves
<1>3. Growing
  BY DEF Growing
<1>4. TableTypes'
  BY <1>1, TypeParts DEF TableTypes, LARow
<1>5. NewUsersSubscribed'
  BY <1>1, <1>2 DEF NewUsersSubscribed, Want, Others
<1>6. InOrder(r)'
  BY <1>2 DEF InOrder, Relies, Want
<1> QED
  BY <1>2, <1>3, <1>4, <1>5, <1>6, Grow

LEMMA FaultType ==
  ASSUME TypeOK, NEW call, Fails(call)
  PROVE  faults' \in 0..MaxFaults
BY TypeParts, ConstantTypes DEF Fails

LEMMA RejectKeeps ==
  ASSUME IInv, NEW r \in Requests, NEW call, Reject(r, call), req[r].pc # "welcome"
  PROVE  IInv'
<1>1. TypeOK
  BY Assemble
<1>2. Goto(r, "error") /\ Fails(call) /\ UNCHANGED <<tables, sweep, now, excused>>
  BY DEF Reject
<1>3. "error" \in PC \ {"created", "welcome"}
  BY DEF PC, Answers
<1>4. OpAt(req'[r])
  BY <1>1, <1>2, <1>3, GotoMoves DEF OpAt
<1> QED
  BY <1>1, <1>2, <1>3, <1>4, FaultType, MoveOn

LEMMA ProceedKeeps ==
  ASSUME IInv, NEW r \in Requests, NEW p \in PC \ {"created", "welcome"}, Proceed(r, p),
         req[r].pc # "welcome", p = "upsert" => Want(r).topic = NoTopic,
         p \in Answers \/
           (\A q \in ReqState : q.pc = p /\ q.want = req[r].want => OpAt(q))
  PROVE  IInv'
<1>1. TypeOK
  BY Assemble
<1>2. Goto(r, p) /\ UNCHANGED <<tables, sweep, now, faults, excused>>
  BY DEF Proceed, Continue, others
<1>3. OpAt(req'[r])
  BY <1>1, <1>2, GotoMoves DEF OpAt, Answers
<1>4. faults' \in 0..MaxFaults
  BY <1>1, <1>2, TypeParts
<1> QED
  BY <1>1, <1>2, <1>3, <1>4, MoveOn

-----------------------------------------------------------------------------
LEMMA EnsureUserKeeps ==
  ASSUME IInv, NEW r \in Requests, EnsureUser(r)
  PROVE  IInv'
<1>1. req[r].pc = "ensureUser" /\ InOrder(r)
  BY Assemble DEF EnsureUser
<1>2. Want(r).op \in {"registerToken", "registerLAToken"}
  BY <1>1 DEF InOrder, OpAt, Want
<1>3. CASE Reject(r, "getUser")
  BY <1>1, <1>3, RejectKeeps
<1> DEFINE p == IF Want(r).user \in users THEN AfterUser(r) ELSE "create"
<1>4. CASE Proceed(r, p)
  <2>1. /\ p \in {"create", "insertToken", "upsert", "requireTopic"}
        /\ p = "insertToken" => Want(r).op = "registerToken"
        /\ p = "upsert" => Want(r).topic = NoTopic /\ Want(r).op = "registerLAToken"
        /\ p = "requireTopic" => Want(r).op = "registerLAToken"
    BY <1>2 DEF AfterUser
  <2> HIDE DEF p
  <2>2. \A q \in ReqState : q.pc = p /\ q.want = req[r].want => OpAt(q)
    BY <1>2, <2>1 DEF OpAt, Want
  <2>3. p \in PC \ {"created", "welcome"}
    BY <2>1 DEF PC
  <2> QED
    BY <1>1, <1>4, <2>1, <2>2, <2>3, ProceedKeeps
<1> QED
  BY <1>3, <1>4 DEF EnsureUser

LEMMA RequireKeeps ==
  ASSUME IInv, NEW r \in Requests, RequireUser(r) \/ RequireTopic(r)
  PROVE  IInv'
<1>1. req[r].pc \in {"requireUser", "requireTopic"} /\ InOrder(r)
  BY Assemble DEF RequireUser, RequireTopic
<1>2. \/ req[r].pc = "requireUser" /\ Want(r).op \in {"subscribe", "joinLA"}
      \/ req[r].pc = "requireTopic" /\ Want(r).op \in {"subscribe", "joinLA", "registerLAToken"}
  BY <1>1 DEF InOrder, OpAt, Want
<1>3. CASE Reject(r, "getUser") \/ Reject(r, "getTopic")
  BY <1>1, <1>3, RejectKeeps
<1>4. ASSUME NEW p \in {"requireTopic", "notFound", "subscribe", "joinLA"}, Proceed(r, p),
             p = "subscribe" => Want(r).op = "subscribe",
             p = "joinLA" => Want(r).op \in {"joinLA", "registerLAToken"}
      PROVE  IInv'
  <2>1. \A q \in ReqState : q.pc = p /\ q.want = req[r].want => OpAt(q)
    BY <1>2, <1>4 DEF OpAt, Want
  <2>2. p \in PC \ {"created", "welcome"}
    BY DEF PC, Answers
  <2> QED
    BY <1>1, <1>4, <2>1, <2>2, ProceedKeeps
<1>5. CASE RequireUser(r)
  BY <1>3, <1>4, <1>5 DEF RequireUser
<1>6. CASE RequireTopic(r)
  <2>1. \/ Reject(r, "getTopic") \/ Proceed(r, "notFound")
        \/ Proceed(r, "subscribe") /\ Want(r).op = "subscribe"
        \/ Proceed(r, "joinLA") /\ Want(r).op \in {"joinLA", "registerLAToken"}
    BY <1>2, <1>6 DEF RequireTopic
  <2> QED
    BY <1>3, <1>4, <2>1
<1> QED
  BY <1>5, <1>6

LEMMA CreateUserKeeps ==
  ASSUME IInv, NEW r \in Requests, CreateUser(r)
  PROVE  IInv'
<1>1. req[r].pc = "create" /\ InOrder(r) /\ TypeOK /\ NewUsersSubscribed
  BY Assemble DEF CreateUser
<1>2. CASE Reject(r, "createUser")
  BY <1>1, <1>2, RejectKeeps
<1>3. ASSUME NEW p \in {"error", "conflict"}, Proceed(r, p)
      PROVE  IInv'
  <2>1. p \in Answers /\ p \in PC \ {"created", "welcome"} /\ p # "upsert"
    BY DEF Answers, PC
  <2> QED
    BY <1>1, <1>3, <2>1, ProceedKeeps
<1>4. CASE /\ Want(r).user \notin users
           /\ users' = users \cup {Want(r).user}
           /\ Continue(r, "welcome")
           /\ UNCHANGED <<topics, owner, subs, laSubs, la>>
  <2>1. Goto(r, "welcome") /\ UNCHANGED <<sweep, now, faults, excused>> /\ "welcome" \in PC
    BY <1>4 DEF Continue, others, PC
  <2>2. /\ req' \in [Requests -> ReqState] /\ Others(r) /\ req'[r].pc = "welcome"
        /\ req'[r].want = req[r].want
    BY <1>1, <2>1, GotoMoves
  <2>3. Growing
    BY <1>4, <2>1 DEF Growing
  <2>4. Want(r).user \in Users
    BY <1>1, TypeParts, WantTypes DEF Want, ReqState
  <2>5. TableTypes'
    BY <1>1, <1>4, <2>1, <2>4, TypeParts DEF TableTypes, LARow
  <2>6. NewUsersSubscribed'
    BY <1>1, <1>4, <2>1, <2>2 DEF NewUsersSubscribed, Want, Others
  <2>7. InOrder(r)'
    <3>1. OpAt(req'[r])
      BY <1>1, <2>2 DEF InOrder, OpAt
    <3>2. Relies(req[r])'
      BY <1>4, <2>2 DEF Relies, Want
    <3> QED
      BY <2>2, <3>1, <3>2 DEF InOrder
  <2>8. faults' \in 0..MaxFaults
    BY <1>1, <2>1, TypeParts
  <2> QED
    BY <2>2, <2>3, <2>5, <2>6, <2>7, <2>8, Grow
<1> QED
  BY <1>2, <1>3, <1>4 DEF CreateUser

LEMMA AfterUserIs ==
  ASSUME TypeOK, NEW r \in Requests,
         Want(r).op \in {"createUser", "registerToken", "registerLAToken"}
  PROVE  /\ AfterUser(r) \in PC
         /\ AfterUser(r) # "welcome"
         /\ AfterUser(r) = "created" => Want(r).op = "createUser"
         /\ AfterUser(r) = "upsert" => Want(r).topic = NoTopic
         /\ \A q : q.pc = AfterUser(r) /\ q.want = Want(r) => OpAt(q)
<1>1. \/ AfterUser(r) = "created" /\ Want(r).op = "createUser"
      \/ AfterUser(r) = "insertToken" /\ Want(r).op = "registerToken"
      \/ AfterUser(r) = "upsert" /\ Want(r).op = "registerLAToken" /\ Want(r).topic = NoTopic
      \/ AfterUser(r) = "requireTopic" /\ Want(r).op = "registerLAToken"
  BY DEF AfterUser
<1> QED
  BY <1>1 DEF PC, Answers, OpAt

LEMMA SubscribeToBroadcastKeeps ==
  ASSUME IInv, NEW r \in Requests, SubscribeToBroadcast(r)
  PROVE  IInv'
<1>1. req[r].pc = "welcome" /\ InOrder(r) /\ TypeOK /\ NewUsersSubscribed /\ Broadcast \in topics
  BY Assemble DEF SubscribeToBroadcast
<1> DEFINE u == Want(r).user
           p == AfterUser(r)
<1>2. Want(r).op \in {"createUser", "registerToken", "registerLAToken"}
  BY <1>1 DEF InOrder, OpAt, Want
<1>3. /\ p \in PC /\ p # "welcome" /\ (p = "created" => Want(r).op = "createUser")
      /\ p = "upsert" => Want(r).topic = NoTopic
      /\ \A q : q.pc = p /\ q.want = Want(r) => OpAt(q)
  BY <1>1, <1>2, AfterUserIs
<1>4. Goto(r, p) /\ UNCHANGED <<users, topics, owner, laSubs, la, sweep, now>>
  BY DEF SubscribeToBroadcast
<1>5. \/ /\ Fails("welcome") /\ UNCHANGED subs
         /\ excused' = excused \cup ({u} \cap users)
      \/ /\ subs' = IF u \in users THEN subs \cup {<<u, Broadcast>>} ELSE subs
         /\ UNCHANGED <<faults, excused>>
  BY DEF SubscribeToBroadcast
<1> HIDE DEF p
<1>6. /\ req' \in [Requests -> ReqState] /\ Others(r) /\ req'[r].pc = p
      /\ req'[r].want = req[r].want /\ req'[r].upset = req[r].upset
  BY <1>1, <1>3, <1>4, GotoMoves
<1>7. TableTypes /\ faults' \in 0..MaxFaults
  BY <1>1, <1>5, TypeParts, FaultType
<1>8. subs \subseteq subs' /\ subs' \subseteq users \X topics /\ excused' \subseteq users
  BY <1>1, <1>5, <1>7 DEF TableTypes
<1>9. Growing
  BY <1>4, <1>8 DEF Growing
<1>10. TableTypes'
  BY <1>4, <1>7, <1>8 DEF TableTypes, LARow
<1>11. NewUsersSubscribed'
  <2> SUFFICES ASSUME NEW v \in users' \ excused'
               PROVE  \/ <<v, Broadcast>> \in subs'
                      \/ \E z \in Requests : req'[z].want.user = v /\ req'[z].pc = "welcome"
    BY DEF NewUsersSubscribed, Want
  <2>1. v \in users \ excused
    BY <1>4, <1>5
  <2>2. CASE <<v, Broadcast>> \in subs
    BY <1>8, <2>2
  <2>3. CASE v = u
    BY <1>5, <2>1, <2>3
  <2>4. ASSUME v # u, NEW z \in Requests, Want(z).user = v, req[z].pc = "welcome"
        PROVE  \E y \in Requests : req'[y].want.user = v /\ req'[y].pc = "welcome"
    BY <1>6, <2>4 DEF Others, Want
  <2> QED
    BY <1>1, <2>1, <2>2, <2>3, <2>4 DEF NewUsersSubscribed
<1>12. InOrder(r)'
  <2>1. OpAt(req'[r])
    BY <1>3, <1>6 DEF Want
  <2>2. ASSUME ~req'[r].upset
        PROVE  Relies(req[r])' /\ (req'[r].pc = "created" => Granted(r)')
    <3>1. u \in users
      BY <1>1, <1>6, <2>2 DEF InOrder, Relies, Want
    <3>2. Relies(req[r])'
      BY <1>3, <1>6 DEF Relies, Want
    <3>3. req'[r].pc = "created" => Granted(r)'
      BY <1>3, <1>4, <1>6, <3>1 DEF Granted, Want
    <3> QED
      BY <3>2, <3>3
  <2> QED
    BY <2>1, <2>2 DEF InOrder
<1> QED
  BY <1>6, <1>7, <1>9, <1>10, <1>11, <1>12, Grow

LEMMA CreateTokenKeeps ==
  ASSUME IInv, NEW r \in Requests, CreateToken(r)
  PROVE  IInv'
<1>1. req[r].pc = "insertToken" /\ InOrder(r) /\ TypeOK /\ NewUsersSubscribed
  BY Assemble DEF CreateToken
<1>2. Want(r).op = "registerToken"
  BY <1>1 DEF InOrder, OpAt, Want
<1>3. CASE Reject(r, "createToken")
  BY <1>1, <1>3, RejectKeeps
<1>4. ASSUME NEW p \in {"error", "conflict"}, Proceed(r, p)
      PROVE  IInv'
  <2>1. p \in Answers /\ p \in PC \ {"created", "welcome"} /\ p # "upsert"
    BY DEF Answers, PC
  <2> QED
    BY <1>1, <1>4, <2>1, ProceedKeeps
<1> DEFINE w == Want(r)
<1>5. CASE /\ owner[w.token] = Nobody /\ w.user \in users
           /\ owner' = [owner EXCEPT ![w.token] = w.user]
           /\ Continue(r, "created")
           /\ UNCHANGED <<users, topics, subs, laSubs, la>>
  <2>1. Goto(r, "created") /\ UNCHANGED <<sweep, now, faults, excused>> /\ "created" \in PC
    BY <1>5 DEF Continue, others, PC, Answers
  <2>2. /\ req' \in [Requests -> ReqState] /\ Others(r) /\ req'[r].pc = "created"
        /\ req'[r].want = req[r].want
    BY <1>1, <2>1, GotoMoves
  <2>3. w.token \in Devices /\ TableTypes
    BY <1>1, <1>2, TypeParts, WantTypes DEF Want, ReqState
  <2>4. Growing
    BY <1>5, <2>1, <2>3 DEF Growing, TableTypes
  <2>5. TableTypes'
    BY <1>5, <2>1, <2>3 DEF TableTypes, LARow
  <2>6. NewUsersSubscribed'
    BY <1>1, <1>5, <2>1, <2>2 DEF NewUsersSubscribed, Want, Others
  <2>7. InOrder(r)'
    <3>1. OpAt(req'[r])
      BY <2>2 DEF OpAt
    <3>2. Relies(req[r])'
      BY <1>2, <2>2 DEF Relies, Want
    <3>3. owner'[w.token] = w.user
      BY <1>5, <2>3 DEF TableTypes
    <3>4. Granted(r)'
      BY <1>2, <2>2, <3>3 DEF Granted, Want
    <3> QED
      BY <3>1, <3>2, <3>4 DEF InOrder
  <2>8. faults' \in 0..MaxFaults
    BY <1>1, <2>1, TypeParts
  <2> QED
    BY <2>2, <2>4, <2>5, <2>6, <2>7, <2>8, Grow
<1> QED
  BY <1>3, <1>4, <1>5 DEF CreateToken

LEMMA SubscribeKeeps ==
  ASSUME IInv, NEW r \in Requests, SubscribeUserToTopic(r)
  PROVE  IInv'
<1>1. req[r].pc = "subscribe" /\ InOrder(r) /\ TypeOK /\ NewUsersSubscribed
  BY Assemble DEF SubscribeUserToTopic
<1>2. Want(r).op = "subscribe"
  BY <1>1 DEF InOrder, OpAt, Want
<1>3. CASE Reject(r, "subscribe")
  BY <1>1, <1>3, RejectKeeps
<1>4. ASSUME NEW p \in {"error", "conflict"}, Proceed(r, p)
      PROVE  IInv'
  <2>1. p \in Answers /\ p \in PC \ {"created", "welcome"} /\ p # "upsert"
    BY DEF Answers, PC
  <2> QED
    BY <1>1, <1>4, <2>1, ProceedKeeps
<1> DEFINE pair == <<Want(r).user, Want(r).topic>>
<1>5. CASE /\ pair \in (users \X topics) \ subs
           /\ subs' = subs \cup {pair}
           /\ Continue(r, "created")
           /\ UNCHANGED <<users, topics, owner, laSubs, la>>
  <2>1. Goto(r, "created") /\ UNCHANGED <<sweep, now, faults, excused>> /\ "created" \in PC
    BY <1>5 DEF Continue, others, PC, Answers
  <2>2. /\ req' \in [Requests -> ReqState] /\ Others(r) /\ req'[r].pc = "created"
        /\ req'[r].want = req[r].want
    BY <1>1, <2>1, GotoMoves
  <2>3. TableTypes /\ Growing
    BY <1>1, <1>5, <2>1, TypeParts DEF Growing
  <2>4. TableTypes'
    BY <1>5, <2>1, <2>3 DEF TableTypes, LARow
  <2>5. NewUsersSubscribed'
    BY <1>1, <1>5, <2>1, <2>2 DEF NewUsersSubscribed, Want, Others
  <2>6. InOrder(r)'
    BY <1>2, <1>5, <2>2 DEF InOrder, OpAt, Relies, Granted, Want
  <2>7. faults' \in 0..MaxFaults
    BY <1>1, <2>1, TypeParts
  <2> QED
    BY <2>2, <2>3, <2>4, <2>5, <2>6, <2>7, Grow
<1> QED
  BY <1>3, <1>4, <1>5 DEF SubscribeUserToTopic

LEMMA JoinLAKeeps ==
  ASSUME IInv, NEW r \in Requests, SubscribeUserToLATopic(r)
  PROVE  IInv'
<1>1. req[r].pc = "joinLA" /\ InOrder(r) /\ TypeOK /\ NewUsersSubscribed
  BY Assemble DEF SubscribeUserToLATopic
<1>2. Want(r).op \in {"joinLA", "registerLAToken"}
  BY <1>1 DEF InOrder, OpAt, Want
<1>3. CASE Reject(r, "joinLA")
  BY <1>1, <1>3, RejectKeeps
<1>4. CASE Proceed(r, "error")
  <2>1. "error" \in Answers /\ "error" \in PC \ {"created", "welcome"}
    BY DEF Answers, PC
  <2> QED
    BY <1>1, <1>4, <2>1, ProceedKeeps
<1> DEFINE pair == <<Want(r).user, Want(r).topic>>
           p == IF Want(r).op = "joinLA" THEN "created" ELSE "upsert"
<1>5. CASE /\ pair \in users \X topics
           /\ laSubs' = laSubs \cup {pair}
           /\ Continue(r, p)
           /\ UNCHANGED <<users, topics, owner, subs, la>>
  <2>1. Goto(r, p) /\ UNCHANGED <<sweep, now, faults, excused>> /\ p \in PC
    BY <1>5 DEF Continue, others, PC, Answers
  <2>2. /\ req' \in [Requests -> ReqState] /\ Others(r) /\ req'[r].pc = p
        /\ req'[r].want = req[r].want
    BY <1>1, <2>1, GotoMoves
  <2>3. TableTypes /\ Growing
    BY <1>1, <1>5, <2>1, TypeParts DEF Growing
  <2>4. TableTypes'
    BY <1>5, <2>1, <2>3 DEF TableTypes, LARow
  <2>5. NewUsersSubscribed'
    BY <1>1, <1>5, <2>1, <2>2 DEF NewUsersSubscribed, Want, Others
  <2>6. InOrder(r)'
    BY <1>2, <1>5, <2>2 DEF InOrder, OpAt, Relies, Granted, Want
  <2>7. faults' \in 0..MaxFaults
    BY <1>1, <2>1, TypeParts
  <2> QED
    BY <2>2, <2>3, <2>4, <2>5, <2>6, <2>7, Grow
<1> QED
  BY <1>3, <1>4, <1>5 DEF SubscribeUserToLATopic

LEMMA ArriveKeeps ==
  ASSUME IInv, NEW r \in Requests, NEW w \in Menu[r], Arrive(r, w)
  PROVE  IInv'
<1>1. req[r].pc = "idle" /\ TypeOK /\ NewUsersSubscribed
  BY Assemble DEF Arrive
<1>2. req \in [Requests -> ReqState] /\ req[r] \in ReqState /\ now \in Nat /\ w \in Wanted
  BY <1>1, TypeParts, ConstantTypes
<1> DEFINE p == FirstStep(w.op)
           e == IF w.op = "registerLAToken" THEN Capped(w) ELSE Never
           q == [req[r] EXCEPT !.want = w, !.pc = p, !.expires = e]
<1>3. e \in Nat \cup {Never}
  BY <1>2, WantTypes, ConstantTypes DEF Capped
<1>4. /\ p \in {"create", "ensureUser", "requireUser"}
      /\ p = "create" => w.op = "createUser"
      /\ p = "ensureUser" => w.op \in {"registerToken", "registerLAToken"}
      /\ p = "requireUser" => w.op \in {"subscribe", "joinLA"}
  BY <1>2, WantTypes DEF FirstStep, Ops
<1>5. /\ req' = [req EXCEPT ![r].want = w, ![r].pc = p, ![r].expires = e]
      /\ UNCHANGED <<tables, others>>
  BY DEF Arrive
<1> HIDE DEF p, e
<1>6. q \in ReqState /\ q.want = w /\ q.pc = p
  BY <1>2, <1>3, <1>4 DEF ReqState, PC
<1>7. req' \in [Requests -> ReqState] /\ Others(r) /\ req'[r] = q
  <2>1. req' = [req EXCEPT ![r] = q]
    BY <1>2, <1>5
  <2> HIDE DEF q
  <2> QED
    BY <1>2, <1>6, <2>1 DEF Others
<1> HIDE DEF q
<1>8. Growing
  BY <1>5 DEF Growing, tables, others
<1>9. TableTypes' /\ faults' \in 0..MaxFaults
  BY <1>1, <1>5, TypeParts DEF TableTypes, LARow, tables, others
<1>10. NewUsersSubscribed'
  BY <1>1, <1>5, <1>7 DEF NewUsersSubscribed, Want, Others, tables, others
<1>11. InOrder(r)'
  BY <1>4, <1>6, <1>7 DEF InOrder, OpAt, Relies
<1> QED
  BY <1>7, <1>8, <1>9, <1>10, <1>11, Grow

-----------------------------------------------------------------------------
(***************************************************************************)
(* A step that may take something back: it upsets the requests it takes it *)
(* from, and keeps what the others hold.                                   *)
(***************************************************************************)
LEMMA UpsetHolds ==
  ASSUME TypeOK, NEW z \in Requests, InOrder(z), NEW S, req'[z] = Upset(S)[z],
         z \notin S => Keeps(z), now' \in Nat
  PROVE  InOrder(z)'
<1>1. /\ z \notin S => req'[z] = req[z]
      /\ req'[z].want = req[z].want /\ req'[z].pc = req[z].pc
      /\ z \in S => req'[z].upset
  BY UpsetMoves
<1>2. CASE z \notin S
  BY <1>1, <1>2, KeepsEnough DEF SameRequest
<1>3. CASE z \in S
  <2>1. OpAt(req'[z])
    BY <1>1 DEF InOrder, OpAt
  <2> QED
    BY <1>1, <1>3, <2>1 DEF InOrder
<1> QED
  BY <1>2, <1>3

LEMMA NobodyUpset ==
  ASSUME TypeOK
  PROVE  Upset({}) = req
<1>1. req \in [Requests -> ReqState]
  BY TypeParts
<1> QED
  BY <1>1 DEF Upset

LEMMA Undisturbed ==
  ASSUME IInv, NEW S, req' = Upset(S), \A z \in Requests : z \notin S => Keeps(z),
         TableTypes', Broadcast \in topics', Sweeping', NewUsersSubscribed',
         sweep' \in [selected : SUBSET LATokens, left : 0..SweepBatches],
         now' \in 0..MaxTime, faults' \in 0..MaxFaults
  PROVE  IInv'
<1>1. TypeOK /\ \A z \in Requests : InOrder(z)
  BY Assemble
<1>2. req' \in [Requests -> ReqState]
  BY <1>1, UpsetMoves
<1>3. TypeOK'
  BY <1>2 DEF TypeOK, TableTypes, ReqState, LARow
<1>4. now' \in Nat
  BY ConstantTypes
<1>5. \A z \in Requests : InOrder(z)'
  BY <1>1, <1>4, UpsetHolds
<1> QED
  BY <1>3, <1>5 DEF IInv, Requesting, CreatedHolds, InOrder

\* The welcome of a user waits as long as the request that owes it.
LEMMA WelcomeWaits ==
  ASSUME TypeOK, NewUsersSubscribed, NEW S, req' = Upset(S),
         users' \ excused' \subseteq users \ excused,
         \A u \in users' \ excused' : <<u, Broadcast>> \in subs => <<u, Broadcast>> \in subs'
  PROVE  NewUsersSubscribed'
<1>1. \A z \in Requests : req'[z].want = req[z].want /\ req'[z].pc = req[z].pc
  BY UpsetMoves
<1> QED
  BY <1>1 DEF NewUsersSubscribed, Want

LEMMA HoldersIs ==
  ASSUME NEW x, NEW r \in Requests
  PROVE  /\ r \in Holders("user", x) <=>
              req[r].pc \in {"welcome", "upsert", "created"} /\ Want(r).user = x
         /\ r \in Holders("topic", x) <=>
              req[r].pc \in {"upsert", "created"} /\ Want(r).topic = x
         /\ r \in Holders("token", x) <=> req[r].pc = "created" /\ Want(r).token = x
<1>1. /\ HeldAt["user"] = {"welcome", "upsert", "created"}
      /\ HeldAt["topic"] = {"upsert", "created"} /\ HeldAt["token"] = {"created"}
  BY DEF HeldAt
<1> QED
  BY <1>1 DEF Holders

LEMMA UpsertKeeps ==
  ASSUME IInv, NEW r \in Requests, UpsertLiveActivityToken(r)
  PROVE  IInv'
<1>1. /\ req[r].pc = "upsert" /\ InOrder(r) /\ TypeOK /\ NewUsersSubscribed
      /\ Broadcast \in topics /\ Sweeping /\ \A z \in Requests : InOrder(z)
  BY Assemble DEF UpsertLiveActivityToken
<1>2. Want(r).op = "registerLAToken"
  BY <1>1 DEF InOrder, OpAt, Want
<1>3. CASE Reject(r, "upsert")
  BY <1>1, <1>3, RejectKeeps
<1>4. CASE Proceed(r, "error")
  <2>1. "error" \in Answers /\ "error" \in PC \ {"created", "welcome"}
    BY DEF Answers, PC
  <2> QED
    BY <1>1, <1>4, <2>1, ProceedKeeps
<1> DEFINE t == Want(r).token
           S == Holders("token", t)
           q == [req[r] EXCEPT !.pc = "created", !.upset = @ \/ t \in sweep.selected]
<1>5. CASE /\ Want(r).user \in users
           /\ la' = [la EXCEPT ![t] = Stored(r)]
           /\ req' = [Upset(S) EXCEPT ![r] = q]
           /\ UNCHANGED <<users, topics, owner, subs, laSubs, others>>
  <2>1. req[r] \in ReqState /\ TableTypes /\ t \in LATokens
    BY <1>1, <1>2, TypeParts, WantTypes DEF Want, ReqState
  <2>2. /\ q \in ReqState /\ q.want = req[r].want /\ q.pc = "created"
        /\ q.expires = req[r].expires
    BY <2>1 DEF ReqState, PC, Answers
  <2>3. ~q.upset => ~req[r].upset /\ t \notin sweep.selected
    BY <2>1 DEF ReqState
  <2> HIDE DEF q
  <2>4. Upset(S) \in [Requests -> ReqState]
    BY <1>1, UpsetMoves
  <2>5. /\ req' \in [Requests -> ReqState] /\ req'[r] = q
        /\ \A z \in Requests : z # r => req'[z] = Upset(S)[z]
    BY <1>5, <2>2, <2>4
  <2>6. Stored(r) \in LARow
    BY <1>5, <2>1 DEF Stored, LARow, Want, ReqState
  <2>7. la' \in [LATokens -> LARow] /\ la'[t] = Stored(r)
        /\ \A x \in LATokens : x # t => la'[x] = la[x]
    BY <1>5, <2>1, <2>6 DEF TableTypes
  <2>8. UNCHANGED <<users, topics, owner, subs, laSubs, sweep, now, faults, excused>>
    BY <1>5 DEF others
  <2>9. TypeOK'
    BY <1>1, <2>5, <2>7, <2>8 DEF TypeOK, ReqState, LARow
  <2>10. now \in Nat /\ now' \in Nat
    BY <1>1, <2>8, TypeParts, ConstantTypes
  <2>11. ASSUME NEW z \in Requests, z # r
         PROVE  InOrder(z)'
    <3>1. ASSUME z \notin S
          PROVE  Keeps(z)
      <4>1. req[z].pc = "created" => Want(z).token # t
        BY <3>1, HoldersIs
      <4>2. req[z].pc = "created" /\ Want(z).op = "registerLAToken" =>
              la'[Want(z).token] = la[Want(z).token]
        BY <1>1, <2>7, <4>1, TypeParts, WantTypes DEF Want, ReqState
      <4> QED
        BY <2>8, <2>10, <4>2 DEF Keeps
    <3> HIDE DEF S
    <3> QED
      BY <1>1, <2>5, <2>10, <2>11, <3>1, UpsetHolds
  <2>12. InOrder(r)'
    <3>1. OpAt(req'[r])
      BY <2>2, <2>5 DEF OpAt
    <3>2. ASSUME ~req'[r].upset
          PROVE  Relies(req[r])' /\ Granted(r)'
      <4>1. /\ t \notin sweep.selected
            /\ Want(r).topic # NoTopic => <<Want(r).user, Want(r).topic>> \in laSubs
        BY <1>1, <2>3, <2>5, <3>2 DEF InOrder, Relies, Want
      <4>2. /\ la'[t].owner = Want(r).user /\ la'[t].expires = req[r].expires
            /\ la'[t].valid
        BY <2>7 DEF Stored
      <4>3. Relies(req[r])'
        BY <2>2, <2>5, <2>8, <4>1, <4>2 DEF Relies, Want
      <4>4. Granted(r)'
        BY <1>2, <2>2, <2>5, <2>8, <4>1, <4>2 DEF Granted, Want
      <4> QED
        BY <4>3, <4>4
    <3> QED
      BY <3>1, <3>2 DEF InOrder
  <2>13. NewUsersSubscribed'
    <3>1. \A z \in Requests : z # r => req'[z].want = req[z].want /\ req'[z].pc = req[z].pc
      BY <1>1, <2>5, UpsetMoves
    <3> QED
      BY <1>1, <2>8, <3>1 DEF NewUsersSubscribed, Want
  <2>14. Broadcast \in topics' /\ Sweeping'
    BY <1>1, <2>8 DEF Sweeping
  <2>15. \A z \in Requests : InOrder(z)'
    BY <2>11, <2>12
  <2> QED
    BY <2>9, <2>13, <2>14, <2>15 DEF IInv, Requesting, CreatedHolds, InOrder
<1> QED
  BY <1>3, <1>4, <1>5 DEF UpsertLiveActivityToken

-----------------------------------------------------------------------------
(***************************************************************************)
(* Requests of one statement, the sweep and the clock.                     *)
(***************************************************************************)
LEMMA CreateTopicKeeps ==
  ASSUME IInv, NEW x \in Topics, CreateTopic(x)
  PROVE  IInv'
<1>1. TypeOK /\ TableTypes /\ NewUsersSubscribed /\ Broadcast \in topics /\ Sweeping
  BY Assemble, TypeParts
<1>2. /\ topics' = topics \cup {x}
      /\ UNCHANGED <<users, owner, subs, laSubs, la, req, sweep, now, faults, excused>>
  BY DEF CreateTopic, others
<1>3. req' = Upset({})
  BY <1>1, <1>2, NobodyUpset
<1>4. \A z \in Requests : Keeps(z)
  BY <1>1, <1>2, TypeParts, ConstantTypes DEF Keeps
<1>5. TableTypes' /\ Broadcast \in topics' /\ Sweeping'
  BY <1>1, <1>2 DEF TableTypes, LARow, Sweeping
<1>6. NewUsersSubscribed'
  BY <1>1, <1>2, <1>3, WelcomeWaits
<1> QED
  BY <1>1, <1>2, <1>3, <1>4, <1>5, <1>6, TypeParts, Undisturbed

LEMMA DeleteUserKeeps ==
  ASSUME IInv, NEW u \in Users, DeleteUser(u)
  PROVE  IInv'
<1>1. TypeOK /\ TableTypes /\ NewUsersSubscribed /\ Broadcast \in topics /\ Sweeping
  BY Assemble, TypeParts
<1> DEFINE S == Holders("user", u)
           gone == {t \in sweep.selected : la[t].owner = u}
<1>2. /\ users' = users \ {u} /\ excused' = excused \ {u}
      /\ owner' = [d \in Devices |-> IF owner[d] = u THEN Nobody ELSE owner[d]]
      /\ la' = [t \in LATokens |-> IF la[t].owner = u THEN NoLA ELSE la[t]]
      /\ subs' = {p \in subs : p[1] # u} /\ laSubs' = {p \in laSubs : p[1] # u}
      /\ req' = Upset(S)
      /\ sweep' = IF gone = {} THEN sweep
                  ELSE [selected |-> sweep.selected \ gone, left |-> 0]
      /\ UNCHANGED <<topics, now, faults>>
  BY DEF DeleteUser, Without
<1> HIDE DEF S
<1>3. /\ sweep \in [selected : SUBSET LATokens, left : 0..SweepBatches]
      /\ now \in 0..MaxTime /\ now \in Nat /\ faults \in 0..MaxFaults
  BY <1>1, TypeParts, ConstantTypes
<1>4. TableTypes'
  <2>1. NoLA \in LARow' /\ \A t \in LATokens : la[t].owner # u => la[t] \in LARow'
    BY <1>1, <1>2 DEF TableTypes, LARow, NoLA
  <2>2. la' \in [LATokens -> LARow']
    BY <1>2, <2>1
  <2>3. owner' \in [Devices -> users' \cup {Nobody}]
    BY <1>1, <1>2 DEF TableTypes
  <2>4. subs' \subseteq users' \X topics' /\ laSubs' \subseteq users' \X topics'
    BY <1>1, <1>2 DEF TableTypes
  <2> QED
    BY <1>1, <1>2, <2>2, <2>3, <2>4 DEF TableTypes, LARow
<1>5. /\ sweep' \in [selected : SUBSET LATokens, left : 0..SweepBatches]
      /\ sweep'.selected \subseteq sweep.selected
      /\ sweep' = sweep \/ (sweep'.selected # sweep.selected)
  BY <1>2, <1>3, ConstantTypes
<1>6. Sweeping'
  <2>1. CASE sweep' = sweep
    BY <1>1, <2>1 DEF Sweeping
  <2>2. CASE sweep'.selected # sweep.selected
    <3>1. IsFiniteSet(sweep.selected)
      BY <1>3, ConstantTypes, FS_Subset
    <3>2. /\ Cardinality(sweep.selected) \in Nat /\ Cardinality(sweep'.selected) \in Nat
          /\ Cardinality(sweep'.selected) <= Cardinality(sweep.selected)
          /\ Cardinality(sweep'.selected) # Cardinality(sweep.selected)
      BY <1>5, <2>2, <3>1, FS_Subset, FS_CardinalityType
    <3> QED
      BY <1>1, <3>2, ConstantTypes DEF Sweeping
  <2> QED
    BY <1>5, <2>1, <2>2
<1>7. ASSUME NEW z \in Requests, z \notin S
      PROVE  Keeps(z)
  <2> DEFINE w == Want(z)
  <2>0. CASE req[z].pc \notin {"welcome", "upsert", "created"}
    BY <1>2, <1>3, <2>0 DEF Keeps, HeldAt
  <2> SUFFICES ASSUME req[z].pc \in {"welcome", "upsert", "created"}
               PROVE  Keeps(z)
    BY <2>0
  <2>1. w.user # u /\ w \in Wanted
    BY <1>1, <1>7, HoldersIs, TypeParts DEF S, Want, ReqState
  <2>2. w.op = "registerToken" /\ owner[w.token] = w.user => owner'[w.token] = w.user
    BY <1>2, <2>1, WantTypes
  <2>3. w.op = "registerLAToken" /\ la[w.token].owner = w.user => la'[w.token] = la[w.token]
    BY <1>2, <2>1, WantTypes
  <2>4. <<w.user, w.topic>>[1] # u
    BY <2>1
  <2>5. /\ w.user \in users => w.user \in users'
        /\ <<w.user, w.topic>> \in subs => <<w.user, w.topic>> \in subs'
        /\ <<w.user, w.topic>> \in laSubs => <<w.user, w.topic>> \in laSubs'
    BY <1>2, <2>1, <2>4
  <2> HIDE DEF w
  <2> QED
    BY <1>2, <1>3, <1>5, <2>2, <2>3, <2>5 DEF Keeps, w
<1>8. NewUsersSubscribed'
  <2>1. /\ users' \ excused' \subseteq users \ excused
        /\ \A v \in users' \ excused' : <<v, Broadcast>> \in subs => <<v, Broadcast>> \in subs'
    BY <1>2
  <2> QED
    BY <1>1, <1>2, <2>1, WelcomeWaits
<1>9. Broadcast \in topics' /\ now' \in 0..MaxTime /\ faults' \in 0..MaxFaults
  BY <1>1, <1>2, <1>3
<1> HIDE DEF gone
<1> QED
  BY <1>2, <1>4, <1>5, <1>6, <1>7, <1>8, <1>9, Undisturbed

LEMMA DeleteTopicKeeps ==
  ASSUME IInv, NEW x \in Topics, DeleteTopic(x)
  PROVE  IInv'
<1>1. TypeOK /\ TableTypes /\ NewUsersSubscribed /\ Broadcast \in topics /\ Sweeping
  BY Assemble, TypeParts
<1> DEFINE S == Holders("topic", x)
<1>2. /\ x \in topics \cap Deletable /\ topics' = topics \ {x}
      /\ subs' = {p \in subs : p[2] # x} /\ laSubs' = {p \in laSubs : p[2] # x}
      /\ req' = Upset(S)
      /\ UNCHANGED <<users, owner, la, sweep, now, faults, excused>>
  BY DEF DeleteTopic, others
<1> HIDE DEF S
<1>3. x # Broadcast
  BY <1>2, ConstantTypes
<1>4. TableTypes' /\ Broadcast \in topics' /\ Sweeping'
  BY <1>1, <1>2, <1>3 DEF TableTypes, LARow, Sweeping
<1>5. ASSUME NEW z \in Requests, z \notin S
      PROVE  Keeps(z)
  <2>1. req[z].pc \in {"upsert", "created"} => Want(z).topic # x
    BY <1>5, HoldersIs DEF S
  <2> QED
    BY <1>1, <1>2, <2>1, TypeParts, ConstantTypes DEF Keeps, HeldAt
<1>6. NewUsersSubscribed'
  BY <1>1, <1>2, <1>3, WelcomeWaits
<1> QED
  BY <1>1, <1>2, <1>4, <1>5, <1>6, TypeParts, Undisturbed

LEMMA DeleteTokenKeeps ==
  ASSUME IInv, NEW d \in Devices, DeleteToken(d)
  PROVE  IInv'
<1>1. TypeOK /\ TableTypes /\ NewUsersSubscribed /\ Broadcast \in topics /\ Sweeping
  BY Assemble, TypeParts
<1> DEFINE S == Holders("token", d)
<1>2. /\ owner' = [owner EXCEPT ![d] = Nobody] /\ req' = Upset(S)
      /\ UNCHANGED <<users, topics, subs, laSubs, la, sweep, now, faults, excused>>
  BY DEF DeleteToken, others
<1> HIDE DEF S
<1>3. TableTypes' /\ Broadcast \in topics' /\ Sweeping'
  BY <1>1, <1>2 DEF TableTypes, LARow, Sweeping
<1>4. ASSUME NEW z \in Requests, z \notin S
      PROVE  Keeps(z)
  <2>1. req[z].pc = "created" => Want(z).token # d
    BY <1>4, HoldersIs DEF S
  <2>2. Want(z) \in Wanted
    BY <1>1, TypeParts DEF Want, ReqState
  <2>3. req[z].pc = "created" /\ Want(z).op = "registerToken" =>
          owner'[Want(z).token] = owner[Want(z).token]
    BY <1>1, <1>2, <2>1, <2>2, WantTypes DEF TableTypes
  <2> QED
    BY <1>1, <1>2, <2>3, TypeParts, ConstantTypes DEF Keeps
<1>5. NewUsersSubscribed'
  BY <1>1, <1>2, WelcomeWaits
<1> QED
  BY <1>1, <1>2, <1>3, <1>4, <1>5, TypeParts, Undisturbed

LEMMA UnsubscribeKeeps ==
  ASSUME IInv, NEW u \in Users, NEW x \in Topics, UnsubscribeUserFromTopic(u, x)
  PROVE  IInv'
<1>1. TypeOK /\ TableTypes /\ NewUsersSubscribed /\ Broadcast \in topics /\ Sweeping
  BY Assemble, TypeParts
<1> DEFINE S == {r \in Holders("user", u) \cap Holders("topic", x) : Want(r).op = "subscribe"}
<1>2. /\ <<u, x>> \in subs /\ subs' = subs \ {<<u, x>>} /\ req' = Upset(S)
      /\ excused' = IF x = Broadcast THEN excused \cup {u} ELSE excused
      /\ UNCHANGED <<users, topics, owner, laSubs, la, sweep, now, faults>>
  BY DEF UnsubscribeUserFromTopic
<1> HIDE DEF S
<1>3. TableTypes' /\ Broadcast \in topics' /\ Sweeping'
  BY <1>1, <1>2 DEF TableTypes, LARow, Sweeping
<1>4. ASSUME NEW z \in Requests, z \notin S
      PROVE  Keeps(z)
  <2>1. req[z].pc = "created" /\ Want(z).op = "subscribe" =>
          <<Want(z).user, Want(z).topic>> # <<u, x>>
    BY <1>4, HoldersIs DEF S
  <2> QED
    BY <1>1, <1>2, <2>1, TypeParts, ConstantTypes DEF Keeps
<1>5. NewUsersSubscribed'
  <2>1. /\ users' \ excused' \subseteq users \ excused
        /\ \A v \in users' \ excused' : <<v, Broadcast>> \in subs => <<v, Broadcast>> \in subs'
    BY <1>2
  <2> QED
    BY <1>1, <1>2, <2>1, WelcomeWaits
<1> QED
  BY <1>1, <1>2, <1>3, <1>4, <1>5, TypeParts, Undisturbed

LEMMA InvalidateKeeps ==
  ASSUME IInv, NEW t \in LATokens, InvalidateLiveActivityToken(t)
  PROVE  IInv'
<1>1. TypeOK /\ TableTypes /\ NewUsersSubscribed /\ Broadcast \in topics /\ Sweeping
  BY Assemble, TypeParts
<1> DEFINE S == Holders("token", t)
<1>2. /\ la' = [la EXCEPT ![t].valid = FALSE] /\ req' = Upset(S)
      /\ UNCHANGED <<users, topics, owner, subs, laSubs, sweep, now, faults, excused>>
  BY DEF InvalidateLiveActivityToken, others
<1> HIDE DEF S
<1>3. la' \in [LATokens -> LARow] /\ \A y \in LATokens : y # t => la'[y] = la[y]
  <2>1. [la[t] EXCEPT !.valid = FALSE] \in LARow
    BY <1>1 DEF TableTypes, LARow
  <2> QED
    BY <1>1, <1>2, <2>1 DEF TableTypes
<1>4. TableTypes' /\ Broadcast \in topics' /\ Sweeping'
  BY <1>1, <1>2, <1>3 DEF TableTypes, LARow, Sweeping
<1>5. ASSUME NEW z \in Requests, z \notin S
      PROVE  Keeps(z)
  <2>1. req[z].pc = "created" => Want(z).token # t
    BY <1>5, HoldersIs DEF S
  <2>2. req[z].pc = "created" /\ Want(z).op = "registerLAToken" =>
          la'[Want(z).token] = la[Want(z).token]
    BY <1>1, <1>3, <2>1, TypeParts, WantTypes DEF Want, ReqState
  <2>3. now <= now'
    BY <1>1, <1>2, TypeParts, ConstantTypes
  <2> QED
    BY <1>2, <2>2, <2>3 DEF Keeps
<1>6. NewUsersSubscribed'
  BY <1>1, <1>2, WelcomeWaits
<1> QED
  BY <1>1, <1>2, <1>4, <1>5, <1>6, TypeParts, Undisturbed

LEMMA SweepTickKeeps ==
  ASSUME IInv, SweepTick
  PROVE  IInv'
<1>1. TypeOK /\ TableTypes /\ NewUsersSubscribed /\ Broadcast \in topics /\ Sweeping
  BY Assemble, TypeParts
<1>2. /\ sweep = [selected |-> {}, left |-> 0] /\ sweep' = [sweep EXCEPT !.left = SweepBatches]
      /\ UNCHANGED <<users, topics, owner, subs, laSubs, la, req, now, faults, excused>>
  BY DEF SweepTick, tables
<1>3. req' = Upset({})
  BY <1>1, <1>2, NobodyUpset
<1>4. /\ sweep'.selected = {}
      /\ sweep' \in [selected : SUBSET LATokens, left : 0..SweepBatches]
  BY <1>2, ConstantTypes
<1>5. \A z \in Requests : Keeps(z)
  BY <1>1, <1>2, <1>4, TypeParts, ConstantTypes DEF Keeps
<1>6. TableTypes' /\ Broadcast \in topics'
  BY <1>1, <1>2 DEF TableTypes, LARow
<1>7. Sweeping'
  BY <1>4, FS_EmptySet, ConstantTypes DEF Sweeping
<1>8. NewUsersSubscribed'
  BY <1>1, <1>2, <1>3, WelcomeWaits
<1> QED
  BY <1>1, <1>2, <1>3, <1>4, <1>5, <1>6, <1>7, <1>8, TypeParts, Undisturbed

\* A batch is bounded, and only tokens past their expiry are in it.
LEMMA OldestIs ==
  ASSUME TypeOK, NEW X \in Oldest(Sweepable)
  PROVE  /\ X \subseteq LATokens /\ \A t \in X : Passed(la[t].expires)
         /\ Cardinality(X) \in Nat /\ Cardinality(X) <= SweepBatch
<1>1. X \subseteq Sweepable /\ Sweepable \subseteq LATokens
  BY DEF Oldest, Sweepable
<1>2. IsFiniteSet(Sweepable) /\ IsFiniteSet(X)
  BY <1>1, ConstantTypes, FS_Subset
<1>3. Cardinality(Sweepable) \in Nat /\ Cardinality(X) \in Nat
  BY <1>2, FS_CardinalityType
<1>4. Cardinality(X) = IF Cardinality(Sweepable) < SweepBatch
                       THEN Cardinality(Sweepable) ELSE SweepBatch
  BY DEF Oldest
<1>5. Cardinality(X) <= SweepBatch
  BY <1>3, <1>4, ConstantTypes
<1>6. \A t \in X : Passed(la[t].expires)
  BY <1>1 DEF Sweepable
<1> QED
  BY <1>1, <1>3, <1>5, <1>6

LEMMA SweepSelectKeeps ==
  ASSUME IInv, SweepSelect
  PROVE  IInv'
<1>1. TypeOK /\ TableTypes /\ NewUsersSubscribed /\ Broadcast \in topics /\ Sweeping
  BY Assemble, TypeParts
<1>2. /\ sweep.left > 0 /\ sweep.selected = {}
      /\ UNCHANGED <<users, topics, owner, subs, laSubs, la, req, now, excused>>
  BY DEF SweepSelect, tables
<1>3. sweep \in [selected : SUBSET LATokens, left : 0..SweepBatches] /\ faults' \in 0..MaxFaults
  BY <1>1, TypeParts, FaultType DEF SweepSelect
<1>4. PICK X \in SUBSET LATokens :
        /\ sweep' = [selected |-> X, left |-> IF X = {} THEN 0 ELSE sweep.left]
        /\ \A t \in X : Passed(la[t].expires)
        /\ Cardinality(X) \in Nat /\ Cardinality(X) <= SweepBatch
  <2>1. CASE Fails("sweep") /\ sweep' = [sweep EXCEPT !.left = 0]
    <3>1. sweep' = [selected |-> {}, left |-> 0]
      BY <1>2, <1>3, <2>1
    <3> QED
      BY <3>1, FS_EmptySet, ConstantTypes
  <2>2. ASSUME NEW X \in Oldest(Sweepable),
               sweep' = IF X = {} THEN [sweep EXCEPT !.left = 0]
                                  ELSE [sweep EXCEPT !.selected = X]
        PROVE  \E Y \in SUBSET LATokens :
                 /\ sweep' = [selected |-> Y, left |-> IF Y = {} THEN 0 ELSE sweep.left]
                 /\ \A t \in Y : Passed(la[t].expires)
                 /\ Cardinality(Y) \in Nat /\ Cardinality(Y) <= SweepBatch
    <3>1. sweep' = [selected |-> X, left |-> IF X = {} THEN 0 ELSE sweep.left]
      BY <1>2, <1>3, <2>2
    <3> QED
      BY <1>1, <2>2, <3>1, OldestIs
  <2> QED
    BY <2>1, <2>2 DEF SweepSelect
<1>5. /\ sweep' \in [selected : SUBSET LATokens, left : 0..SweepBatches]
      /\ sweep'.selected = X
      /\ X # {} => sweep'.left > 0
  BY <1>2, <1>3, <1>4, ConstantTypes
<1>6. req' = Upset({})
  BY <1>1, <1>2, NobodyUpset
<1>7. \A z \in Requests : Keeps(z)
  <2>1. now <= now'
    BY <1>1, <1>2, TypeParts, ConstantTypes
  <2> QED
    BY <1>2, <1>4, <1>5, <2>1 DEF Keeps
<1>8. TableTypes' /\ Broadcast \in topics'
  BY <1>1, <1>2 DEF TableTypes, LARow
<1>9. Sweeping'
  BY <1>3, <1>4, <1>5, ConstantTypes DEF Sweeping
<1>10. NewUsersSubscribed'
  BY <1>1, <1>2, <1>6, WelcomeWaits
<1> QED
  BY <1>1, <1>2, <1>3, <1>5, <1>6, <1>7, <1>8, <1>9, <1>10, TypeParts, Undisturbed

LEMMA SweepUpdateKeeps ==
  ASSUME IInv, SweepUpdate
  PROVE  IInv'
<1>1. TypeOK /\ TableTypes /\ NewUsersSubscribed /\ Broadcast \in topics /\ Sweeping
  BY Assemble, TypeParts
<1>2. /\ sweep.selected # {}
      /\ la' = [t \in LATokens |-> [la[t] EXCEPT !.valid = @ /\ t \notin sweep.selected]]
      /\ sweep' = [selected |-> {},
                   left |-> IF Cardinality(sweep.selected) < SweepBatch
                            THEN 0 ELSE sweep.left - 1]
      /\ UNCHANGED <<users, topics, owner, subs, laSubs, req, now, faults, excused>>
  BY DEF SweepUpdate
<1>3. sweep \in [selected : SUBSET LATokens, left : 0..SweepBatches]
  BY <1>1, TypeParts
<1>4. Cardinality(sweep.selected) < SweepBatch \/ sweep.left > 0
  BY <1>1, <1>2, <1>3, ConstantTypes DEF Sweeping
<1>5. sweep' \in [selected : SUBSET LATokens, left : 0..SweepBatches] /\ sweep'.selected = {}
  BY <1>2, <1>3, <1>4, ConstantTypes
<1>6. ASSUME NEW t \in LATokens
      PROVE  /\ la'[t] \in LARow
             /\ la'[t].owner = la[t].owner /\ la'[t].expires = la[t].expires
             /\ la[t].valid => la'[t].valid \/ t \in sweep.selected
  <2> DEFINE row == [la[t] EXCEPT !.valid = @ /\ t \notin sweep.selected]
  <2>1. la[t] \in LARow /\ la'[t] = row
    BY <1>1, <1>2 DEF TableTypes
  <2>2. row \in LARow /\ row.owner = la[t].owner /\ row.expires = la[t].expires
    BY <2>1 DEF LARow
  <2>3. la[t].valid => row.valid \/ t \in sweep.selected
    BY <2>1 DEF LARow
  <2> QED
    BY <2>1, <2>2, <2>3
<1>7. la' \in [LATokens -> LARow]
  <2>1. la' = [t \in LATokens |-> la'[t]]
    BY <1>2
  <2> QED
    BY <1>6, <2>1
<1>8. req' = Upset({})
  BY <1>1, <1>2, NobodyUpset
<1>9. ASSUME NEW z \in Requests
      PROVE  Keeps(z)
  <2>1. Want(z) \in Wanted /\ now <= now'
    BY <1>1, <1>2, TypeParts, ConstantTypes DEF Want, ReqState
  <2>2. Want(z).op = "registerLAToken" => Want(z).token \in LATokens
    BY <2>1, WantTypes
  <2> QED
    BY <1>2, <1>5, <1>6, <2>1, <2>2 DEF Keeps
<1>10. TableTypes' /\ Broadcast \in topics'
  BY <1>1, <1>2, <1>7 DEF TableTypes, LARow
<1>11. Sweeping'
  BY <1>5, FS_EmptySet, ConstantTypes DEF Sweeping
<1>12. NewUsersSubscribed'
  BY <1>1, <1>2, <1>8, WelcomeWaits
<1> QED
  BY <1>1, <1>2, <1>5, <1>8, <1>9, <1>10, <1>11, <1>12, TypeParts, Undisturbed

\* Time passes, or nothing happens.
LEMMA ClockKeeps ==
  ASSUME IInv, Clock \/ UNCHANGED vars
  PROVE  IInv'
<1>1. TypeOK /\ TableTypes /\ NewUsersSubscribed /\ Broadcast \in topics /\ Sweeping
  BY Assemble, TypeParts
<1>2. UNCHANGED <<users, topics, owner, subs, laSubs, la, req, sweep, faults, excused>>
  BY DEF Clock, vars, tables, others
<1>3. now' \in 0..MaxTime /\ now <= now'
  BY <1>1, TypeParts, ConstantTypes DEF Clock, vars, others
<1>4. req' = Upset({})
  BY <1>1, <1>2, NobodyUpset
<1>5. \A z \in Requests : Keeps(z)
  BY <1>2, <1>3 DEF Keeps
<1>6. TableTypes' /\ Broadcast \in topics' /\ Sweeping'
  BY <1>1, <1>2 DEF TableTypes, LARow, Sweeping
<1>7. NewUsersSubscribed'
  BY <1>1, <1>2, <1>4, WelcomeWaits
<1> QED
  BY <1>1, <1>2, <1>3, <1>4, <1>5, <1>6, <1>7, TypeParts, Undisturbed

-----------------------------------------------------------------------------
LEMMA InvInit ==
  Init => IInv
<1> SUFFICES ASSUME Init PROVE IInv
  OBVIOUS
<1>1. ASSUME NEW r \in Requests
      PROVE  Idle \in ReqState /\ Idle.pc = "idle"
  <2>1. PICK w : w \in Menu[r]
    BY ConstantTypes
  <2>2. w \in UNION {Menu[z] : z \in Requests}
    BY <2>1
  <2>3. \A v \in UNION {Menu[z] : z \in Requests} : v \in Wanted
    BY ConstantTypes
  <2>4. (CHOOSE v \in UNION {Menu[z] : z \in Requests} : TRUE) \in Wanted
    BY <2>2, <2>3
  <2> QED
    BY <2>4 DEF Idle, ReqState, PC
<1> USE DEF Init
<1>2. req \in [Requests -> ReqState] /\ \A r \in Requests : req[r].pc = "idle"
  BY <1>1
<1>3. TypeOK
  <2>1. NoLA \in LARow
    BY DEF NoLA, LARow
  <2>2. TableTypes
    BY <2>1, ConstantTypes DEF TableTypes
  <2> QED
    BY <1>2, <2>2, TypeParts, ConstantTypes
<1>4. Sweeping
  BY FS_EmptySet, ConstantTypes DEF Sweeping
<1>5. \A r \in Requests : InOrder(r)
  BY <1>2 DEF InOrder, OpAt, Relies
<1>6. NewUsersSubscribed /\ Broadcast \in topics
  BY DEF NewUsersSubscribed
<1> QED
  BY <1>3, <1>4, <1>5, <1>6, Assemble

LEMMA InvStep ==
  IInv /\ [Next]_vars => IInv'
<1> SUFFICES ASSUME IInv, [Next]_vars PROVE IInv'
  OBVIOUS
<1>1. ASSUME NEW r \in Requests, RequestStep(r)
      PROVE  IInv'
  BY <1>1, EnsureUserKeeps, CreateUserKeeps, SubscribeToBroadcastKeeps, CreateTokenKeeps,
     RequireKeeps, SubscribeKeeps, JoinLAKeeps, UpsertKeeps DEF RequestStep
<1>2. ASSUME NEW r \in Requests, NEW w \in Menu[r], Arrive(r, w)
      PROVE  IInv'
  BY <1>2, ArriveKeeps
<1>3. ASSUME NEW u \in Users, DeleteUser(u) \/ \E x \in Topics : UnsubscribeUserFromTopic(u, x)
      PROVE  IInv'
  BY <1>3, DeleteUserKeeps, UnsubscribeKeeps
<1>4. ASSUME NEW x \in Topics, CreateTopic(x) \/ DeleteTopic(x)
      PROVE  IInv'
  BY <1>4, CreateTopicKeeps, DeleteTopicKeeps
<1>5. ASSUME NEW d \in Devices, DeleteToken(d)
      PROVE  IInv'
  BY <1>5, DeleteTokenKeeps
<1>6. ASSUME NEW t \in LATokens, InvalidateLiveActivityToken(t)
      PROVE  IInv'
  BY <1>6, InvalidateKeeps
<1>7. CASE SweepStep
  BY <1>7, SweepTickKeeps, SweepSelectKeeps, SweepUpdateKeeps DEF SweepStep
<1>8. CASE Clock \/ UNCHANGED vars
  BY <1>8, ClockKeeps
<1> QED
  BY <1>1, <1>2, <1>3, <1>4, <1>5, <1>6, <1>7, <1>8 DEF Next

\* The inductive invariant holds in every reachable state: registrations of
\* any number of requests, interleaved with deletions and the sweep
\* (service.go:42-231, live_activity.go:59-154, live_activity_postgres.go:964-990).
THEOREM Invariant ==
  Spec => []IInv
BY InvInit, InvStep, PTL DEF Spec

\* The types, and the foreign keys: no row refers to a user or topic that is gone.
THEOREM TypeCorrect ==
  Spec => []TypeOK
<1>1. IInv => TypeOK
  BY DEF IInv
<1> QED
  BY <1>1, Invariant, PTL

\* Every user is subscribed to the broadcast topic or about to be, unless it
\* left or the statement failed (service.go:42-72, 86-96, 114-134).
THEOREM UsersWelcomed ==
  Spec => []NewUsersSubscribed
<1>1. IInv => NewUsersSubscribed
  BY DEF IInv
<1> QED
  BY <1>1, Invariant, PTL

\* What a request was told to be created is there until another takes it back
\* (service.go:104-150, 212-231; live_activity.go:59-154).
THEOREM CreatedStays ==
  Spec => []CreatedHolds
<1>1. IInv => CreatedHolds
  BY DEF IInv
<1> QED
  BY <1>1, Invariant, PTL
=============================================================================
