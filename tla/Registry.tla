------------------------------ MODULE Registry ------------------------------
(***************************************************************************)
(* Users, device tokens, live activity tokens, topics and subscriptions of *)
(* pushboy, and the sweep that invalidates expired update tokens.          *)
(*                                                                         *)
(* A registration is a chain of statements, each in a transaction of its   *)
(* own: look for the user, create it, subscribe it to the broadcast topic, *)
(* insert the token.  Other requests run between any two of them.          *)
(***************************************************************************)
EXTENDS Naturals, FiniteSets

CONSTANTS
  Users, Topics,
  Broadcast,    \* the broadcast topic (BROADCAST_TOPIC_NAME)
  Devices,      \* device tokens: values, as the providers give them
  LATokens,     \* live activity tokens: platform, type and value
  LAKind,       \* "start" or "update" (APNs), or "fcm", of each of them
  Requests,
  Menu,         \* Menu[r]: what request r may ask for
  Deletable,    \* the users and topics that may be deleted
  JobLifetime,  \* defaultLAJobLifetime, eight hours
  SweepBatch, SweepBatches,  \* limits of a sweep
  Failing,      \* the calls that may fail without effect
  MaxFaults,    \* bound: how many calls fail
  MaxTime,      \* bound of the clock
  Nobody, Never, NoTopic

Ops == {"createUser", "registerToken", "registerLAToken", "subscribe", "joinLA"}
Wanted ==
  {w \in [op : Ops, user : Users, topic : Topics \cup {NoTopic},
          token : Devices \cup LATokens \cup {Nobody}, lifetime : Nat \cup {Never}] :
     /\ w.op = "registerToken" => w.token \in Devices
     /\ w.op = "registerLAToken" => w.token \in LATokens}

ASSUME RegistryAssumption ==
  /\ IsFiniteSet(Users) /\ IsFiniteSet(LATokens) /\ IsFiniteSet(Requests)
  /\ Broadcast \in Topics /\ Broadcast \notin Deletable
  /\ Nobody \notin Users \cup Devices \cup LATokens
  /\ NoTopic \notin Topics /\ Never \notin Nat
  /\ LAKind \in [LATokens -> {"start", "update", "fcm"}]
  /\ \A r \in Requests : Menu[r] \subseteq Wanted /\ Menu[r] # {}
  /\ {JobLifetime, SweepBatch, SweepBatches} \subseteq Nat \ {0}
  /\ {MaxFaults, MaxTime} \subseteq Nat

VARIABLES
  users, topics,  \* ids in these tables
  owner,          \* tokens: the user of each device token, or Nobody
  subs, laSubs,   \* the two subscription tables: pairs of user and topic
  la,             \* live_activity_tokens: owner, expires_at, invalidated_at IS NULL
  req,            \* local variables of the handlers
  sweep,          \* the sweep under way: tokens selected, batches left
  now, faults,
  excused        \* history: users without broadcast who unsubscribed, or whose subscription failed

tables == <<users, topics, owner, subs, laSubs, la>>
others == <<sweep, now, faults, excused>>
vars == <<tables, req, others>>

NoLA == [owner |-> Nobody, expires |-> Never, valid |-> FALSE]
Idle == [want |-> CHOOSE w \in UNION {Menu[r] : r \in Requests} : TRUE, pc |-> "idle",
         expires |-> Never, upset |-> FALSE]

\* main creates the broadcast topic before it serves requests.
Init ==
  /\ users = {} /\ topics = {Broadcast}
  /\ owner = [d \in Devices |-> Nobody] /\ subs = {} /\ laSubs = {}
  /\ la = [t \in LATokens |-> NoLA]
  /\ req = [r \in Requests |-> Idle]
  /\ sweep = [selected |-> {}, left |-> 0]
  /\ now = 0 /\ faults = 0 /\ excused = {}

-----------------------------------------------------------------------------
Want(r) == req[r].want
Fails(call) == call \in Failing /\ faults < MaxFaults /\ faults' = faults + 1
Goto(r, pc) == req' = [req EXCEPT ![r].pc = pc]

\* A call that fails ends the request with an error.
Reject(r, call) ==
  /\ Fails(call) /\ Goto(r, "error")
  /\ UNCHANGED <<tables, sweep, now, excused>>

\* The request goes on, and the tables named by the caller have changed.
Continue(r, pc) == Goto(r, pc) /\ UNCHANGED others
Proceed(r, pc) == Continue(r, pc) /\ UNCHANGED tables

\* When a request has been given its user, its topic, its token; the requests
\* that have been given x; and what these hold is taken back by another one.
HeldAt == [user |-> {"welcome", "upsert", "created"}, topic |-> {"upsert", "created"},
           token |-> {"created"}]
Holders(field, x) == {r \in Requests : req[r].pc \in HeldAt[field] /\ Want(r)[field] = x}
Upset(S) == [r \in Requests |->
  IF r \in S THEN [req[r] EXCEPT !.upset = TRUE] ELSE req[r]]

-----------------------------------------------------------------------------
(***************************************************************************)
(* Arrival.  The expiry of an APNs update token is cut to the lifetime of  *)
(* a live activity job, counted from the arrival.                          *)
(***************************************************************************)
CappedIfGiven(w) ==
  IF w.lifetime = Never THEN Never
  ELSE now + (IF LAKind[w.token] = "update" /\ w.lifetime > JobLifetime
              THEN JobLifetime ELSE w.lifetime)
Capped(w) ==
  IF LAKind[w.token] = "update" /\ (w.lifetime = Never \/ w.lifetime > JobLifetime)
  THEN now + JobLifetime
  ELSE IF w.lifetime = Never THEN Never ELSE now + w.lifetime

FirstStep(op) ==
  CASE op = "createUser" -> "create"
    [] op \in {"registerToken", "registerLAToken"} -> "ensureUser"
    [] OTHER -> "requireUser"

Arrive(r, w) ==
  /\ req[r].pc = "idle" /\ w \in Menu[r] /\ now + JobLifetime <= MaxTime
  /\ req' = [req EXCEPT ![r].want = w, ![r].pc = FirstStep(w.op),
               ![r].expires = IF w.op = "registerLAToken" THEN Capped(w) ELSE Never]
  /\ UNCHANGED <<tables, others>>

(***************************************************************************)
(* Steps of the handlers, each one statement.                              *)
(***************************************************************************)
AfterUser(r) ==
  CASE Want(r).op = "createUser" -> "created"
    [] Want(r).op = "registerToken" -> "insertToken"
    [] OTHER -> IF Want(r).topic = NoTopic THEN "upsert" ELSE "requireTopic"

EnsureUser(r) ==
  /\ req[r].pc = "ensureUser"
  /\ \/ Reject(r, "getUser")
     \/ Proceed(r, IF Want(r).user \in users THEN AfterUser(r) ELSE "create")

\* A duplicate key is answered 409 to who creates a user or registers a token,
\* as if the token were the duplicate, and 400 to a live activity token.
CreateUserUnwelcomed(r) ==
  /\ req[r].pc = "create"
  /\ \/ Reject(r, "createUser")
     \/ /\ Want(r).user \in users
        /\ Proceed(r, IF Want(r).op = "registerLAToken" THEN "error" ELSE "conflict")
     \/ /\ Want(r).user \notin users
        /\ users' = users \cup {Want(r).user}
        /\ Continue(r, IF Want(r).op = "registerLAToken" THEN AfterUser(r) ELSE "welcome")
        /\ UNCHANGED <<topics, owner, subs, laSubs, la>>
CreateUser(r) ==
  /\ req[r].pc = "create"
  /\ \/ Reject(r, "createUser")
     \/ /\ Want(r).user \in users
        /\ Proceed(r, IF Want(r).op = "registerLAToken" THEN "error" ELSE "conflict")
     \/ /\ Want(r).user \notin users
        /\ users' = users \cup {Want(r).user}
        /\ Continue(r, "welcome")
        /\ UNCHANGED <<topics, owner, subs, laSubs, la>>

\* An error is only logged: of the call, or of the foreign key when the user
\* has been deleted meanwhile.
SubscribeToBroadcast(r) ==
  /\ req[r].pc = "welcome"
  /\ Goto(r, AfterUser(r))
  /\ \/ /\ Fails("welcome") /\ UNCHANGED subs
        /\ excused' = excused \cup ({Want(r).user} \cap users)
     \/ /\ subs' = IF Want(r).user \in users
                   THEN subs \cup {<<Want(r).user, Broadcast>>} ELSE subs
        /\ UNCHANGED <<faults, excused>>
  /\ UNCHANGED <<users, topics, owner, laSubs, la, sweep, now>>

CreateToken(r) ==
  LET w == Want(r)
  IN  /\ req[r].pc = "insertToken"
      /\ \/ Reject(r, "createToken")
         \/ owner[w.token] # Nobody /\ Proceed(r, "conflict")
         \/ owner[w.token] = Nobody /\ w.user \notin users /\ Proceed(r, "error")
         \/ /\ owner[w.token] = Nobody /\ w.user \in users
            /\ owner' = [owner EXCEPT ![w.token] = w.user]
            /\ Continue(r, "created")
            /\ UNCHANGED <<users, topics, subs, laSubs, la>>

RequireUser(r) ==
  /\ req[r].pc = "requireUser"
  /\ \/ Reject(r, "getUser")
     \/ Proceed(r, IF Want(r).user \in users THEN "requireTopic" ELSE "notFound")

RequireTopic(r) ==
  /\ req[r].pc = "requireTopic"
  /\ \/ Reject(r, "getTopic")
     \/ Proceed(r, IF Want(r).topic \notin topics THEN "notFound"
                   ELSE IF Want(r).op = "subscribe" THEN "subscribe" ELSE "joinLA")

SubscribeUserToTopic(r) ==
  LET pair == <<Want(r).user, Want(r).topic>>
  IN  /\ req[r].pc = "subscribe"
      /\ \/ Reject(r, "subscribe")
         \/ pair \in subs /\ Proceed(r, "conflict")
         \/ pair \notin subs /\ pair \notin users \X topics /\ Proceed(r, "error")
         \/ /\ pair \in (users \X topics) \ subs
            /\ subs' = subs \cup {pair}
            /\ Continue(r, "created")
            /\ UNCHANGED <<users, topics, owner, laSubs, la>>

\* Repeating a live activity subscription is no error.
SubscribeUserToLATopic(r) ==
  LET pair == <<Want(r).user, Want(r).topic>>
  IN  /\ req[r].pc = "joinLA"
      /\ \/ Reject(r, "joinLA")
         \/ pair \notin users \X topics /\ Proceed(r, "error")
         \/ /\ pair \in users \X topics
            /\ laSubs' = laSubs \cup {pair}
            /\ Continue(r, IF Want(r).op = "joinLA" THEN "created" ELSE "upsert")
            /\ UNCHANGED <<users, topics, owner, subs, la>>

\* A live activity token that exists moves to the user, and is valid again.
StoredKeepsInvalidation(r) ==
  [owner |-> Want(r).user, expires |-> req[r].expires,
   valid |-> la[Want(r).token].owner = Nobody \/ la[Want(r).token].valid]
Stored(r) == [owner |-> Want(r).user, expires |-> req[r].expires, valid |-> TRUE]

UpsertLiveActivityToken(r) ==
  /\ req[r].pc = "upsert"
  /\ \/ Reject(r, "upsert")
     \/ Want(r).user \notin users /\ Proceed(r, "error")
     \/ /\ Want(r).user \in users
        /\ la' = [la EXCEPT ![Want(r).token] = Stored(r)]
        /\ req' = [Upset(Holders("token", Want(r).token)) EXCEPT
                     ![r] = [req[r] EXCEPT !.pc = "created",
                               !.upset = @ \/ Want(r).token \in sweep.selected]]
        /\ UNCHANGED <<users, topics, owner, subs, laSubs, others>>

-----------------------------------------------------------------------------
(***************************************************************************)
(* Requests of one statement.                                              *)
(***************************************************************************)
CreateTopic(x) ==
  /\ x \notin topics /\ topics' = topics \cup {x}
  /\ UNCHANGED <<users, owner, subs, laSubs, la, req, others>>

\* Foreign keys delete what refers to the row; a sweep that has selected one
\* of these rows finds it gone and stops.
WithoutKeepingJoins(rows, u) == rows
Without(rows, u) == {p \in rows : p[1] # u}
DeleteUser(u) ==
  /\ u \in users \cap Deletable
  /\ users' = users \ {u}
  /\ owner' = [d \in Devices |-> IF owner[d] = u THEN Nobody ELSE owner[d]]
  /\ la' = [t \in LATokens |-> IF la[t].owner = u THEN NoLA ELSE la[t]]
  /\ subs' = Without(subs, u) /\ laSubs' = Without(laSubs, u)
  /\ excused' = excused \ {u}
  /\ req' = Upset(Holders("user", u))
  /\ LET gone == {t \in sweep.selected : la[t].owner = u}
     IN  sweep' = IF gone = {} THEN sweep
                  ELSE [selected |-> sweep.selected \ gone, left |-> 0]
  /\ UNCHANGED <<topics, now, faults>>

DeleteTopic(x) ==
  /\ x \in topics \cap Deletable
  /\ topics' = topics \ {x}
  /\ subs' = {p \in subs : p[2] # x} /\ laSubs' = {p \in laSubs : p[2] # x}
  /\ req' = Upset(Holders("topic", x))
  /\ UNCHANGED <<users, owner, la, others>>

DeleteToken(d) ==
  /\ owner[d] # Nobody
  /\ owner' = [owner EXCEPT ![d] = Nobody]
  /\ req' = Upset(Holders("token", d))
  /\ UNCHANGED <<users, topics, subs, laSubs, la, others>>

UnsubscribeUserFromTopic(u, x) ==
  /\ <<u, x>> \in subs
  /\ subs' = subs \ {<<u, x>>}
  /\ excused' = IF x = Broadcast THEN excused \cup {u} ELSE excused
  /\ req' = Upset({r \in Holders("user", u) \cap Holders("topic", x) : Want(r).op = "subscribe"})
  /\ UNCHANGED <<users, topics, owner, laSubs, la, sweep, now, faults>>

InvalidateLiveActivityToken(t) ==
  /\ la[t].valid
  /\ la' = [la EXCEPT ![t].valid = FALSE]
  /\ req' = Upset(Holders("token", t))
  /\ UNCHANGED <<users, topics, owner, subs, laSubs, others>>

-----------------------------------------------------------------------------
(***************************************************************************)
(* The sweep.  One statement selects and updates, but it waits for a row   *)
(* that a registration has locked, and then updates it without looking at  *)
(* the expiry again: hence two steps.                                      *)
(***************************************************************************)
Passed(e) == e # Never /\ e <= now
SweepableAnyAge == {t \in LATokens : LAKind[t] = "update" /\ la[t].valid}
Sweepable == {t \in LATokens : LAKind[t] = "update" /\ la[t].valid /\ Passed(la[t].expires)}
Oldest(S) ==
  {X \in SUBSET S :
     /\ Cardinality(X) = IF Cardinality(S) < SweepBatch THEN Cardinality(S) ELSE SweepBatch
     /\ \A t \in X, u \in S \ X : la[t].expires <= la[u].expires}

SweepTick ==
  /\ sweep = [selected |-> {}, left |-> 0] /\ Sweepable # {}
  /\ sweep' = [sweep EXCEPT !.left = SweepBatches]
  /\ UNCHANGED <<tables, req, now, faults, excused>>

SweepSelect ==
  /\ sweep.left > 0 /\ sweep.selected = {}
  /\ \/ Fails("sweep") /\ sweep' = [sweep EXCEPT !.left = 0]
     \/ /\ UNCHANGED faults
        /\ \E X \in Oldest(Sweepable) :
             sweep' = IF X = {} THEN [sweep EXCEPT !.left = 0]
                                ELSE [sweep EXCEPT !.selected = X]
  /\ UNCHANGED <<tables, req, now, excused>>

\* A batch that is not full is the last one.
SweepUpdate ==
  /\ sweep.selected # {}
  /\ la' = [t \in LATokens |-> [la[t] EXCEPT !.valid = @ /\ t \notin sweep.selected]]
  /\ sweep' = [selected |-> {},
               left |-> IF Cardinality(sweep.selected) < SweepBatch THEN 0 ELSE sweep.left - 1]
  /\ UNCHANGED <<users, topics, owner, subs, laSubs, req, now, faults, excused>>

Clock ==
  /\ now < MaxTime /\ now' = now + 1
  /\ UNCHANGED <<tables, req, sweep, faults, excused>>

-----------------------------------------------------------------------------
RequestStep(r) ==
  \/ EnsureUser(r) \/ CreateUser(r) \/ SubscribeToBroadcast(r) \/ CreateToken(r)
  \/ RequireUser(r) \/ RequireTopic(r) \/ SubscribeUserToTopic(r)
  \/ SubscribeUserToLATopic(r) \/ UpsertLiveActivityToken(r)
SweepStep == SweepTick \/ SweepSelect \/ SweepUpdate

Next ==
  \/ \E r \in Requests : RequestStep(r) \/ \E w \in Menu[r] : Arrive(r, w)
  \/ \E u \in Users : DeleteUser(u) \/ \E x \in Topics : UnsubscribeUserFromTopic(u, x)
  \/ \E x \in Topics : CreateTopic(x) \/ DeleteTopic(x)
  \/ \E d \in Devices : DeleteToken(d)
  \/ \E t \in LATokens : InvalidateLiveActivityToken(t)
  \/ SweepStep \/ Clock

Spec == Init /\ [][Next]_vars

\* Handlers are scheduled and the database answers, the scheduler's ticker
\* fires, and time passes.
FairSpec ==
  /\ Spec
  /\ \A r \in Requests : WF_vars(RequestStep(r))
  /\ WF_vars(SweepStep) /\ WF_vars(Clock)

-----------------------------------------------------------------------------
(***************************************************************************)
(* Properties.                                                             *)
(***************************************************************************)
Answers == {"created", "conflict", "notFound", "error"}
PC == Answers \cup {"idle", "ensureUser", "create", "welcome", "insertToken", "requireUser",
                    "requireTopic", "subscribe", "joinLA", "upsert"}

\* Type invariant, with the foreign keys: no row refers to a user or a topic
\* that is gone.
TypeOK ==
  /\ users \subseteq Users /\ topics \subseteq Topics
  /\ owner \in [Devices -> users \cup {Nobody}]
  /\ subs \subseteq users \X topics /\ laSubs \subseteq users \X topics
  /\ la \in [LATokens -> [owner : users \cup {Nobody}, expires : Nat \cup {Never},
                          valid : BOOLEAN]]
  /\ req \in [Requests -> [want : Wanted, pc : PC, expires : Nat \cup {Never},
                           upset : BOOLEAN]]
  /\ sweep \in [selected : SUBSET LATokens, left : 0..SweepBatches]
  /\ now \in 0..MaxTime /\ faults \in 0..MaxFaults /\ excused \subseteq users

\* Every user is subscribed to the broadcast topic, however it was created and
\* by how many requests at once, unless it unsubscribed or that one statement
\* failed: only the request that inserted the row subscribes it, and nobody
\* makes up for it later
\* (service.go:42-72, 86-96, 114-134).
NewUsersSubscribed ==
  \A u \in users \ excused :
    \/ <<u, Broadcast>> \in subs
    \/ \E r \in Requests : Want(r).user = u /\ req[r].pc = "welcome"

\* What a request was told to be created is there until some other request takes
\* it back after it was given: a deletion, or a later registration of the same live
\* activity token.  The statements of other handlers, those of racing
\* registrations that came first, and a sweep that selects later do not undo it
\* (service.go:104-150, 212-231; live_activity.go:59-154).
Granted(r) ==
  LET w == Want(r)
      joined == <<w.user, w.topic>> \in laSubs
  IN  CASE w.op = "createUser" -> w.user \in users
        [] w.op = "registerToken" -> owner[w.token] = w.user
        [] w.op = "subscribe" -> <<w.user, w.topic>> \in subs
        [] w.op = "joinLA" -> joined
        [] w.op = "registerLAToken" ->
             /\ la[w.token].owner = w.user
             /\ la[w.token].valid \/ Passed(req[r].expires)
             /\ w.topic # NoTopic => joined
CreatedHolds ==
  \A r \in Requests : req[r].pc = "created" /\ ~req[r].upset => Granted(r)

\* An APNs update token does not stay valid for ever, whatever expiry the
\* client asked for and however many tokens expire at once
\* (live_activity.go:77-83, scheduler.go:93-110, live_activity_postgres.go:964-990).
UpdateTokensEnd ==
  \A t \in LATokens :
    LAKind[t] = "update" /\ la[t].valid ~> ~la[t].valid
=============================================================================
