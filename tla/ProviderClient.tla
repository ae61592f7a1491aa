--------------------------- MODULE ProviderClient ---------------------------
(***************************************************************************)
(* The client of a push provider, APNs or FCM, as the senders of a lane    *)
(* share it: a semaphore that caps the requests in flight, retries with    *)
(* backoff and, for APNs, a signed token (JWT) that is cached and renewed. *)
(*                                                                         *)
(* How long a backoff lasts is left out; the HTTP client gives up a        *)
(* request after ten seconds, so each is answered or fails.  What FCM      *)
(* needs as authorization the oauth2 library keeps.                        *)
(***************************************************************************)
EXTENDS Naturals, Sequences, FiniteSets

CONSTANTS
  Senders,
  MaxConcurrent,  \* capacity of the semaphore
  MaxRetries,     \* MAX_RETRY_NOTIFICATION
  Validity,       \* jwtValidityPeriod, one hour
  Buffer,         \* jwtRefreshBuffer, five minutes
  MaxSends,       \* bound: how many messages each sender has
  MaxTime         \* bound of the clock

ASSUME ProviderClientAssumption ==
  /\ IsFiniteSet(Senders)
  /\ {MaxConcurrent, Validity} \subseteq Nat \ {0}
  /\ {MaxRetries, Buffer, MaxSends, MaxTime} \subseteq Nat /\ Buffer < Validity

VARIABLES
  provider,  \* "apns" or "fcm"; it does not change
  keyValid,  \* whether the signing key of APNs parses; it does not change
  cached,    \* expiry of the cached JWT, 0 when there is none
  slots,     \* elements of the semaphore's channel
  call,      \* the Send of each sender, and what the provider did with it
  canceled,  \* whether the context of the senders has ended
  now,
  issued     \* history: when each JWT was signed

vars == <<provider, keyValid, cached, slots, call, canceled, now, issued>>
fixed == <<provider, keyValid>>

Idle == [pc |-> "idle", attempt |-> 0, jwt |-> 0, begun |-> 0,
         accepted |-> 0, lost |-> 0, result |-> "none", sends |-> 0]

Init ==
  /\ provider \in {"apns", "fcm"} /\ keyValid \in BOOLEAN
  /\ cached = 0 /\ slots = 0
  /\ call = [s \in Senders |-> Idle]
  /\ canceled = FALSE /\ now = 1 /\ issued = <<>>

-----------------------------------------------------------------------------
Set(s, changed) == call' = [call EXCEPT ![s] = changed]
Goto(s, pc) == call' = [call EXCEPT ![s].pc = pc]
End(s, result) == call' = [call EXCEPT ![s].pc = "done", ![s].result = result]

Begin(s) ==
  /\ call[s].pc \in {"idle", "done"} /\ call[s].sends < MaxSends /\ ~canceled
  /\ Set(s, [Idle EXCEPT !.pc = IF provider = "apns" THEN "readJWT" ELSE "acquire",
                         !.begun = now, !.sends = call[s].sends + 1])
  /\ UNCHANGED <<fixed, cached, slots, canceled, now, issued>>

(***************************************************************************)
(* getJWT: a look under the read lock, and a second one under the write    *)
(* lock, which covers the renewal.                                         *)
(***************************************************************************)
FreshWithoutBuffer == now < cached
Fresh == now + Buffer < cached
Carry(s, jwt) == [call[s] EXCEPT !.pc = "acquire", !.jwt = jwt]

ReadJWT(s) ==
  /\ call[s].pc = "readJWT"
  /\ Set(s, IF Fresh THEN Carry(s, cached) ELSE [call[s] EXCEPT !.pc = "renewJWT"])
  /\ UNCHANGED <<fixed, cached, slots, canceled, now, issued>>

RenewJWTUnchecked(s) ==
  /\ call[s].pc = "renewJWT"
  /\ \/ /\ keyValid /\ cached' = now + Validity /\ issued' = Append(issued, now)
        /\ Set(s, Carry(s, now + Validity))
     \/ ~keyValid /\ End(s, "error") /\ UNCHANGED <<cached, issued>>
  /\ UNCHANGED <<fixed, slots, canceled, now>>
RenewJWT(s) ==
  /\ call[s].pc = "renewJWT"
  /\ \/ Fresh /\ Set(s, Carry(s, cached)) /\ UNCHANGED <<cached, issued>>
     \/ /\ ~Fresh /\ keyValid
        /\ cached' = now + Validity /\ issued' = Append(issued, now)
        /\ Set(s, Carry(s, now + Validity))
     \/ ~Fresh /\ ~keyValid /\ End(s, "error") /\ UNCHANGED <<cached, issued>>
  /\ UNCHANGED <<fixed, slots, canceled, now>>

(***************************************************************************)
(* An attempt: a slot, the request, its answer.  The provider may have     *)
(* accepted a message although the connection breaks before it says so.    *)
(* An APNs request is refused when its JWT has expired.                    *)
(***************************************************************************)
Acquire(s) ==
  /\ call[s].pc = "acquire"
  /\ \/ slots < MaxConcurrent /\ slots' = slots + 1 /\ Goto(s, "inFlight")
     \/ canceled /\ End(s, "canceled") /\ UNCHANGED slots
  /\ UNCHANGED <<fixed, cached, canceled, now, issued>>

\* Release happens before the answer is looked at, whatever it is.
ReleasedOnAnswer(answer) == IF answer = "dropped" THEN slots ELSE slots - 1
Released(answer) == slots - 1

RetriedStatus == {"throttled"} \cup IF provider = "fcm" THEN {"unavailable"} ELSE {}
Retryable(answer) == answer \in RetriedStatus \cup {"dropped"}

\* What a message that is not tried again is reported as.
VerdictOfThrottled(s, answer) ==
  IF answer \in {"ok", "throttled"} THEN "ok" ELSE "error"
Verdict(s, answer) == IF answer = "ok" THEN "ok" ELSE "error"

AttemptsLeftInclusive(s) == call[s].attempt <= MaxRetries
AttemptsLeft(s) == call[s].attempt < MaxRetries

Answers == {"ok", "throttled", "unavailable", "refused", "dropped", "broken"}
Answer(s, answer) ==
  /\ call[s].pc = "inFlight"
  /\ answer = "ok" /\ provider = "apns" => now < call[s].jwt
  /\ slots' = Released(answer)
  /\ \E reached \in IF answer \in {"dropped", "broken"} THEN BOOLEAN ELSE {answer = "ok"} :
       LET seen == [call[s] EXCEPT !.accepted = IF reached THEN @ + 1 ELSE @,
                                   !.lost = IF reached /\ answer # "ok" THEN @ + 1 ELSE @]
       IN  Set(s, IF Retryable(answer) /\ AttemptsLeft(s)
                  THEN [seen EXCEPT !.pc = "backoff"]
                  ELSE [seen EXCEPT !.pc = "done", !.result = Verdict(s, answer)])
  /\ UNCHANGED <<fixed, cached, canceled, now, issued>>

\* The timer and the end of the context, in a select.
Backoff(s) ==
  /\ call[s].pc = "backoff"
  /\ \/ Set(s, [call[s] EXCEPT !.pc = "acquire", !.attempt = @ + 1])
     \/ canceled /\ End(s, "canceled")
  /\ UNCHANGED <<fixed, cached, slots, canceled, now, issued>>

Cancel ==
  /\ ~canceled /\ canceled' = TRUE
  /\ UNCHANGED <<fixed, cached, slots, call, now, issued>>

Clock ==
  /\ now < MaxTime /\ now' = now + 1
  /\ UNCHANGED <<fixed, cached, slots, call, canceled, issued>>

-----------------------------------------------------------------------------
Step(s) ==
  \/ ReadJWT(s) \/ RenewJWT(s) \/ Backoff(s)
  \/ \E answer \in Answers : Answer(s, answer)

Next == (\E s \in Senders : Begin(s) \/ Step(s) \/ Acquire(s)) \/ Cancel \/ Clock
Spec == Init /\ [][Next]_vars

\* Senders are scheduled, every request is answered or times out, backoffs end,
\* and goroutines that wait for a channel get it in the order they came.
FairSpec == Spec /\ \A s \in Senders : WF_vars(Step(s)) /\ SF_vars(Acquire(s))

-----------------------------------------------------------------------------
(***************************************************************************)
(* Properties.                                                             *)
(***************************************************************************)
InFlight == {s \in Senders : call[s].pc = "inFlight"}

\* Type invariant.  The slots taken are those of the requests in flight, and no
\* message is tried more than MaxRetries + 1 times.
TypeOK ==
  /\ provider \in {"apns", "fcm"} /\ keyValid \in BOOLEAN /\ canceled \in BOOLEAN
  /\ {cached, now} \subseteq Nat /\ issued \in Seq(Nat)
  /\ slots = Cardinality(InFlight) /\ slots <= MaxConcurrent
  /\ call \in [Senders -> [
       pc : {"idle", "readJWT", "renewJWT", "acquire", "inFlight", "backoff", "done"},
       attempt : 0..MaxRetries, jwt : Nat, begun : Nat, accepted : Nat, lost : Nat,
       result : {"none", "ok", "error", "canceled"}, sends : 0..MaxSends]]

\* However many senders find the JWT stale at once, it is signed once: APNs
\* refuses clients that change it too often (apns.go:125-149).
SignedOncePerPeriod ==
  \A i \in 2..Len(issued) : issued[i] - issued[i - 1] >= Validity - Buffer

\* A JWT is taken once for all attempts of a message, so it must outlast the
\* refresh buffer from the moment that message is taken up (apns.go:26, 127,
\* 137, 173-177).
JWTOutlastsBuffer ==
  \A s \in Senders : call[s].jwt # 0 => call[s].jwt > call[s].begun + Buffer

\* What is reported as sent was accepted once, save for acceptances the client
\* could not see; what is reported as failed was not accepted as far as the
\* client could see, although it may have been retried, refused for an expired
\* JWT or canceled (apns.go:287-352, fcm.go:223-259).
ReportedAsAccepted ==
  \A s \in Senders : call[s].pc = "done" =>
    call[s].accepted - call[s].lost = IF call[s].result = "ok" THEN 1 ELSE 0

\* Every Send returns, though all senders may want the same slot and requests
\* fail in every way.
SendReturns ==
  \A s \in Senders : call[s].pc \notin {"idle", "done"} ~> call[s].pc = "done"
=============================================================================
