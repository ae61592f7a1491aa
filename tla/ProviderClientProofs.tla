------------------------ MODULE ProviderClientProofs ------------------------
(***************************************************************************)
(* The provider client, proved for every number of senders and slots: the  *)
(* slots taken are the requests in flight, the JWT is signed no more often *)
(* than its life allows and outlasts the message that carries it, and what *)
(* is reported is what the provider did.                                   *)
(***************************************************************************)
EXTENDS ProviderClient, FiniteSetTheorems, TLAPS

PC == {"idle", "readJWT", "renewJWT", "acquire", "inFlight", "backoff", "done"}
CallState == [pc : PC, attempt : 0..MaxRetries, jwt : Nat, begun : Nat, accepted : Nat,
              lost : Nat, result : {"none", "ok", "error", "canceled"}, sends : 0..MaxSends]

LEMMA ConstantTypes ==
  /\ IsFiniteSet(Senders)
  /\ MaxConcurrent \in Nat \ {0} /\ Validity \in Nat \ {0}
  /\ MaxRetries \in Nat /\ Buffer \in Nat /\ MaxSends \in Nat /\ MaxTime \in Nat
  /\ Buffer < Validity
BY ProviderClientAssumption

(***************************************************************************)
(* The last JWT signed is the cached one, and two are a period apart.      *)
(***************************************************************************)
Signing ==
  /\ issued = <<>> => cached = 0
  /\ issued # <<>> => cached = issued[Len(issued)] + Validity
  /\ SignedOncePerPeriod

(***************************************************************************)
(* What a call knows: its JWT was fresh when the message was taken up, it  *)
(* waits only for an attempt that is left, and until it is over the        *)
(* provider has accepted the message only where the client could not see   *)
(* it.                                                                     *)
(***************************************************************************)
CallOK(c, time) ==
  /\ c.begun <= time
  /\ c.jwt # 0 => c.jwt > c.begun + Buffer
  /\ c.pc = "backoff" => c.attempt < MaxRetries
  /\ c.pc # "done" => c.accepted = c.lost
  /\ c.pc = "done" => c.accepted = c.lost + IF c.result = "ok" THEN 1 ELSE 0
Calls == \A s \in Senders : CallOK(call[s], now)

IInv == TypeOK /\ Signing /\ Calls

-----------------------------------------------------------------------------
(***************************************************************************)
(* What a step of sender s leaves in its call.                             *)
(***************************************************************************)
Only(s) == \A z \in Senders : z # s => call'[z] = call[z]
Kept(s) ==
  /\ call'[s].begun = call[s].begun /\ call'[s].sends = call[s].sends
Fate(s) ==
  /\ call'[s].accepted = call[s].accepted /\ call'[s].lost = call[s].lost

LEMMA BeginMoves ==
  ASSUME TypeOK, NEW s \in Senders, Begin(s)
  PROVE  /\ call' \in [Senders -> CallState] /\ Only(s)
         /\ call[s].pc \in {"idle", "done"} /\ call'[s].pc \in {"readJWT", "acquire"}
         /\ call'[s].begun = now /\ call'[s].jwt = 0
         /\ call'[s].accepted = 0 /\ call'[s].lost = 0
<1>1. call \in [Senders -> CallState] /\ call[s] \in CallState /\ now \in Nat
  BY DEF TypeOK, CallState, PC
<1> DEFINE p == IF provider = "apns" THEN "readJWT" ELSE "acquire"
           n == call[s].sends + 1
           c == [Idle EXCEPT !.pc = p, !.begun = now, !.sends = n]
<1>2. call[s].pc \in {"idle", "done"} /\ call' = [call EXCEPT ![s] = c] /\ call[s].sends < MaxSends
  BY DEF Begin, Set
<1>3. n \in 0..MaxSends /\ p \in {"readJWT", "acquire"}
  BY <1>1, <1>2, ConstantTypes DEF CallState
<1> HIDE DEF p, n
<1>4. /\ Idle \in CallState /\ Idle.jwt = 0 /\ Idle.accepted = 0 /\ Idle.lost = 0
      /\ Idle.attempt = 0
  BY ConstantTypes DEF Idle, CallState, PC
<1>5. /\ c \in CallState
      /\ c.pc = p /\ c.begun = now /\ c.jwt = 0 /\ c.accepted = 0 /\ c.lost = 0
  BY <1>1, <1>3, <1>4 DEF CallState, PC
<1> HIDE DEF c
<1>6. call'[s] = c /\ Only(s) /\ call' \in [Senders -> CallState]
  BY <1>1, <1>2, <1>5 DEF Only
<1> QED
  BY <1>2, <1>3, <1>5, <1>6

LEMMA GotoMoves ==
  ASSUME TypeOK, NEW s \in Senders, NEW p \in PC, Goto(s, p)
  PROVE  /\ call' \in [Senders -> CallState] /\ Only(s) /\ Kept(s) /\ Fate(s)
         /\ call'[s].pc = p /\ call'[s].jwt = call[s].jwt /\ call'[s].result = call[s].result
<1>1. call \in [Senders -> CallState] /\ call[s] \in CallState
  BY DEF TypeOK, CallState, PC
<1>2. call' = [call EXCEPT ![s] = [call[s] EXCEPT !.pc = p]]
  BY <1>1 DEF Goto
<1>3. [call[s] EXCEPT !.pc = p] \in CallState
  BY <1>1 DEF CallState
<1>4. call'[s] = [call[s] EXCEPT !.pc = p] /\ Only(s) /\ call' \in [Senders -> CallState]
  BY <1>1, <1>2, <1>3 DEF Only
<1> QED
  BY <1>1, <1>4 DEF CallState, Kept, Fate

LEMMA EndMoves ==
  ASSUME TypeOK, NEW s \in Senders, NEW result \in {"error", "canceled"}, End(s, result)
  PROVE  /\ call' \in [Senders -> CallState] /\ Only(s) /\ Kept(s) /\ Fate(s)
         /\ call'[s].pc = "done" /\ call'[s].jwt = call[s].jwt /\ call'[s].result = result
<1>1. call \in [Senders -> CallState] /\ call[s] \in CallState
  BY DEF TypeOK, CallState, PC
<1> DEFINE c == [call[s] EXCEPT !.pc = "done", !.result = result]
<1>2. call' = [call EXCEPT ![s] = c]
  BY <1>1 DEF End
<1>3. c \in CallState
  BY <1>1 DEF CallState, PC
<1>4. call'[s] = c /\ Only(s) /\ call' \in [Senders -> CallState]
  BY <1>1, <1>2, <1>3 DEF Only
<1> QED
  BY <1>1, <1>4 DEF CallState, Kept, Fate

LEMMA CarryMoves ==
  ASSUME TypeOK, NEW s \in Senders, NEW jwt \in Nat, Set(s, Carry(s, jwt))
  PROVE  /\ call' \in [Senders -> CallState] /\ Only(s) /\ Kept(s) /\ Fate(s)
         /\ call'[s].pc = "acquire" /\ call'[s].jwt = jwt
<1>1. call \in [Senders -> CallState] /\ call[s] \in CallState
  BY DEF TypeOK, CallState, PC
<1>2. call' = [call EXCEPT ![s] = Carry(s, jwt)]
  BY DEF Set
<1>3. Carry(s, jwt) \in CallState
  BY <1>1 DEF Carry, CallState, PC
<1>4. call'[s] = Carry(s, jwt) /\ Only(s) /\ call' \in [Senders -> CallState]
  BY <1>1, <1>2, <1>3 DEF Only
<1> QED
  BY <1>1, <1>4 DEF CallState, Kept, Fate, Carry

LEMMA AnswerMoves ==
  ASSUME TypeOK, NEW s \in Senders, NEW answer \in Answers, Answer(s, answer)
  PROVE  /\ call' \in [Senders -> CallState] /\ Only(s) /\ Kept(s)
         /\ call[s].pc = "inFlight" /\ call'[s].jwt = call[s].jwt
         /\ \/ /\ call'[s].pc = "backoff" /\ answer # "ok"
               /\ call'[s].attempt = call[s].attempt /\ AttemptsLeft(s)
            \/ /\ call'[s].pc = "done"
               /\ call'[s].result = IF answer = "ok" THEN "ok" ELSE "error"
         /\ \/ /\ answer = "ok" /\ call'[s].accepted = call[s].accepted + 1
               /\ call'[s].lost = call[s].lost
            \/ /\ answer # "ok" /\ call'[s].accepted = call[s].accepted + 1
               /\ call'[s].lost = call[s].lost + 1
            \/ answer # "ok" /\ Fate(s)
<1>1. call \in [Senders -> CallState] /\ call[s] \in CallState
  BY DEF TypeOK, CallState, PC
<1>2. PICK reached \in IF answer \in {"dropped", "broken"} THEN BOOLEAN ELSE {answer = "ok"} :
        LET seen == [call[s] EXCEPT !.accepted = IF reached THEN @ + 1 ELSE @,
                                    !.lost = IF reached /\ answer # "ok" THEN @ + 1 ELSE @]
        IN  Set(s, IF Retryable(answer) /\ AttemptsLeft(s)
                   THEN [seen EXCEPT !.pc = "backoff"]
                   ELSE [seen EXCEPT !.pc = "done", !.result = Verdict(s, answer)])
  BY DEF Answer
<1> DEFINE a == IF reached THEN call[s].accepted + 1 ELSE call[s].accepted
           l == IF reached /\ answer # "ok" THEN call[s].lost + 1 ELSE call[s].lost
           v == Verdict(s, answer)
           seen == [call[s] EXCEPT !.accepted = a, !.lost = l]
           again == [seen EXCEPT !.pc = "backoff"]
           over == [seen EXCEPT !.pc = "done", !.result = v]
<1>3. Set(s, IF Retryable(answer) /\ AttemptsLeft(s) THEN again ELSE over)
  BY <1>1, <1>2 DEF CallState
<1>4. Retryable(answer) => answer # "ok"
  BY DEF Retryable, RetriedStatus
<1>5. v = IF answer = "ok" THEN "ok" ELSE "error"
  BY DEF Verdict
<1>6. \/ call' = [call EXCEPT ![s] = again] /\ answer # "ok" /\ AttemptsLeft(s)
      \/ call' = [call EXCEPT ![s] = over]
  BY <1>3, <1>4 DEF Set
<1>7. /\ a \in Nat /\ l \in Nat /\ v \in {"ok", "error"}
      /\ \/ answer = "ok" /\ a = call[s].accepted + 1 /\ l = call[s].lost
         \/ answer # "ok" /\ a = call[s].accepted + 1 /\ l = call[s].lost + 1
         \/ answer # "ok" /\ a = call[s].accepted /\ l = call[s].lost
  <2>1. call[s].accepted \in Nat /\ call[s].lost \in Nat
    BY <1>1 DEF CallState
  <2>2. CASE reached
    BY <1>5, <2>1, <2>2
  <2>3. CASE ~reached
    <3>1. answer # "ok"
      BY <1>2, <2>3
    <3> QED
      BY <1>5, <2>1, <2>3, <3>1
  <2> QED
    BY <2>2, <2>3
<1> HIDE DEF a, l, v
<1>8. /\ again \in CallState /\ over \in CallState
      /\ again.pc = "backoff" /\ over.pc = "done" /\ over.result = v
      /\ \A c \in {again, over} :
           /\ c.accepted = a /\ c.lost = l /\ c.jwt = call[s].jwt
           /\ c.begun = call[s].begun /\ c.sends = call[s].sends
           /\ c.attempt = call[s].attempt
  BY <1>1, <1>7 DEF CallState, PC
<1> HIDE DEF again, over
<1>9. /\ call' \in [Senders -> CallState] /\ Only(s)
      /\ (call'[s] = again /\ answer # "ok" /\ AttemptsLeft(s)) \/ call'[s] = over
  BY <1>1, <1>6, <1>8 DEF Only
<1>10. call[s].pc = "inFlight"
  BY DEF Answer
<1> QED
  BY <1>5, <1>7, <1>8, <1>9, <1>10 DEF Kept, Fate

LEMMA BackoffMoves ==
  ASSUME TypeOK, NEW s \in Senders, Backoff(s), call[s].attempt < MaxRetries
  PROVE  /\ call' \in [Senders -> CallState] /\ Only(s) /\ Kept(s) /\ Fate(s)
         /\ call'[s].pc \in {"acquire", "done"} /\ call'[s].jwt = call[s].jwt
         /\ call'[s].pc = "done" => call'[s].result = "canceled"
<1>1. call \in [Senders -> CallState] /\ call[s] \in CallState
  BY DEF TypeOK, CallState, PC
<1> DEFINE n == call[s].attempt + 1
           c == [call[s] EXCEPT !.pc = "acquire", !.attempt = n]
<1>2. CASE Set(s, [call[s] EXCEPT !.pc = "acquire", !.attempt = @ + 1])
  <2>1. call' = [call EXCEPT ![s] = c]
    BY <1>1, <1>2 DEF Set, CallState
  <2>2. n \in 0..MaxRetries
    BY <1>1, ConstantTypes DEF CallState
  <2> HIDE DEF n
  <2>3. c \in CallState
    BY <1>1, <2>2 DEF CallState, PC
  <2>4. call'[s] = c /\ Only(s) /\ call' \in [Senders -> CallState]
    BY <1>1, <2>1, <2>3 DEF Only
  <2> QED
    BY <1>1, <2>4 DEF CallState, Kept, Fate
<1>3. CASE End(s, "canceled")
  BY <1>3, EndMoves
<1> QED
  BY <1>2, <1>3 DEF Backoff

-----------------------------------------------------------------------------
(***************************************************************************)
(* A step of a sender keeps its call in order, takes or frees one slot, or *)
(* none, and signs a JWT only when the cached one is stale.                *)
(***************************************************************************)
SlotMove(s) ==
  \/ /\ call[s].pc # "inFlight" /\ call'[s].pc # "inFlight" /\ slots' = slots
  \/ /\ call[s].pc # "inFlight" /\ call'[s].pc = "inFlight"
     /\ slots < MaxConcurrent /\ slots' = slots + 1
  \/ call[s].pc = "inFlight" /\ call'[s].pc # "inFlight" /\ slots' = slots - 1
SignMove ==
  \/ UNCHANGED <<cached, issued>>
  \/ ~Fresh /\ cached' = now + Validity /\ issued' = Append(issued, now)

LEMMA SenderMoves ==
  ASSUME IInv, NEW s \in Senders, Begin(s) \/ Step(s) \/ Acquire(s)
  PROVE  /\ call' \in [Senders -> CallState] /\ Only(s)
         /\ UNCHANGED <<provider, keyValid, canceled, now>>
         /\ SlotMove(s) /\ SignMove /\ CallOK(call'[s], now)
<1> USE DEF fixed, IInv
<1>0. /\ call \in [Senders -> CallState] /\ call[s] \in CallState /\ now \in Nat /\ cached \in Nat
      /\ CallOK(call[s], now) /\ TypeOK
  BY DEF TypeOK, CallState, PC, Calls
<1>a. /\ call[s].begun \in Nat /\ call[s].jwt \in Nat /\ call[s].accepted \in Nat
      /\ call[s].lost \in Nat /\ call[s].attempt \in 0..MaxRetries
  BY <1>0 DEF CallState
<1>b. ASSUME Kept(s), Fate(s), call'[s].jwt \in {0, call[s].jwt}, call[s].pc # "done",
             call'[s].pc # "backoff", call'[s].pc = "done" => call'[s].result # "ok"
      PROVE  CallOK(call'[s], now)
  BY <1>b, <1>0, <1>a DEF CallOK, Kept, Fate
<1>c. ASSUME NEW jwt \in Nat, Kept(s), Fate(s), call'[s].jwt = jwt, jwt > now + Buffer,
             call[s].pc # "done", call'[s].pc = "acquire"
      PROVE  CallOK(call'[s], now)
  <2>1. jwt > call[s].begun + Buffer
    BY <1>c, <1>0, <1>a, ConstantTypes DEF CallOK
  <2> QED
    BY <1>c, <1>0, <2>1 DEF CallOK, Kept, Fate
<1>1. CASE Begin(s)
  <2>1. UNCHANGED <<provider, keyValid, canceled, now, cached, issued, slots>>
    BY <1>1 DEF Begin
  <2>2. CallOK(call'[s], now)
    BY <1>0, <1>1, BeginMoves DEF CallOK
  <2> QED
    BY <1>0, <1>1, <2>1, <2>2, BeginMoves DEF SlotMove, SignMove
<1>2. CASE ReadJWT(s)
  <2>1. /\ UNCHANGED <<provider, keyValid, canceled, now, cached, issued, slots>>
        /\ call[s].pc = "readJWT"
    BY <1>2 DEF ReadJWT
  <2>2. CASE Fresh /\ Set(s, Carry(s, cached))
    <3>1. cached > now + Buffer
      BY <1>0, <2>2, ConstantTypes DEF Fresh
    <3>2. CallOK(call'[s], now)
      BY <1>0, <1>c, <2>1, <2>2, <3>1, CarryMoves
    <3> QED
      BY <1>0, <2>1, <2>2, <3>2, CarryMoves DEF SlotMove, SignMove
  <2>3. CASE Set(s, [call[s] EXCEPT !.pc = "renewJWT"])
    <3>1. Goto(s, "renewJWT")
      BY <1>0, <2>3 DEF Set, Goto
    <3>2. "renewJWT" \in PC
      BY DEF PC
    <3>3. CallOK(call'[s], now)
      BY <1>0, <1>b, <2>1, <3>1, <3>2, GotoMoves
    <3> QED
      BY <1>0, <2>1, <3>1, <3>2, <3>3, GotoMoves DEF SlotMove, SignMove
  <2> QED
    BY <1>2, <2>2, <2>3 DEF ReadJWT
<1>3. CASE RenewJWT(s)
  <2>1. /\ UNCHANGED <<provider, keyValid, canceled, now, slots>>
        /\ call[s].pc = "renewJWT"
    BY <1>3 DEF RenewJWT
  <2>2. CASE Fresh /\ Set(s, Carry(s, cached)) /\ UNCHANGED <<cached, issued>>
    <3>1. cached > now + Buffer
      BY <1>0, <2>2, ConstantTypes DEF Fresh
    <3>2. CallOK(call'[s], now)
      BY <1>0, <1>c, <2>1, <2>2, <3>1, CarryMoves
    <3> QED
      BY <1>0, <2>1, <2>2, <3>2, CarryMoves DEF SlotMove, SignMove
  <2>3. CASE /\ ~Fresh /\ cached' = now + Validity /\ issued' = Append(issued, now)
             /\ Set(s, Carry(s, now + Validity))
    <3>1. now + Validity \in Nat /\ now + Validity > now + Buffer
      BY <1>0, ConstantTypes
    <3>2. CallOK(call'[s], now)
      BY <1>0, <1>c, <2>1, <2>3, <3>1, CarryMoves
    <3> QED
      BY <1>0, <2>1, <2>3, <3>1, <3>2, CarryMoves DEF SlotMove, SignMove
  <2>4. CASE End(s, "error") /\ UNCHANGED <<cached, issued>>
    <3>1. CallOK(call'[s], now)
      BY <1>0, <1>b, <2>1, <2>4, EndMoves
    <3> QED
      BY <1>0, <2>1, <2>4, <3>1, EndMoves DEF SlotMove, SignMove
  <2> QED
    BY <1>3, <2>2, <2>3, <2>4 DEF RenewJWT
<1>4. CASE Acquire(s)
  <2>1. /\ UNCHANGED <<provider, keyValid, canceled, now, cached, issued>>
        /\ call[s].pc = "acquire" /\ "inFlight" \in PC
    BY <1>4 DEF Acquire, PC
  <2>2. CASE slots < MaxConcurrent /\ slots' = slots + 1 /\ Goto(s, "inFlight")
    <3>1. CallOK(call'[s], now)
      BY <1>0, <1>b, <2>1, <2>2, GotoMoves
    <3> QED
      BY <1>0, <2>1, <2>2, <3>1, GotoMoves DEF SlotMove, SignMove
  <2>3. CASE End(s, "canceled") /\ slots' = slots
    <3>1. CallOK(call'[s], now)
      BY <1>0, <1>b, <2>1, <2>3, EndMoves
    <3> QED
      BY <1>0, <2>1, <2>3, <3>1, EndMoves DEF SlotMove, SignMove
  <2> QED
    BY <1>4, <2>2, <2>3 DEF Acquire
<1>5. ASSUME NEW answer \in Answers, Answer(s, answer)
      PROVE  /\ call' \in [Senders -> CallState] /\ Only(s)
             /\ UNCHANGED <<provider, keyValid, canceled, now>>
             /\ SlotMove(s) /\ SignMove /\ CallOK(call'[s], now)
  <2>1. /\ UNCHANGED <<provider, keyValid, canceled, now, cached, issued>>
        /\ slots' = slots - 1
    BY <1>5 DEF Answer, Released
  <2>2. /\ call' \in [Senders -> CallState] /\ Only(s) /\ Kept(s)
        /\ call[s].pc = "inFlight" /\ call'[s].jwt = call[s].jwt
        /\ \/ /\ call'[s].pc = "backoff" /\ answer # "ok"
              /\ call'[s].attempt = call[s].attempt /\ AttemptsLeft(s)
           \/ /\ call'[s].pc = "done"
              /\ call'[s].result = IF answer = "ok" THEN "ok" ELSE "error"
        /\ \/ /\ answer = "ok" /\ call'[s].accepted = call[s].accepted + 1
              /\ call'[s].lost = call[s].lost
           \/ /\ answer # "ok" /\ call'[s].accepted = call[s].accepted + 1
              /\ call'[s].lost = call[s].lost + 1
           \/ answer # "ok" /\ Fate(s)
    BY <1>0, <1>5, AnswerMoves
  <2>3. CallOK(call'[s], now)
    BY <1>0, <1>a, <2>2 DEF CallOK, Kept, Fate, AttemptsLeft
  <2> QED
    BY <2>1, <2>2, <2>3 DEF SlotMove, SignMove
<1>6. CASE Backoff(s)
  <2>1. /\ UNCHANGED <<provider, keyValid, canceled, now, cached, issued, slots>>
        /\ call[s].pc = "backoff" /\ call[s].attempt < MaxRetries
    BY <1>0, <1>6 DEF Backoff, CallOK
  <2>2. CallOK(call'[s], now)
    BY <1>0, <1>6, <1>b, <2>1, BackoffMoves
  <2> QED
    BY <1>0, <1>6, <2>1, <2>2, BackoffMoves DEF SlotMove, SignMove
<1> QED
  BY <1>1, <1>2, <1>3, <1>4, <1>5, <1>6 DEF Step

\* The semaphore counts the requests in flight.
LEMMA SlotsCount ==
  ASSUME TypeOK, NEW s \in Senders, Only(s), SlotMove(s)
  PROVE  slots' = Cardinality(InFlight') /\ slots' <= MaxConcurrent /\ slots' \in Nat
<1>1. IsFiniteSet(InFlight) /\ Cardinality(InFlight) \in Nat
  <2>1. InFlight \subseteq Senders
    BY DEF InFlight
  <2> QED
    BY <2>1, ConstantTypes, FS_Subset, FS_CardinalityType
<1>2. slots = Cardinality(InFlight) /\ slots <= MaxConcurrent
  BY DEF TypeOK
<1>3. CASE call[s].pc # "inFlight" /\ call'[s].pc # "inFlight" /\ slots' = slots
  <2>1. InFlight' = InFlight
    BY <1>3 DEF InFlight, Only
  <2> QED
    BY <1>1, <1>2, <1>3, <2>1
<1>4. CASE /\ call[s].pc # "inFlight" /\ call'[s].pc = "inFlight"
           /\ slots < MaxConcurrent /\ slots' = slots + 1
  <2>1. InFlight' = InFlight \cup {s} /\ s \notin InFlight
    BY <1>4 DEF InFlight, Only
  <2>2. Cardinality(InFlight') = Cardinality(InFlight) + 1
    BY <1>1, <2>1, FS_AddElement
  <2> QED
    BY <1>1, <1>2, <1>4, <2>2, ConstantTypes
<1>5. CASE call[s].pc = "inFlight" /\ call'[s].pc # "inFlight" /\ slots' = slots - 1
  <2>1. InFlight' = InFlight \ {s} /\ s \in InFlight
    BY <1>5 DEF InFlight, Only
  <2>2. Cardinality(InFlight') = Cardinality(InFlight) - 1
    BY <1>1, <2>1, FS_RemoveElement
  <2>3. Cardinality(InFlight') \in Nat
    BY <1>1, <2>1, FS_RemoveElement, FS_CardinalityType
  <2> QED
    BY <1>1, <1>2, <1>5, <2>2, <2>3, ConstantTypes
<1> QED
  BY <1>3, <1>4, <1>5 DEF SlotMove

\* A new JWT is signed at least a period after the last one.
LEMMA SigningStep ==
  ASSUME TypeOK, Signing, SignMove
  PROVE  Signing' /\ issued' \in Seq(Nat) /\ cached' \in Nat
<1>1. issued \in Seq(Nat) /\ cached \in Nat /\ now \in Nat /\ Len(issued) \in Nat
  BY DEF TypeOK
<1>2. CASE UNCHANGED <<cached, issued>>
  BY <1>1, <1>2 DEF Signing, SignedOncePerPeriod
<1>3. CASE ~Fresh /\ cached' = now + Validity /\ issued' = Append(issued, now)
  <2> DEFINE n == Len(issued)
  <2>1. /\ Len(issued') = n + 1 /\ issued'[n + 1] = now /\ issued' \in Seq(Nat)
        /\ \A i \in 1..n : issued'[i] = issued[i] /\ issued[i] \in Nat
        /\ issued' # <<>>
    BY <1>1, <1>3
  <2>2. cached <= now + Buffer
    BY <1>1, <1>3, ConstantTypes DEF Fresh
  <2>3. n \in Nat /\ (n > 0 => cached = issued[n] + Validity)
    BY <1>1 DEF Signing
  <2>4. \A i \in 2..n : issued[i] - issued[i - 1] >= Validity - Buffer
    BY DEF Signing, SignedOncePerPeriod
  <2> HIDE DEF n
  <2>5. ASSUME NEW i \in 2..(n + 1)
        PROVE  issued'[i] - issued'[i - 1] >= Validity - Buffer
    <3>1. CASE i = n + 1
      <4>1. issued'[i] = now /\ issued'[i - 1] = issued[n] /\ issued[n] \in Nat /\ n > 0
        BY <2>1, <2>3, <3>1
      <4> QED
        BY <1>1, <2>2, <2>3, <4>1, ConstantTypes
    <3>2. CASE i # n + 1
      <4>1. i \in 2..n /\ i \in 1..n /\ i - 1 \in 1..n
        BY <2>3, <3>2
      <4> QED
        BY <2>1, <2>4, <4>1
    <3> QED
      BY <3>1, <3>2
  <2>6. cached' = issued'[Len(issued')] + Validity /\ cached' \in Nat
    BY <1>1, <1>3, <2>1, ConstantTypes
  <2> QED
    BY <2>1, <2>5, <2>6 DEF Signing, SignedOncePerPeriod
<1> QED
  BY <1>2, <1>3 DEF SignMove

LEMMA InvInit == Init => IInv
<1> SUFFICES ASSUME Init PROVE IInv
  OBVIOUS
<1>1. Idle \in CallState /\ CallOK(Idle, 1) /\ Idle.pc = "idle"
  BY ConstantTypes DEF Idle, CallState, PC, CallOK
<1>2. InFlight = {}
  BY <1>1 DEF Init, InFlight
<1>3. Cardinality(InFlight) = 0
  BY <1>2, FS_EmptySet
<1>4. call \in [Senders -> CallState]
  BY <1>1 DEF Init
<1>5. TypeOK
  <2>1. cached = 0 /\ now = 1 /\ slots = 0
    BY DEF Init
  <2>4. {cached, now} \subseteq Nat
    BY <2>1
  <2>5. provider \in {"apns", "fcm"} /\ keyValid \in BOOLEAN
    BY DEF Init
  <2>6. canceled \in BOOLEAN
    BY DEF Init
  <2>2. issued \in Seq(Nat)
    BY DEF Init
  <2>3. 0 <= MaxConcurrent
    BY ConstantTypes
  <2> QED
    BY <1>3, <1>4, <2>1, <2>2, <2>3, <2>4, <2>5, <2>6 DEF TypeOK, CallState, PC
<1>6. Signing
  <2>1. issued = <<>> /\ cached = 0
    BY DEF Init
  <2>2. Len(issued) = 0
    BY <2>1
  <2>3. \A i : i \notin 2..Len(issued)
    BY <2>2
  <2> QED
    BY <2>1, <2>3 DEF Signing, SignedOncePerPeriod
<1>7. Calls
  BY <1>1 DEF Init, Calls
<1> QED
  BY <1>5, <1>6, <1>7 DEF IInv

LEMMA InvStep == IInv /\ [Next]_vars => IInv'
<1> SUFFICES ASSUME IInv, [Next]_vars
             PROVE  IInv'
  OBVIOUS
<1> USE DEF fixed, vars
<1>0. TypeOK /\ Signing /\ Calls
  BY DEF IInv
<1>1. ASSUME NEW s \in Senders, Begin(s) \/ Step(s) \/ Acquire(s)
      PROVE  IInv'
  <2>1. /\ call' \in [Senders -> CallState] /\ Only(s)
        /\ UNCHANGED <<provider, keyValid, canceled, now>>
        /\ SlotMove(s) /\ SignMove /\ CallOK(call'[s], now)
    BY <1>1, SenderMoves
  <2>2. Signing' /\ issued' \in Seq(Nat) /\ cached' \in Nat
    BY <1>0, <2>1, SigningStep
  <2>3. slots' = Cardinality(InFlight') /\ slots' <= MaxConcurrent
    BY <1>0, <2>1, SlotsCount
  <2>4. TypeOK'
    BY <1>0, <2>1, <2>2, <2>3 DEF TypeOK, CallState, PC
  <2>5. Calls'
    BY <1>0, <2>1 DEF Calls, Only
  <2> QED
    BY <2>2, <2>4, <2>5 DEF IInv
<1>2. CASE Cancel \/ UNCHANGED vars
  BY <1>0, <1>2 DEF Cancel, IInv, TypeOK, Signing, SignedOncePerPeriod, Calls, InFlight
<1>3. CASE Clock
  <2>1. /\ UNCHANGED <<provider, keyValid, cached, slots, call, canceled, issued>>
        /\ now \in Nat /\ now' = now + 1
    BY <1>0, <1>3 DEF Clock, TypeOK
  <2>2. TypeOK' /\ Signing'
    BY <1>0, <2>1 DEF TypeOK, InFlight, Signing, SignedOncePerPeriod
  <2>3. ASSUME NEW s \in Senders
        PROVE  CallOK(call'[s], now')
    <3>1. CallOK(call[s], now) /\ call[s].begun \in Nat
      BY <1>0 DEF Calls, TypeOK
    <3>2. call[s].begun <= now'
      BY <2>1, <3>1 DEF CallOK
    <3> QED
      BY <2>1, <3>1, <3>2 DEF CallOK
  <2> QED
    BY <2>2, <2>3 DEF IInv, Calls
<1> QED
  BY <1>1, <1>2, <1>3 DEF Next

LEMMA Invariant == Spec => []IInv
BY InvInit, InvStep, PTL DEF Spec

\* The semaphore counts the requests in flight and is never exceeded, and no
\* message is tried more often than MAX_RETRY_NOTIFICATION allows.
THEOREM TypeCorrect == Spec => []TypeOK
BY Invariant, PTL DEF IInv

\* Two JWTs are signed a refresh period apart, however many senders find the
\* cached one stale at once.
THEOREM SignedRarely == Spec => []SignedOncePerPeriod
BY Invariant, PTL DEF IInv, Signing

\* The JWT of a message outlasts the refresh buffer from the moment the message
\* was taken up, for every clock and every validity above the buffer.
THEOREM JWTLasts == Spec => []JWTOutlastsBuffer
<1>1. IInv => JWTOutlastsBuffer
  BY DEF IInv, Calls, CallOK, JWTOutlastsBuffer
<1> QED
  BY <1>1, Invariant, PTL

\* What is reported as sent was accepted once more than the client could not
\* see; what is reported as failed or canceled, never as far as it could see.
THEOREM ReportsTruthful == Spec => []ReportedAsAccepted
<1>1. IInv => ReportedAsAccepted
  <2> SUFFICES ASSUME IInv, NEW s \in Senders, call[s].pc = "done"
               PROVE  call[s].accepted - call[s].lost = IF call[s].result = "ok" THEN 1 ELSE 0
    BY DEF ReportedAsAccepted
  <2>1. call[s].accepted \in Nat /\ call[s].lost \in Nat
    BY DEF IInv, TypeOK
  <2>2. call[s].accepted = call[s].lost + IF call[s].result = "ok" THEN 1 ELSE 0
    BY DEF IInv, Calls, CallOK
  <2> QED
    BY <2>1, <2>2
<1> QED
  BY <1>1, Invariant, PTL
=============================================================================
