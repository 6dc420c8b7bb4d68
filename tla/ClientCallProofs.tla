--------------------------- MODULE ClientCallProofs ---------------------------
(***************************************************************************)
(* Proofs about ClientCall, for any limits, delays and number of retries,  *)
(* and about Streams, for any number of events, reconnections and resumes. *)
(*                                                                         *)
(* ClientCall: its state is well typed, a request that is not safe to      *)
(* repeat is executed at most once, a call said never to have been sent    *)
(* was not, and no attempt is sent early.  All follow from one inductive   *)
(* invariant, IInv.                                                        *)
(*                                                                         *)
(* Streams: no event is passed over, and only what follows the cursor      *)
(* comes again.  Both follow from StreamInv, over what the handle, its     *)
(* response and the checkpoint each cover.                                 *)
(***************************************************************************)
EXTENDS ClientCall, Streams, TLAPS

Between == {"open", "closing", "waiting"}

\* Attempts left for the one to come, and nothing in its way.
Ready ==
  /\ call.at \in Between => call.attempts <= MaxRetries /\ ~call.blocked
  /\ call.at = "sending" => call.delivery = "maybe"
  /\ call.at = "answered" => call.delivery = "answered" /\ call.kind = "status"
  /\ call.at = "failed" => call.kind = "transport" /\ call.delay = None

\* A request that is not safe to repeat was executed by the send under way, or not at all,
\* as long as another may be sent.
Executions ==
  ~policy.safe =>
    /\ executed <= 1
    /\ call.at \in Between => executed = 0
    /\ call.at = "sending" => IF native.done THEN native.answered ELSE executed = 0
    /\ call.at = "failed" /\ call.delivery = "unsent" /\ ~call.blocked => executed = 0

\* No server was reached by a call that was never sent, unless a request hook hides it.
Unreached ==
  /\ Furthest = "unsent" => reached # "yes" \/ (call.blocked /\ native.answered)
  /\ call.at = "sending" /\ call.earlier = "unsent" /\ ~native.answered => reached # "yes"

\* What the server asked for is over, is in its last answer, or is waited for, when it is respected.
Heeded ==
  policy.heeds =>
    /\ call.at \in {"open", "sending", "failed"} => asked <= now
    /\ call.at = "answered" =>
         IF call.delay = None THEN asked <= now ELSE asked = call.received + call.delay
    /\ call.at \in {"closing", "waiting"} => asked <= call.notBefore

IInv == TypeOK /\ Ready /\ Executions /\ Unreached /\ Heeded
-----------------------------------------------------------------------------
\* Of two deliveries, the one that got further; "unsent" only if both were not.
LEMMA Further ==
  ASSUME NEW d \in Deliveries, NEW e \in Deliveries, NEW f,
         f = IF Reach(d) >= Reach(e) THEN d ELSE e
  PROVE  f \in Deliveries /\ (f = "unsent" <=> d = "unsent" /\ e = "unsent")
<1>1. d # "unsent" /\ e = "unsent" => Reach(d) >= Reach(e)
  BY DEF Reach, Deliveries
<1>2. e # "unsent" /\ d = "unsent" => ~(Reach(d) >= Reach(e))
  BY DEF Reach, Deliveries
<1> QED BY <1>1, <1>2

\* A call never sent, by any of its attempts.
LEMMA FurthestIs ==
  ASSUME TypeOK
  PROVE  /\ Furthest \in Deliveries
         /\ Furthest = "unsent" <=> call.delivery = "unsent" /\ call.earlier = "unsent"
<1>1. call.delivery \in Deliveries /\ call.earlier \in Deliveries
  BY DEF TypeOK, Call
<1> QED BY <1>1, Further DEF Furthest

LEMMA FurthestNext ==
  ASSUME call' \in Call
  PROVE  Furthest' = "unsent" <=> call'.delivery = "unsent" /\ call'.earlier = "unsent"
<1>1. call'.delivery \in Deliveries /\ call'.earlier \in Deliveries
  BY DEF Call
<1> QED BY <1>1, Further DEF Furthest

\* A delay is at most the longest backoff, and no retry waits for less than the server asked.
LEMMA CapType ==
  ASSUME TypeOK
  PROVE  Cap \in 0..MaxDelay
<1>1. call.cap \in 0..MaxDelay \cup {None}
  BY DEF TypeOK, Call
<1> QED BY <1>1, CallAssumption DEF Cap, None

LEMMA TargetsLate ==
  ASSUME TypeOK, NEW t \in Targets
  PROVE  /\ t \in Nat /\ now <= t
         /\ policy.heeds /\ call.delay # None => call.received + call.delay <= t
<1>1. now \in Nat /\ call.received \in Nat /\ call.delay \in Nat \cup {None} /\ Cap \in Nat
  <2>1. /\ now \in 0..MaxTime /\ call.received \in 0..MaxTime
        /\ call.delay \in ServerDelays \cup {None}
    BY DEF TypeOK, Call
  <2>2. Cap \in 0..MaxDelay
    BY CapType
  <2>3. now \in Nat /\ call.received \in Nat
    BY <2>1, CallAssumption
  <2>4. call.delay \in Nat \cup {None}
    BY <2>1, CallAssumption
  <2>5. Cap \in Nat
    BY <2>2, CallAssumption
  <2> QED BY <2>3, <2>4, <2>5
<1>2. PICK delay \in 0..Cap : t = IF now + delay > ServerTarget THEN now + delay ELSE ServerTarget
  BY DEF Targets
<1>3. ServerDelay \in Nat \cup {None} /\ (policy.heeds => ServerDelay = call.delay)
  BY <1>1 DEF ServerDelay
<1> QED BY <1>1, <1>2, <1>3 DEF ServerTarget, None

\* A step that leaves the native send, the server and the clock alone.
Still == UNCHANGED <<now, policy, native, executed, reached, asked>>

\* The call's record is s from here on, in a step that sends nothing: IInv holds of it.
LEMMA Goes ==
  ASSUME IInv, Still, call' \in Call,
         call'.at \in Between => call'.attempts <= MaxRetries /\ ~call'.blocked,
         call'.at \notin {"sending", "answered", "failed"},
         ~policy.safe /\ call'.at \in Between => executed = 0,
         call'.delivery = "unsent" /\ call'.earlier = "unsent"
           => call.delivery = "unsent" /\ call.earlier = "unsent",
         call.blocked => call'.blocked,
         policy.heeds /\ call'.at = "open" => asked <= now,
         policy.heeds /\ call'.at \in {"closing", "waiting"} => asked <= call'.notBefore
  PROVE  IInv'
<1>1. TypeOK'
  BY DEF IInv, TypeOK, Still
<1>2. Ready'
  BY DEF Ready
<1>3. Executions'
  BY DEF IInv, Executions, Still
<1>4. Unreached'
  BY FurthestIs, FurthestNext DEF IInv, Unreached, Still
<1>5. Heeded'
  BY DEF Heeded, Still
<1> QED BY <1>1, <1>2, <1>3, <1>4, <1>5 DEF IInv
LEMMA NextSendIs ==
  ASSUME IInv
  PROVE  /\ NextSend \in Call /\ NextSend.delivery = "unsent" /\ NextSend.earlier = Furthest
         /\ NextSend.attempts = call.attempts /\ NextSend.blocked = call.blocked
         /\ Furthest \in Deliveries
<1>1. call \in Call /\ Furthest \in Deliveries
  BY FurthestIs DEF IInv, TypeOK
<1>2. "unsent" \in Deliveries
  BY DEF Deliveries
<1> QED BY <1>1, <1>2 DEF NextSend, Call

LEMMA UnpreparedKeeps ==
  ASSUME IInv, Unprepared
  PROVE  IInv'
<1>1. /\ call' \in Call /\ call'.at = "ended" /\ call'.delivery = "unsent"
      /\ call'.earlier = Furthest /\ call'.blocked = call.blocked
  BY NextSendIs DEF Unprepared, Call
<1>2. Furthest = "unsent" => call.delivery = "unsent" /\ call.earlier = "unsent"
  BY FurthestIs DEF IInv
<1> QED BY <1>1, <1>2, Goes DEF Unprepared, Still, Between

LEMMA AttemptKeeps ==
  ASSUME IInv, Attempt
  PROVE  IInv'
<1>1. CASE Expired
  <2>1. /\ call' \in Call /\ call'.at = "ended" /\ call'.delivery = "unsent"
        /\ call'.earlier = Furthest /\ call'.blocked = call.blocked
    BY <1>1, NextSendIs DEF Attempt, Call
  <2>2. Furthest = "unsent" => call.delivery = "unsent" /\ call.earlier = "unsent"
    BY FurthestIs DEF IInv
  <2> QED BY <1>1, <2>1, <2>2, Goes DEF Attempt, Still, Between
<1>2. CASE ~Expired
  <2>1. /\ call' = [NextSend EXCEPT !.at = "sending", !.attempts = @ + 1, !.delivery = "maybe"]
        /\ native' = [hops |-> 0, answered |-> FALSE, challenged |-> FALSE, done |-> FALSE]
        /\ UNCHANGED <<now, policy, executed, reached, asked>> /\ call.at = "open"
    BY <1>2 DEF Attempt
  <2>2. call.attempts + 1 \in 0..(1 + MaxRetries)
    <3>1. call.attempts \in 0..(1 + MaxRetries) /\ call.attempts <= MaxRetries
      BY <2>1 DEF IInv, TypeOK, Call, Ready, Between
    <3> QED BY <3>1, CallAssumption
  <2>3. /\ call' \in Call /\ call'.at = "sending" /\ call'.delivery = "maybe"
        /\ call'.earlier = Furthest
    BY <2>1, <2>2, NextSendIs DEF Call, Deliveries
  <2>4. native' \in Native /\ ~native'.answered /\ ~native'.done
    BY <2>1, CallAssumption DEF Native
  <2>5. TypeOK'
    BY <2>1, <2>3, <2>4 DEF IInv, TypeOK
  <2>6. Ready'
    BY <2>3 DEF Ready, Between
  <2>7. Executions'
    BY <2>1, <2>3, <2>4 DEF IInv, Executions, Between
  <2>8. Unreached'
    <3>1. ~call.blocked
      BY <2>1 DEF IInv, Ready, Between
    <3> QED BY <2>1, <2>3, <3>1, FurthestNext DEF IInv, Unreached
  <2>9. Heeded'
    BY <2>1, <2>3 DEF IInv, Heeded
  <2> QED BY <2>5, <2>6, <2>7, <2>8, <2>9 DEF IInv
<1> QED BY <1>1, <1>2

\* What lets a call be repeated: it is not blocked, has attempts left, and a request that is not
\* safe was never sent.
LEMMA MayRetryIs ==
  ASSUME IInv, MayRetry
  PROVE  /\ ~call.blocked /\ call.attempts <= MaxRetries
         /\ policy.safe \/ (call.kind = "transport" /\ call.delivery = "unsent")
<1>1. call.attempts \in Nat /\ call.attempts < 1 + MaxRetries
  BY CallAssumption DEF IInv, TypeOK, Call, MayRetry
<1> QED BY <1>1, CallAssumption DEF MayRetry

LEMMA EndKeeps ==
  ASSUME IInv, End, Still
  PROVE  IInv'
<1>1. call' \in Call /\ call'.at = "ended" /\ call'.delivery = call.delivery
      /\ call'.earlier = call.earlier /\ call'.blocked = call.blocked
  BY DEF End, IInv, TypeOK, Call
<1> QED BY <1>1, Goes DEF Between

LEMMA PlannedKeeps ==
  ASSUME IInv, NEW next \in {"closing", "waiting"}, MayRetry, Planned(next), Still,
         call.at = (IF next = "closing" THEN "answered" ELSE "failed")
  PROVE  IInv'
<1> PICK target \in Targets :
      call' = [call EXCEPT !.at = next, !.cap = Cap, !.notBefore = target]
  BY DEF Planned
<1>1. call' \in Call /\ call'.at = next /\ call'.delivery = call.delivery
      /\ call'.earlier = call.earlier /\ call'.notBefore = target
      /\ call'.attempts = call.attempts /\ call'.blocked = call.blocked
  BY CapType, TargetsLate DEF IInv, TypeOK, Call
<1>2. target \in Nat /\ now <= target
      /\ (policy.heeds /\ call.delay # None => call.received + call.delay <= target)
  BY TargetsLate DEF IInv
<1>3. now \in Nat /\ asked \in Nat
  BY CallAssumption DEF IInv, TypeOK
<1>4. policy.heeds => asked <= target
  <2>1. CASE next = "closing"
    BY <1>2, <1>3, <2>1 DEF IInv, Heeded
  <2>2. CASE next = "waiting"
    BY <1>2, <1>3, <2>2 DEF IInv, Heeded
  <2> QED BY <2>1, <2>2
<1>5. ~policy.safe => executed = 0
  BY MayRetryIs DEF IInv, Ready, Executions
<1> QED BY <1>1, <1>4, <1>5, MayRetryIs, Goes

LEMMA DecideKeeps ==
  ASSUME IInv, Decide \/ Recover
  PROVE  IInv'
<1>1. Still
  BY DEF Decide, Recover, Still
<1> QED BY <1>1, EndKeeps, PlannedKeeps DEF Decide, Recover

LEMMA CloseKeeps ==
  ASSUME IInv, Close
  PROVE  IInv'
<1> PICK failed \in BOOLEAN :
      call' = [call EXCEPT !.at = IF failed \/ Expired THEN "ended" ELSE "waiting",
                           !.blocked = @ \/ failed]
  BY DEF Close
<1>1. call \in Call /\ call.at = "closing" /\ Still
  BY DEF IInv, TypeOK, Close, Still
<1>2. call' \in Call /\ call'.at = (IF failed \/ Expired THEN "ended" ELSE "waiting")
      /\ call'.blocked = (call.blocked \/ failed) /\ call'.delivery = call.delivery
      /\ call'.earlier = call.earlier /\ call'.attempts = call.attempts
      /\ call'.notBefore = call.notBefore
  <2>1. (IF failed \/ Expired THEN "ended" ELSE "waiting") \in {"waiting", "ended"}
    OBVIOUS
  <2>2. (call.blocked \/ failed) \in BOOLEAN
    BY DEF Call
  <2> QED BY <1>1, <2>1, <2>2 DEF Call
<1>3. call.attempts <= MaxRetries /\ ~call.blocked /\ (~policy.safe => executed = 0)
  BY <1>1 DEF IInv, Ready, Executions, Between
<1>4. policy.heeds => asked <= call.notBefore
  BY <1>1 DEF IInv, Heeded
<1> QED BY <1>1, <1>2, <1>3, <1>4, Goes DEF Between

LEMMA WakeKeeps ==
  ASSUME IInv, Wake
  PROVE  IInv'
<1>1. call \in Call /\ call.at = "waiting" /\ Still
  BY DEF IInv, TypeOK, Wake, Still
<1>2. call' \in Call /\ call'.at = (IF Expired THEN "ended" ELSE "open")
      /\ call'.blocked = call.blocked /\ call'.delivery = call.delivery
      /\ call'.earlier = call.earlier /\ call'.attempts = call.attempts
  BY <1>1 DEF Wake, Call
<1>3. call.attempts <= MaxRetries /\ ~call.blocked /\ (~policy.safe => executed = 0)
  BY <1>1 DEF IInv, Ready, Executions, Between
<1>4. policy.heeds /\ ~Expired => asked <= now
  <2>1. policy.heeds => asked <= call.notBefore
    BY <1>1 DEF IInv, Heeded
  <2>2. ~Expired => call.notBefore <= now
    BY DEF Wake
  <2>3. asked \in Nat /\ call.notBefore \in Nat /\ now \in Nat
    BY CallAssumption DEF IInv, TypeOK, Call
  <2> QED BY <2>1, <2>2, <2>3
<1> QED BY <1>1, <1>2, <1>3, <1>4, Goes DEF Between

LEMMA InterruptKeeps ==
  ASSUME IInv, Interrupt
  PROVE  IInv'
BY EndKeeps DEF Interrupt, Still
-----------------------------------------------------------------------------
(* What comes of a send. *)

\* A failed send, told as unsent only when it was not answered, or when it blocks the call; the
\* server may have heard of any other.
LEMMA FailureKeeps ==
  ASSUME IInv, NEW delivery \in Deliveries, NEW reason \in {"none", "connect"} \cup {"pool"},
         NEW blocked \in BOOLEAN, FailedSend(delivery, reason, blocked), call.at = "sending",
         UNCHANGED <<now, policy, native, asked>>,
         UNCHANGED <<executed, reached>> \/ (delivery # "unsent" /\ (Reaches \/ Rejects)),
         delivery = "unsent" => ~native.answered \/ blocked
  PROVE  IInv'
<1>1. /\ call' \in Call /\ call'.at = "failed" /\ call'.kind = "transport"
      /\ call'.delay = None /\ call'.earlier = call.earlier /\ call'.delivery = delivery
      /\ call'.blocked = (call.blocked \/ blocked)
  <2>1. call \in Call /\ (call.blocked \/ blocked) \in BOOLEAN
    BY DEF IInv, TypeOK, Call
  <2>2. reason \in Reasons /\ None \in ServerDelays \cup {None}
    BY DEF Reasons
  <2> QED BY <2>1, <2>2 DEF FailedSend, Call
<1>2. executed \in Nat /\ executed' \in Nat /\ reached' \in {"no", "challenged", "yes"}
  BY DEF IInv, TypeOK, Reaches, Rejects
<1>3. ~policy.safe => executed <= 1 /\ (IF native.done THEN native.answered ELSE executed = 0)
  BY DEF IInv, Executions
<1>4. TypeOK'
  BY <1>1, <1>2 DEF IInv, TypeOK
<1>5. Ready'
  BY <1>1 DEF Ready, Between
<1>6. Executions'
  BY <1>1, <1>2, <1>3 DEF Executions, Between, Reaches, Rejects
<1>7. Unreached'
  <2>1. Furthest' = "unsent" => delivery = "unsent" /\ call.earlier = "unsent"
    BY <1>1, FurthestNext
  <2>2. ~native.answered /\ call.earlier = "unsent" => reached # "yes"
    BY DEF IInv, Unreached
  <2> QED BY <1>1, <2>1, <2>2 DEF Unreached
<1>8. Heeded'
  BY <1>1 DEF IInv, Heeded
<1> QED BY <1>4, <1>5, <1>6, <1>7, <1>8 DEF IInv

\* How far a send that failed is said to have got
LEMMA DeliveryIs ==
  ASSUME NEW unsent \in BOOLEAN
  PROVE  DeliveryOf(unsent) \in Deliveries
         /\ (DeliveryOf(unsent) = "unsent" <=> unsent /\ ~native.answered)
BY DEF DeliveryOf, Deliveries

LEMMA UnsentKeeps ==
  ASSUME IInv, Unsent
  PROVE  IInv'
BY DeliveryIs, FailureKeeps DEF Unsent

LEMMA LostKeeps ==
  ASSUME IInv, Lost
  PROVE  IInv'
BY DeliveryIs, FailureKeeps DEF Lost

LEMMA HookedKeeps ==
  ASSUME IInv, Hooked
  PROVE  IInv'
<1> PICK unsent \in BOOLEAN, named \in BOOLEAN :
      FailedSend(IF named THEN DeliveryOf(unsent) ELSE IF unsent THEN "unsent" ELSE "maybe",
                 IF unsent THEN "connect" ELSE "none", TRUE)
  BY DEF Hooked
<1> DEFINE d == IF named THEN DeliveryOf(unsent) ELSE IF unsent THEN "unsent" ELSE "maybe"
<1>1. d \in Deliveries
  BY DeliveryIs DEF Deliveries
<1>2. (IF unsent THEN "connect" ELSE "none") \in {"none", "connect"} \cup {"pool"}
  OBVIOUS
<1> HIDE DEF d
<1> QED BY <1>1, <1>2, FailureKeeps DEF Hooked, d

LEMMA ResponseHookedKeeps ==
  ASSUME IInv, ResponseHooked
  PROVE  IInv'
<1>1. "answered" \in Deliveries /\ "answered" # "unsent"
  BY DEF Deliveries
<1> QED BY <1>1, FailureKeeps DEF ResponseHooked

LEMMA RedirectedKeeps ==
  ASSUME IInv, Redirected
  PROVE  IInv'
<1>1. /\ call.at = "sending" /\ native.hops < MaxHops /\ Reaches
      /\ native' = [native EXCEPT !.hops = @ + 1, !.answered = TRUE,
                                  !.done = @ \/ executed' # executed]
      /\ UNCHANGED <<now, policy, call, asked>>
  BY DEF Redirected
<1>2. native \in Native /\ executed \in Nat
  BY DEF IInv, TypeOK
<1>3. executed' \in Nat /\ reached' = "yes"
  BY <1>1, <1>2 DEF Reaches
<1>4. native' \in Native /\ native'.answered /\ native'.done = (native.done \/ executed' # executed)
  <2>1. native.hops + 1 \in 0..MaxHops
    BY <1>1, <1>2, CallAssumption DEF Native
  <2>2. (native.done \/ executed' # executed) \in BOOLEAN
    BY <1>2 DEF Native
  <2> QED BY <1>1, <1>2, <2>1, <2>2 DEF Native
<1>5. TypeOK'
  BY <1>1, <1>3, <1>4 DEF IInv, TypeOK
<1>6. Ready'
  BY <1>1 DEF IInv, Ready
<1>7. Executions'
  <2>1. ~policy.safe => executed <= 1 /\ (~native.done => executed = 0)
    BY <1>1 DEF IInv, Executions
  <2>2. ~policy.safe => executed' <= 1
    BY <1>1, <1>2, <2>1 DEF Reaches
  <2>3. ~policy.safe /\ ~native'.done => executed' = 0
    BY <1>4, <2>1
  <2> QED BY <1>1, <1>4, <2>2, <2>3 DEF Executions, Between
<1>8. Unreached'
  <2>1. call.delivery = "maybe"
    BY <1>1 DEF IInv, Ready
  <2>2. Furthest' # "unsent"
    BY <1>1, <1>5, <2>1, FurthestNext DEF TypeOK
  <2> QED BY <1>4, <2>2 DEF Unreached
<1>9. Heeded'
  BY <1>1 DEF IInv, Heeded
<1> QED BY <1>5, <1>6, <1>7, <1>8, <1>9 DEF IInv

LEMMA ChallengedKeeps ==
  ASSUME IInv, Challenged
  PROVE  IInv'
<1>1. /\ native' = [native EXCEPT !.challenged = TRUE]
      /\ reached' = IF reached = "no" THEN "challenged" ELSE reached
      /\ UNCHANGED <<now, policy, call, executed, asked>>
  BY DEF Challenged, Rejects
<1>2. native' \in Native /\ native'.answered = native.answered /\ native'.done = native.done
  BY <1>1 DEF IInv, TypeOK, Native
<1>3. reached' \in {"no", "challenged", "yes"} /\ (reached' = "yes" => reached = "yes")
  BY <1>1 DEF IInv, TypeOK
<1>4. TypeOK'
  BY <1>1, <1>2, <1>3 DEF IInv, TypeOK
<1>5. Ready'
  BY <1>1 DEF IInv, Ready
<1>6. Executions'
  BY <1>1, <1>2 DEF IInv, Executions
<1>7. Furthest' = Furthest
  BY <1>1 DEF Furthest
<1>8. Unreached'
  BY <1>1, <1>2, <1>3, <1>7 DEF IInv, Unreached
<1>9. Heeded'
  BY <1>1 DEF IInv, Heeded
<1> QED BY <1>4, <1>5, <1>6, <1>8, <1>9 DEF IInv

LEMMA AnsweredKeeps ==
  ASSUME IInv, Answered
  PROVE  IInv'
<1> PICK reason \in {"none", "status"}, hint \in {"none", "yes", "no"},
         delay \in ServerDelays \cup {None} :
      /\ call' = [call EXCEPT !.at = "answered", !.delivery = "answered", !.kind = "status",
                              !.reason = reason, !.hint = hint, !.delay = delay,
                              !.received = now]
      /\ asked' = IF delay = None THEN asked ELSE now + delay
  BY DEF Answered
<1>1. call.at = "sending" /\ Reaches /\ UNCHANGED <<now, policy, native>>
  BY DEF Answered
<1>2. call \in Call /\ now \in 0..MaxTime /\ asked \in Nat /\ executed \in Nat
  BY DEF IInv, TypeOK
<1>3. now \in Nat /\ delay \in Nat \cup {None} /\ asked' \in Nat
  BY <1>2, CallAssumption DEF None
<1>4. /\ call' \in Call /\ call'.at = "answered" /\ call'.delivery = "answered"
      /\ call'.kind = "status" /\ call'.delay = delay /\ call'.received = now
  BY <1>2 DEF Call, Deliveries, Reasons
<1>5. executed' \in Nat /\ reached' = "yes"
  BY <1>1, <1>2 DEF Reaches
<1>6. TypeOK'
  BY <1>1, <1>3, <1>4, <1>5 DEF IInv, TypeOK
<1>7. Ready'
  BY <1>4 DEF Ready, Between
<1>8. Executions'
  <2>1. ~policy.safe => executed <= 1 /\ (~native.done => executed = 0)
    BY <1>1 DEF IInv, Executions
  <2>2. ~policy.safe => executed' <= 1
    BY <1>1, <1>2, <2>1 DEF Reaches
  <2> QED BY <1>1, <1>4, <2>2 DEF Executions, Between
<1>9. Unreached'
  BY <1>4, FurthestNext DEF Unreached
<1>10. Heeded'
  <2>1. policy.heeds /\ delay = None => asked' <= now
    BY <1>1 DEF IInv, Heeded
  <2>2. delay # None => asked' = now + delay
    OBVIOUS
  <2> QED BY <1>1, <1>4, <2>1, <2>2 DEF Heeded
<1> QED BY <1>6, <1>7, <1>8, <1>9, <1>10 DEF IInv

LEMMA TickKeeps ==
  ASSUME IInv, Tick
  PROVE  IInv'
<1>1. /\ now < MaxTime /\ now' = now + 1
      /\ UNCHANGED <<policy, call, native, executed, reached, asked>>
  BY DEF Tick
<1>2. now \in 0..MaxTime /\ asked \in Nat
  BY DEF IInv, TypeOK
<1>3. now' \in 0..MaxTime /\ now <= now'
  BY <1>1, <1>2, CallAssumption
<1>4. TypeOK'
  BY <1>1, <1>3 DEF IInv, TypeOK
<1>5. Ready'
  BY <1>1 DEF IInv, Ready
<1>6. Executions'
  BY <1>1 DEF IInv, Executions
<1>7. Furthest' = Furthest
  BY <1>1 DEF Furthest
<1>8. Unreached'
  BY <1>1, <1>7 DEF IInv, Unreached
<1>9. asked <= now => asked <= now'
  BY <1>1, <1>2, CallAssumption
<1>10. Heeded'
  BY <1>1, <1>9 DEF IInv, Heeded
<1> QED BY <1>4, <1>5, <1>6, <1>8, <1>10 DEF IInv

LEMMA StutterKeeps ==
  ASSUME IInv, UNCHANGED vars
  PROVE  IInv'
<1>1. UNCHANGED <<now, policy, call, native, executed, reached, asked>>
  BY DEF vars
<1>2. Furthest' = Furthest
  BY <1>1 DEF Furthest
<1> QED BY <1>1, <1>2 DEF IInv, TypeOK, Ready, Executions, Unreached, Heeded
-----------------------------------------------------------------------------
LEMMA InitSound ==
  ASSUME Init
  PROVE  IInv
<1>1. call \in Call
  <2>1. /\ 0 \in 0..(1 + MaxRetries) /\ 0 \in 0..MaxTime /\ 0 \in Nat
        /\ "unsent" \in Deliveries /\ "none" \in Reasons
    BY CallAssumption DEF Deliveries, Reasons
  <2> QED BY <2>1 DEF Init, Call
<1>2. native \in Native /\ now \in 0..MaxTime
  BY CallAssumption DEF Init, Native
<1>3. TypeOK
  BY <1>1, <1>2 DEF Init, TypeOK
<1>4. Ready
  BY CallAssumption DEF Init, Ready
<1>5. Executions /\ Unreached /\ Heeded
  BY DEF Init, Executions, Unreached, Heeded
<1> QED BY <1>3, <1>4, <1>5 DEF IInv

LEMMA StepKeeps ==
  ASSUME IInv, [Next]_vars
  PROVE  IInv'
<1>1. CASE Flow
  BY <1>1, AttemptKeeps, UnpreparedKeeps, DecideKeeps, CloseKeeps, WakeKeeps DEF Flow
<1>2. CASE Network
  BY <1>2, UnsentKeeps, LostKeeps, HookedKeeps, ResponseHookedKeeps, RedirectedKeeps,
     ChallengedKeeps, AnsweredKeeps DEF Network
<1> QED BY <1>1, <1>2, InterruptKeeps, TickKeeps, StutterKeeps DEF Next

LEMMA InvariantHolds == Spec => []IInv
<1>1. Init => IInv
  BY InitSound
<1>2. IInv /\ [Next]_vars => IInv'
  BY StepKeeps
<1> QED BY <1>1, <1>2, PTL DEF Spec

\* The call's state is well typed: attempts, backoff and delays stay within the options' limits
\* (LogicalCallContext, RetryState).
THEOREM TypeCorrect == Spec => []TypeOK
<1>1. IInv => TypeOK
  BY DEF IInv
<1> QED BY <1>1, InvariantHolds, PTL

\* A request that is not safe to repeat is executed at most once, whatever is lost, refused,
\* redirected or challenged, for any number of retries and hops (retry_stop, _answered).
THEOREM NotRepeated == Spec => []ExecutedOnce
<1>1. IInv => ExecutedOnce
  BY DEF IInv, Executions, ExecutedOnce
<1> QED BY <1>1, InvariantHolds, PTL

\* A call that ends as never sent reached no server, but for a rejected token, and unless a request
\* hook raised for a redirect's request and did not name it (next_send, furthest, _answered).
THEOREM UnsentUnreached == Spec => []FurthestTrue
<1>1. IInv => FurthestTrue
  BY DEF IInv, Unreached, FurthestTrue
<1> QED BY <1>1, InvariantHolds, PTL

\* An attempt is sent again only before the deadline, after no failed release or failing request
\* hook, and, by a call that respects Retry-After, after the server's delay (admit_send,
\* sleep_until, retry, retry_delay).
THEOREM SentInTime == Spec => ResentInTime
<1> DEFINE InTime == call.at = "open" /\ call'.at = "sending" =>
                       (policy.heeds => now >= asked) /\ ~Expired /\ ~call.blocked
<1>1. IInv /\ [Next]_vars => [InTime]_vars
  <2> SUFFICES ASSUME IInv, Next, call.at = "open", call'.at = "sending"
               PROVE  InTime
    OBVIOUS
  <2>1. (policy.heeds => asked <= now) /\ ~call.blocked
    BY DEF IInv, Heeded, Ready, Between
  <2>2. now \in Nat /\ asked \in Nat
    BY CallAssumption DEF IInv, TypeOK
  <2>3. ~Expired
    <3>1. CASE Attempt
      <4>1. Expired => call' = [NextSend EXCEPT !.at = "ended"] /\ NextSend \in Call
        BY <3>1, NextSendIs DEF Attempt
      <4> QED BY <4>1 DEF Call
    <3>2. CASE Unprepared
      <4>1. call' = [NextSend EXCEPT !.at = "ended"] /\ NextSend \in Call
        BY <3>2, NextSendIs DEF Unprepared
      <4> QED BY <4>1 DEF Call
    <3>3. ~(Decide \/ Recover \/ Close \/ Wake)
      BY DEF Decide, Recover, Close, Wake
    <3>4. ~(Network \/ Tick)
      BY DEF Network, Unsent, Lost, Hooked, ResponseHooked, Redirected, Challenged,
             Answered, Tick
    <3>5. CASE Interrupt
      <4>1. call' = [call EXCEPT !.at = "ended"] /\ call \in Call
        BY <3>5 DEF Interrupt, End, IInv, TypeOK
      <4> QED BY <4>1 DEF Call
    <3> QED BY <3>1, <3>2, <3>3, <3>4, <3>5 DEF Next, Flow
  <2> QED BY <2>1, <2>2, <2>3
<1>2. Spec => [][Next]_vars
  BY DEF Spec
<1> QED BY <1>1, <1>2, InvariantHolds, PTL DEF ResentInTime
-----------------------------------------------------------------------------
(***************************************************************************)
(* Event streams, whose responses the calls open.                          *)
(***************************************************************************)

\* The events with data up to n were all got, those of the set g.
Covers(g, n) == \A e \in Index : e <= n /\ log[e].data => e \in g

\* A set of events got that passes none over.
Whole(g) == \A d \in g, e \in Index : e < d /\ log[e].data => e \in g

\* A later event of g cleared the cursor that event d gave.
Cleared(g, d) == \E e \in Index, c \in g : d < e /\ e <= c /\ log[e].mark = "cleared"

\* What the cursor covers was got; what gave a cursor later than it was cleared since.
Sound(g, cursor) ==
  /\ Whole(g) /\ Covers(g, cursor)
  /\ \A d \in g : log[d].mark = "own" => d <= cursor \/ Cleared(g, d)

\* The response is read from the cursor on, everything before it was got, and the ID that holds
\* is that of the last event that set one.
Reading ==
  conn.live =>
    /\ Covers(got, conn.at) /\ stream.cursor <= conn.at
    /\ conn.last <= conn.at /\ stream.carried <= conn.at
    /\ plan.byId => \A d \in Index :
         d <= conn.at /\ log[d].mark = "own"
           => d <= EventId(conn) \/ \E e \in Index : d < e /\ e <= conn.at /\ log[e].mark = "cleared"

Repeats == \A d \in again : d \in got /\ (log[d].mark = "own" => Cleared(got, d))

\* The inductive invariant of a stream.
StreamInv ==
  /\ StreamTypeOK /\ Sound(got, stream.cursor) /\ Sound(saved.got, saved.cursor)
  /\ Reading /\ Repeats
  /\ doing = "reading" \/ stream.state = "open" => conn.live
  /\ doing = "waiting" => stream.reconnects < MaxReconnects
-----------------------------------------------------------------------------
LEMMA Indices ==
  /\ Events \in Nat /\ NoCursor = 0 /\ MaxReconnects \in Nat
  /\ \A i \in Index : i \in Nat /\ i # NoCursor
  /\ \A i \in Index \cup {NoCursor} : i \in Nat
BY StreamsAssumption DEF Index, NoCursor

\* A checkpoint stays sound when it is left alone.
LEMMA SavedKeeps ==
  ASSUME Sound(saved.got, saved.cursor), log' = log, saved' = saved
  PROVE  Sound(saved.got, saved.cursor)'
BY DEF Sound, Whole, Covers, Cleared

\* A stream that is over, or waits, and got nothing new.
LEMMA OverKeeps ==
  ASSUME StreamInv, UNCHANGED <<plan, log, got, again, saved, resumes>>, counted' \in Nat,
         stream' \in Stream, stream'.cursor = stream.cursor, stream'.state # "open",
         conn' \in Conn, conn'.live => conn' = conn /\ stream'.carried = stream.carried,
         doing' \in {"none", "waiting"}, doing' = "waiting" => stream'.reconnects < MaxReconnects
  PROVE  StreamInv'
<1>1. StreamTypeOK'
  BY DEF StreamInv, StreamTypeOK
<1>2. Sound(got, stream.cursor)'
  BY DEF StreamInv, Sound, Whole, Covers, Cleared
<1>3. Reading'
  <2> SUFFICES ASSUME conn'.live PROVE Reading'
    BY DEF Reading
  <2>1. Reading /\ conn.live /\ conn' = conn /\ stream'.carried = stream.carried
    BY DEF StreamInv
  <2>2. EventId(conn)' = EventId(conn)
    BY <2>1 DEF EventId
  <2> QED BY <2>1, <2>2 DEF Reading, Covers
<1>4. Repeats'
  BY DEF StreamInv, Repeats, Cleared
<1> QED BY <1>1, <1>2, <1>3, <1>4, SavedKeeps DEF StreamInv

\* A stream opened after a cursor that what was got is sound with.
LEMMA ReplyKeeps ==
  ASSUME StreamTypeOK', UNCHANGED <<plan, log, saved>>, Sound(saved.got, saved.cursor),
         NEW g \in SUBSET Index, NEW c \in Index \cup {NoCursor}, Sound(g, c),
         doing' # "waiting", got' = g, stream'.cursor = c, stream'.carried = Carried(c), conn' = Reply(c),
         \A d \in again' : d \in g /\ (log[d].mark = "own" => Cleared(g, d))
  PROVE  StreamInv'
<1>1. Sound(got, stream.cursor)'
  BY DEF Sound, Whole, Covers, Cleared
<1>2. conn'.live /\ conn'.at = c /\ conn'.last = NoCursor /\ ~conn'.identified
  BY DEF Reply
<1>3. c \in Nat /\ (c = NoCursor \/ c \in Index)
  BY Indices
<1>4. Reading'
  <2>1. Covers(got, conn.at)'
    BY <1>2 DEF Sound, Covers
  <2>2. conn'.last <= conn'.at /\ stream'.carried <= conn'.at
    BY <1>2, <1>3, Indices DEF Carried
  <2>3. plan'.byId => EventId(conn)' = c
    BY <1>2 DEF EventId, Carried
  <2> QED BY <1>2, <1>3, <2>1, <2>2, <2>3 DEF Reading
<1>5. Repeats'
  BY DEF Repeats, Cleared
<1> QED BY <1>1, <1>2, <1>4, <1>5, SavedKeeps DEF StreamInv

\* The response once it read its next event: what it covers grows by that event.
LEMMA ReadIs ==
  ASSUME StreamTypeOK, conn.at < Events, NEW i, i = conn.at + 1
  PROVE  /\ i \in Index /\ Read(i) \in Conn /\ Read(i).live = conn.live
         /\ Read(i).at = i
         /\ Read(i).last = IF log[i].mark = "own" THEN i
                           ELSE IF log[i].mark = "cleared" THEN NoCursor ELSE conn.last
         /\ Read(i).identified = (conn.identified \/ Read(i).last # NoCursor)
<1>1. conn \in Conn /\ conn.at \in 0..Events
  BY DEF StreamTypeOK, Conn
<1>2. i \in Index /\ i \in 0..Events
  BY <1>1, Indices DEF Index
<1> DEFINE last == IF log[i].mark = "own" THEN i
                   ELSE IF log[i].mark = "cleared" THEN NoCursor ELSE conn.last
<1>3. last \in Index \cup {NoCursor} /\ (conn.identified \/ last # NoCursor) \in BOOLEAN
  BY <1>1, <1>2 DEF Conn
<1> QED BY <1>1, <1>2, <1>3 DEF Read, Conn

\* What the ID of the response's last event says of the cursor, one event on.
LEMMA ReadHolds ==
  ASSUME StreamInv, conn.live, conn.at < Events, NEW i, i = conn.at + 1
  PROVE  /\ Read(i).last <= i /\ EventId(Read(i)) \in Index \cup {NoCursor}
         /\ EventId(Read(i)) <= i
         /\ plan.byId => \A d \in Index :
              d <= i /\ log[d].mark = "own"
                => d <= EventId(Read(i))
                   \/ \E e \in Index : d < e /\ e <= i /\ log[e].mark = "cleared"
<1>1. /\ i \in Index /\ Read(i).at = i
      /\ Read(i).last = IF log[i].mark = "own" THEN i
                        ELSE IF log[i].mark = "cleared" THEN NoCursor ELSE conn.last
      /\ Read(i).identified = (conn.identified \/ Read(i).last # NoCursor)
  BY ReadIs DEF StreamInv
<1>2. /\ conn.at \in Nat /\ i \in Nat /\ conn.last \in Index \cup {NoCursor} /\ conn.last \in Nat
      /\ stream.carried \in Nat /\ stream.carried \in Index \cup {NoCursor}
      /\ conn.identified \in BOOLEAN
  BY Indices DEF StreamInv, StreamTypeOK, Conn, Stream
<1>3. conn.last <= conn.at /\ stream.carried <= conn.at
  BY DEF StreamInv, Reading
<1>4. Read(i).last <= i
  BY <1>1, <1>2, <1>3, Indices
<1>5. EventId(Read(i)) \in Index \cup {NoCursor} /\ EventId(Read(i)) <= i
  BY <1>1, <1>2, <1>3, <1>4, Indices DEF EventId
<1>6. ASSUME plan.byId, NEW d \in Index, d <= i, log[d].mark = "own"
      PROVE  d <= EventId(Read(i))
             \/ \E e \in Index : d < e /\ e <= i /\ log[e].mark = "cleared"
  <2>1. CASE log[i].mark = "own"
    BY <1>1, <1>6, <2>1, Indices DEF EventId
  <2>2. CASE log[i].mark = "cleared"
    <3>1. d # i
      BY <1>6, <2>2
    <3> QED BY <1>1, <1>6, <2>2, <3>1, Indices
  <2>3. CASE log[i].mark \notin {"own", "cleared"}
    <3>1. d # i /\ d <= conn.at
      BY <1>1, <1>2, <1>6, <2>3, Indices
    <3>2. EventId(Read(i)) = EventId(conn)
      BY <1>1, <2>3 DEF EventId
    <3>3. d <= EventId(conn) \/ \E e \in Index : d < e /\ e <= conn.at /\ log[e].mark = "cleared"
      BY <1>6, <3>1 DEF StreamInv, Reading
    <3> QED BY <1>2, <3>2, <3>3, Indices
  <2> QED BY <2>1, <2>2, <2>3
<1> QED BY <1>4, <1>5, <1>6
-----------------------------------------------------------------------------
LEMMA StreamStepKeeps ==
  ASSUME StreamInv, Step
  PROVE  StreamInv'
<1>1. /\ stream.state = "open" /\ doing' = "reading"
      /\ UNCHANGED <<plan, log, stream, conn, got, again, saved, resumes, counted>>
  BY DEF Step
<1>2. StreamTypeOK'
  BY <1>1 DEF StreamInv, StreamTypeOK
<1>3. EventId(conn)' = EventId(conn)
  BY <1>1 DEF EventId
<1> QED BY <1>1, <1>2, <1>3 DEF StreamInv, Sound, Whole, Covers, Cleared, Reading, Repeats

\* An event without data: only its ID counts.
LEMMA UnreadKeeps ==
  ASSUME StreamInv, doing = "reading", conn.at < Events, NEW i, i = conn.at + 1, ~log[i].data,
         conn' = Read(i),
         UNCHANGED <<plan, log, stream, doing, got, again, saved, resumes, counted>>
  PROVE  StreamInv'
<1>1. conn.live /\ conn.at \in Nat
  BY Indices DEF StreamInv, StreamTypeOK, Conn
<1>2. conn' \in Conn /\ conn'.at = i /\ conn'.live
  BY <1>1, ReadIs DEF StreamInv
<1>3. StreamTypeOK'
  BY <1>2 DEF StreamInv, StreamTypeOK
<1>4. EventId(conn)' = EventId(Read(i))
  BY DEF EventId
<1>5. Covers(got, i)
  <2>1. Covers(got, conn.at)
    BY <1>1 DEF StreamInv, Reading
  <2>2. \A e \in Index : e <= i /\ log[e].data => e <= conn.at
    BY <1>1, Indices
  <2> QED BY <2>1, <2>2 DEF Covers
<1>6. stream.cursor <= i /\ stream.carried <= i
  <2>1. stream.cursor <= conn.at /\ stream.carried <= conn.at
    BY <1>1 DEF StreamInv, Reading
  <2>2. stream.cursor \in Nat /\ stream.carried \in Nat
    BY Indices DEF StreamInv, StreamTypeOK, Stream
  <2> QED BY <1>1, <2>1, <2>2
<1>7. Reading'
  BY <1>1, <1>2, <1>4, <1>5, <1>6, ReadHolds DEF Reading, Covers
<1> QED BY <1>2, <1>3, <1>7 DEF StreamInv, Sound, Whole, Covers, Cleared, Repeats

\* The cursor after an event, and what it says of the events before.
LEMMA AdvancedIs ==
  ASSUME StreamInv, conn.live, conn.at < Events, NEW i, i = conn.at + 1
  PROVE  /\ Advanced(i) \in Stream /\ Advanced(i).state = stream.state
         /\ Advanced(i).carried = stream.carried /\ Advanced(i).cursor <= i
         /\ Advanced(i).cursor \in Index \cup {NoCursor}
         /\ \A d \in Index : d <= i /\ log[d].mark = "own" =>
              \/ d <= Advanced(i).cursor
              \/ \E e \in Index : d < e /\ e <= i /\ log[e].mark = "cleared"
              \/ d \in Index \ {i} /\ Advanced(i).cursor = stream.cursor
<1>1. /\ stream \in Stream /\ stream.cursor \in Index \cup {NoCursor}
      /\ stream.cursored \in BOOLEAN
  BY DEF StreamInv, StreamTypeOK, Stream
<1>2. i \in Index /\ i \in Nat /\ conn.at \in Nat
  <2>1. StreamTypeOK
    BY DEF StreamInv
  <2>2. conn.at \in Nat
    BY <2>1, Indices DEF StreamTypeOK, Conn
  <2> QED BY <2>1, <2>2, ReadIs, Indices
<1>3. stream.cursor <= conn.at /\ stream.cursor \in Nat
  BY <1>1, Indices DEF StreamInv, Reading
<1>4. CASE plan.byId
  <2>1. Advanced(i) = [stream EXCEPT !.cursor = EventId(Read(i)),
                                     !.cursored = @ \/ EventId(Read(i)) # NoCursor]
    BY <1>4 DEF Advanced
  <2>2. (stream.cursored \/ EventId(Read(i)) # NoCursor) \in BOOLEAN
    BY <1>1
  <2>3. EventId(Read(i)) \in Index \cup {NoCursor} /\ EventId(Read(i)) <= i
    BY ReadHolds
  <2>4. /\ Advanced(i) \in Stream /\ Advanced(i).state = stream.state
        /\ Advanced(i).carried = stream.carried /\ Advanced(i).cursor = EventId(Read(i))
    BY <1>1, <2>1, <2>2, <2>3 DEF Stream
  <2> QED BY <1>4, <2>3, <2>4, ReadHolds
<1>5. CASE ~plan.byId
  <2>1. CASE log[i].mark = "own"
    <3>1. Advanced(i) = [stream EXCEPT !.cursor = i, !.cursored = TRUE]
      BY <1>5, <2>1 DEF Advanced
    <3>2. /\ Advanced(i) \in Stream /\ Advanced(i).cursor = i
          /\ Advanced(i).state = stream.state /\ Advanced(i).carried = stream.carried
      BY <1>1, <1>2, <3>1 DEF Stream
    <3> QED BY <1>2, <3>2
  <2>2. CASE log[i].mark = "cleared"
    <3>1. Advanced(i) = [stream EXCEPT !.cursor = NoCursor]
      BY <1>5, <2>2 DEF Advanced
    <3>2. Advanced(i) \in Stream /\ Advanced(i).cursor = NoCursor
      BY <1>1, <3>1 DEF Stream
    <3>3. \A d \in Index : d <= i /\ log[d].mark = "own" => d < i
      BY <1>2, <2>2, Indices
    <3> QED BY <1>1, <1>2, <2>2, <3>1, <3>2, <3>3, Indices DEF Stream
  <2>3. CASE log[i].mark \notin {"own", "cleared"}
    <3>1. Advanced(i) = stream
      BY <1>5, <2>3 DEF Advanced
    <3>2. \A d \in Index : log[d].mark = "own" => d # i
      BY <2>3
    <3> QED BY <1>1, <1>2, <1>3, <3>1, <3>2
  <2> QED BY <2>1, <2>2, <2>3
<1> QED BY <1>4, <1>5

\* An event delivered: everything before it was, and it comes again only when the cursor that
\* an event gave was cleared.
LEMMA DeliverKeeps ==
  ASSUME StreamInv, doing = "reading", conn.at < Events, NEW i, i = conn.at + 1, Deliver(i),
         UNCHANGED <<plan, log, saved, resumes, counted>>
  PROVE  StreamInv'
<1>1. conn.live /\ conn.at \in Nat /\ i \in Index /\ i \in Nat
  BY ReadIs, Indices DEF StreamInv, StreamTypeOK, Conn
<1>2. /\ stream' = Advanced(i) /\ conn' = Read(i) /\ got' = got \cup {i} /\ doing' = "none"
      /\ again' = IF i \in got THEN again \cup {i} ELSE again
  BY DEF Deliver
<1>3. /\ stream' \in Stream /\ stream'.carried = stream.carried /\ stream'.cursor <= i
      /\ stream'.cursor \in Nat /\ stream.cursor \in Nat /\ stream.carried \in Nat
  BY <1>1, <1>2, AdvancedIs, Indices DEF StreamInv, StreamTypeOK, Stream
<1>4. conn' \in Conn /\ conn'.at = i /\ conn'.live
  BY <1>1, <1>2, ReadIs DEF StreamInv
<1>5. got \subseteq Index /\ again \subseteq got
  BY DEF StreamInv, StreamTypeOK, Repeats
<1>6. StreamTypeOK'
  BY <1>1, <1>2, <1>3, <1>4, <1>5 DEF StreamInv, StreamTypeOK
<1>7. Covers(got, conn.at) /\ stream.cursor <= conn.at /\ stream.carried <= conn.at
  BY <1>1 DEF StreamInv, Reading
<1>8. Covers(got', i)
  <2>1. \A e \in Index : e <= i => e = i \/ e <= conn.at
    BY <1>1, Indices
  <2> QED BY <1>2, <1>7, <2>1 DEF Covers
<1>9. Whole(got')
  <2>1. \A e \in Index : e < i => e <= conn.at
    BY <1>1, Indices
  <2>2. Whole(got)
    BY DEF StreamInv, Sound
  <2> QED BY <1>2, <1>7, <2>1, <2>2 DEF Covers, Whole
<1>10. \A d \in got : Cleared(got, d) => Cleared(got', d)
  BY <1>2 DEF Cleared
<1>11. \A d \in got : log[d].mark = "own" => d <= stream.cursor \/ Cleared(got, d)
  BY DEF StreamInv, Sound
<1>12. ASSUME NEW d \in got', log[d].mark = "own"
       PROVE  d <= stream'.cursor \/ Cleared(got', d)
  <2>1. d \in Index /\ d \in Nat
    BY <1>1, <1>2, <1>5, Indices
  <2>2. CASE d <= i
    <3>1. CASE \E e \in Index : d < e /\ e <= i /\ log[e].mark = "cleared"
      BY <1>2, <3>1 DEF Cleared
    <3>2. CASE d # i /\ stream'.cursor = stream.cursor
      BY <1>2, <1>10, <1>11, <1>12, <3>2
    <3> QED BY <1>1, <1>2, <1>12, <2>1, <2>2, <3>1, <3>2, AdvancedIs
  <2>3. CASE ~(d <= i)
    <3>1. d \in got /\ ~(d <= stream.cursor)
      BY <1>1, <1>2, <1>3, <1>7, <2>1, <2>3
    <3> QED BY <1>10, <1>11, <1>12, <3>1
  <2> QED BY <2>2, <2>3
<1>13. Covers(got', stream'.cursor)
  BY <1>1, <1>3, <1>8, Indices DEF Covers
<1>14. Sound(got, stream.cursor)'
  <2>1. Sound(got', stream'.cursor)
    BY <1>9, <1>12, <1>13 DEF Sound
  <2> QED BY <2>1 DEF Sound, Whole, Covers, Cleared
<1>15. Reading'
  <2>1. EventId(conn)' = EventId(Read(i))
    BY <1>2, <1>3 DEF EventId
  <2>2. stream'.carried <= i
    BY <1>1, <1>3, <1>7
  <2> QED BY <1>1, <1>2, <1>3, <1>4, <1>8, <2>1, <2>2, ReadHolds DEF Reading, Covers
<1>16. Repeats'
  <2>1. i \in got /\ log[i].mark = "own" => Cleared(got, i)
    BY <1>1, <1>3, <1>7, <1>11
  <2>2. \A d \in again : log[d].mark = "own" => Cleared(got, d)
    BY DEF StreamInv, Repeats
  <2>3. \A d \in again' : d \in got' /\ (log[d].mark = "own" => Cleared(got', d))
    BY <1>2, <1>5, <1>10, <2>1, <2>2
  <2> QED BY <2>3 DEF Repeats, Cleared
<1> QED BY <1>2, <1>4, <1>6, <1>14, <1>15, <1>16, SavedKeeps DEF StreamInv

LEMMA ReceiveKeeps ==
  ASSUME StreamInv, Receive
  PROVE  StreamInv'
<1> DEFINE i == conn.at + 1
<1>1. /\ doing = "reading" /\ conn.at < Events
      /\ UNCHANGED <<plan, log, saved, resumes, counted>>
  BY DEF Receive
<1>2. CASE ~log[i].data /\ conn' = Read(i) /\ UNCHANGED <<stream, doing, got, again>>
  BY <1>1, <1>2, UnreadKeeps
<1>3. CASE Deliver(i)
  BY <1>1, <1>3, DeliverKeeps
<1>4. CASE /\ stream' = Refused(i) /\ conn' = Released /\ doing' = "none"
           /\ UNCHANGED <<got, again>>
  <2>1. stream \in Stream /\ conn \in Conn /\ counted \in Nat
    BY DEF StreamInv, StreamTypeOK
  <2>2. stream' \in Stream /\ stream'.cursor = stream.cursor /\ stream'.state = "failed"
    BY <1>4, <2>1 DEF Refused, Stream
  <2>3. conn' \in Conn /\ ~conn'.live
    BY <1>4, <2>1 DEF Released, Conn
  <2> QED BY <1>1, <1>4, <2>1, <2>2, <2>3, OverKeeps
<1> QED BY <1>2, <1>3, <1>4 DEF Receive

\* The stream ends, breaks, is interrupted or is closed.
LEMMA StopKeeps ==
  ASSUME StreamInv, Finish \/ Cut \/ InterruptStep \/ CloseStream
  PROVE  StreamInv'
<1>1. /\ stream \in Stream /\ conn \in Conn /\ counted \in Nat
      /\ doing \in {"none", "reading", "waiting"}
  BY DEF StreamInv, StreamTypeOK
<1>2. conn' = Released /\ UNCHANGED <<plan, log, got, again, saved, resumes, counted>>
  BY DEF Finish, Cut, InterruptStep, CloseStream, Break
<1>3. conn' \in Conn /\ ~conn'.live
  BY <1>1, <1>2 DEF Released, Conn
<1>4. \/ \E state \in {"ended", "failed", "closed"} : stream' = [stream EXCEPT !.state = state]
      \/ \E cause \in {"read", "other", "idle", "eof"} :
           stream' = [stream EXCEPT !.state = "failed", !.cause = cause]
  BY DEF Finish, Cut, InterruptStep, CloseStream, Break
<1>5. stream' \in Stream /\ stream'.cursor = stream.cursor /\ stream'.state # "open"
  BY <1>1, <1>4 DEF Stream
<1>6. doing' \in {"none", "waiting"}
  BY <1>1 DEF Finish, Cut, InterruptStep, CloseStream, Break
<1>7. doing' = "waiting" => stream'.reconnects < MaxReconnects
  <2>1. doing' = "waiting" => stream.reconnects < MaxReconnects
    BY <1>1 DEF Finish, Cut, InterruptStep, CloseStream, Break, MayReconnect
  <2>2. stream'.reconnects = stream.reconnects
    BY <1>1, <1>4 DEF Stream
  <2> QED BY <2>1, <2>2
<1> QED BY <1>1, <1>2, <1>3, <1>5, <1>6, <1>7, OverKeeps

LEMMA CarriedType ==
  ASSUME NEW c \in Index \cup {NoCursor}
  PROVE  Carried(c) \in Index \cup {NoCursor} /\ Reply(c) \in Conn
<1>1. c \in 0..Events
  BY Indices DEF Index
<1> QED BY <1>1 DEF Carried, Reply, Conn

LEMMA ReopenKeeps ==
  ASSUME StreamInv, Reopen
  PROVE  StreamInv'
<1>1. /\ UNCHANGED <<plan, log, got, again, saved, resumes>> /\ counted' = counted + 1
      /\ doing = "waiting"
  BY DEF Reopen
<1>2. stream \in Stream /\ stream.cursor \in Index \cup {NoCursor} /\ counted' \in Nat
      /\ stream.reconnects + 1 \in 0..MaxReconnects
  <2>1. stream.reconnects < MaxReconnects
    BY <1>1 DEF StreamInv
  <2> QED BY <1>1, <2>1, Indices DEF StreamInv, StreamTypeOK, Stream
<1>3. CASE /\ stream' = [stream EXCEPT !.state = "open", !.reconnects = @ + 1,
                                       !.carried = Carried(stream.cursor)]
           /\ conn' = Reply(stream.cursor) /\ doing' = "reading"
  <2>1. /\ stream' \in Stream /\ stream'.cursor = stream.cursor
        /\ stream'.carried = Carried(stream.cursor)
    BY <1>2, <1>3, CarriedType DEF Stream
  <2>2. StreamTypeOK'
    BY <1>1, <1>2, <1>3, <2>1, CarriedType DEF StreamInv, StreamTypeOK
  <2> QED BY <1>1, <1>2, <1>3, <2>1, <2>2, ReplyKeeps DEF StreamInv, StreamTypeOK, Repeats
<1>4. CASE \E state \in {"failed", "ended"} :
             /\ stream' = [stream EXCEPT !.state = state, !.reconnects = @ + 1]
             /\ doing' = "none" /\ UNCHANGED conn
  <2>1. /\ stream' \in Stream /\ stream'.cursor = stream.cursor /\ stream'.state # "open"
        /\ stream'.carried = stream.carried
    BY <1>2, <1>4 DEF Stream
  <2>2. conn' \in Conn
    BY <1>4 DEF StreamInv, StreamTypeOK
  <2> QED BY <1>1, <1>2, <1>4, <2>1, <2>2, OverKeeps
<1> QED BY <1>3, <1>4 DEF Reopen

LEMMA CheckpointKeeps ==
  ASSUME StreamInv, Checkpoint
  PROVE  StreamInv'
<1>1. /\ saved' = [some |-> TRUE, cursor |-> stream.cursor, got |-> got]
      /\ UNCHANGED <<plan, log, stream, doing, conn, got, again, resumes, counted>>
  BY DEF Checkpoint
<1>2. stream.cursor \in Index \cup {NoCursor} /\ got \subseteq Index
  BY DEF StreamInv, StreamTypeOK, Stream
<1>3. StreamTypeOK'
  BY <1>1, <1>2 DEF StreamInv, StreamTypeOK, Saved
<1>4. Sound(got, stream.cursor)' /\ Sound(saved.got, saved.cursor)'
  BY <1>1 DEF StreamInv, Sound, Whole, Covers, Cleared
<1>5. EventId(conn)' = EventId(conn)
  BY <1>1 DEF EventId
<1> QED BY <1>1, <1>3, <1>4, <1>5 DEF StreamInv, Covers, Cleared, Reading, Repeats

LEMMA ResumeKeeps ==
  ASSUME StreamInv, Resume
  PROVE  StreamInv'
<1>1. /\ stream' = [state |-> "open", cursor |-> saved.cursor, cursored |-> TRUE,
                    carried |-> Carried(saved.cursor), reconnects |-> 0, cause |-> "none"]
      /\ conn' = Reply(saved.cursor) /\ doing' = "none" /\ got' = saved.got /\ again' = {}
      /\ resumes' = resumes + 1 /\ resumes < MaxResumes
      /\ UNCHANGED <<plan, log, saved, counted>>
  BY DEF Resume
<1>2. saved.cursor \in Index \cup {NoCursor} /\ saved.got \in SUBSET Index
  BY DEF StreamInv, StreamTypeOK, Saved
<1>3. resumes' \in 0..MaxResumes
  BY <1>1, StreamsAssumption DEF StreamInv, StreamTypeOK
<1>4. stream' \in Stream
  BY <1>1, <1>2, CarriedType, Indices DEF Stream
<1>5. StreamTypeOK'
  BY <1>1, <1>2, <1>3, <1>4, CarriedType DEF StreamInv, StreamTypeOK
<1> QED BY <1>1, <1>2, <1>5, ReplyKeeps DEF StreamInv

LEMMA StreamStutterKeeps ==
  ASSUME StreamInv, UNCHANGED streamVars
  PROVE  StreamInv'
<1>1. UNCHANGED <<plan, log, stream, doing, conn, got, again, saved, resumes, counted>>
  BY DEF streamVars
<1>2. EventId(conn)' = EventId(conn)
  BY <1>1 DEF EventId
<1>3. StreamTypeOK'
  BY <1>1 DEF StreamInv, StreamTypeOK
<1> QED BY <1>1, <1>2, <1>3 DEF StreamInv, Sound, Whole, Covers, Cleared, Reading, Repeats
-----------------------------------------------------------------------------
LEMMA StreamInitSound ==
  ASSUME StreamInit
  PROVE  StreamInv
<1>1. stream \in Stream /\ conn \in Conn
  BY Indices, CarriedType DEF StreamInit, Stream
<1>2. plan \in Plan /\ log \in [Index -> Event] /\ saved \in Saved
  BY DEF StreamInit, Saved
<1>3. StreamTypeOK
  BY <1>1, <1>2, StreamsAssumption DEF StreamInit, StreamTypeOK
<1>4. Sound(got, stream.cursor) /\ Sound(saved.got, saved.cursor) /\ Covers(got, conn.at)
  BY Indices DEF StreamInit, Sound, Whole, Covers, Reply, Index
<1>5. Reading
  <2>1. \A d \in Index : ~(d <= conn.at)
    BY Indices DEF StreamInit, Reply, Index
  <2>2. /\ conn.last = NoCursor /\ stream.carried = NoCursor /\ stream.cursor = NoCursor
        /\ conn.at = NoCursor
    BY DEF StreamInit, Reply
  <2> QED BY <1>4, <2>1, <2>2, Indices DEF Reading
<1> QED BY <1>3, <1>4, <1>5 DEF StreamInv, StreamInit, Repeats, Reply

LEMMA NextKeeps ==
  ASSUME StreamInv, [StreamNext]_streamVars
  PROVE  StreamInv'
BY StreamStepKeeps, ReceiveKeeps, StopKeeps, ReopenKeeps, CheckpointKeeps, ResumeKeeps, StreamStutterKeeps
   DEF StreamNext

LEMMA StreamInvariantHolds == StreamSpec => []StreamInv
<1>1. StreamInit => StreamInv
  BY StreamInitSound
<1>2. StreamInv /\ [StreamNext]_streamVars => StreamInv'
  BY NextKeeps
<1> QED BY <1>1, <1>2, PTL DEF StreamSpec

\* The handle's counts and cursor stay within what its plan and limits allow.
THEOREM StreamTypeCorrect == StreamSpec => []StreamTypeOK
<1>1. StreamInv => StreamTypeOK
  BY DEF StreamInv
<1> QED BY <1>1, StreamInvariantHolds, PTL

\* At-least-once delivery: no event is passed over, over any number of events, reconnections,
\* checkpoints and resumes (_advance, _carry, _reopen, resume_events).
THEOREM DeliveredAtLeastOnce == StreamSpec => []NoneSkipped
<1>1. StreamInv => NoneSkipped
  BY DEF StreamInv, Sound, Whole, NoneSkipped
<1> QED BY <1>1, StreamInvariantHolds, PTL

\* An event that gave a cursor comes again in a session only after a later one cleared it.
THEOREM RepeatsFollowCursor == StreamSpec => []RepeatedAfterCursor
<1>1. StreamInv => RepeatedAfterCursor
  BY DEF StreamInv, Repeats, Cleared, RepeatedAfterCursor
<1> QED BY <1>1, StreamInvariantHolds, PTL

\* The reconnections counted so far: those of the stream at hand, and at most a limit's worth of
\* each stream before it.
Spent == counted <= MaxReconnects * resumes + stream.reconnects

\* The limit on reconnections is one for each stream opened or resumed, and not one for all of
\* them (_reopen counts in the handle, resume starts a handle of its own): the run of
\* StreamsCounted.cfg shows that more are made in all, and this that no more than so many are.
THEOREM ReconnectsBounded == StreamSpec => [](counted <= MaxReconnects * (resumes + 1))
<1>1. StreamInit => Spent
  BY StreamsAssumption DEF StreamInit, Spent
<1>2. StreamInv /\ Spent /\ [StreamNext]_streamVars => Spent'
  <2> SUFFICES ASSUME StreamInv, Spent, [StreamNext]_streamVars PROVE Spent'
    OBVIOUS
  <2>1. /\ counted \in Nat /\ resumes \in Nat /\ stream \in Stream
        /\ stream.reconnects \in 0..MaxReconnects /\ MaxReconnects \in Nat
    BY StreamsAssumption DEF StreamInv, StreamTypeOK, Stream
  <2>2. CASE counted' = counted /\ resumes' = resumes /\ stream'.reconnects = stream.reconnects
    BY <2>2 DEF Spent
  <2>3. CASE Receive
    <3>1. /\ counted' = counted /\ resumes' = resumes
          /\ \/ stream' = stream
             \/ \E i : stream' = Advanced(i) \/ stream' = Refused(i)
      BY <2>3 DEF Receive, Deliver
    <3>2. \A i : Advanced(i).reconnects = stream.reconnects
                 /\ Refused(i).reconnects = stream.reconnects
      BY <2>1 DEF Advanced, Refused, Stream
    <3> QED BY <2>2, <3>1, <3>2
  <2>4. CASE Reopen
    <3>1. counted' = counted + 1 /\ resumes' = resumes /\ stream'.reconnects = stream.reconnects + 1
      BY <2>1, <2>4 DEF Reopen, Stream
    <3>2. MaxReconnects * resumes \in Nat
      BY <2>1
    <3> QED BY <2>1, <3>1, <3>2 DEF Spent
  <2>5. CASE Resume
    <3>1. counted' = counted /\ resumes' = resumes + 1 /\ stream'.reconnects = 0
      BY <2>5 DEF Resume
    <3>2. MaxReconnects * (resumes + 1) = MaxReconnects * resumes + MaxReconnects
      BY <2>1
    <3>3. MaxReconnects * resumes \in Nat
      BY <2>1
    <3> QED BY <2>1, <3>1, <3>2, <3>3 DEF Spent
  <2>6. CASE Step \/ Finish \/ Cut \/ InterruptStep \/ Checkpoint \/ CloseStream
    BY <2>1, <2>2, <2>6
       DEF Step, Finish, Cut, Break, InterruptStep, Checkpoint, CloseStream, Stream
  <2> QED BY <2>2, <2>3, <2>4, <2>5, <2>6 DEF StreamNext, streamVars
<1>3. StreamInv /\ Spent => counted <= MaxReconnects * (resumes + 1)
  <2> SUFFICES ASSUME StreamInv, Spent PROVE counted <= MaxReconnects * (resumes + 1)
    OBVIOUS
  <2>1. /\ counted \in Nat /\ resumes \in Nat /\ MaxReconnects \in Nat
        /\ stream.reconnects \in 0..MaxReconnects
    BY StreamsAssumption DEF StreamInv, StreamTypeOK, Stream
  <2>2. /\ MaxReconnects * (resumes + 1) = MaxReconnects * resumes + MaxReconnects
        /\ MaxReconnects * resumes \in Nat
    BY <2>1
  <2> QED BY <2>1, <2>2 DEF Spent
<1> QED BY <1>1, <1>2, <1>3, StreamInvariantHolds, PTL DEF StreamSpec
=============================================================================
