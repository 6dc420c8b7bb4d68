------------------------------ MODULE ClientCall ------------------------------
(***************************************************************************)
(* One logical call (_runtime/client: client.py, logical.py, retry.py):    *)
(* attempts sent through the native client, which follows redirects and    *)
(* answers an Auth's challenge inside one send, and waits between them,    *)
(* under one deadline.  The network may refuse, lose or answer each send,  *)
(* and the server may execute what reaches it, whoever hears the answer.   *)
(***************************************************************************)
EXTENDS Integers

CONSTANTS
  MaxRetries,     \* max_retries
  InitialDelay,   \* the first backoff cap
  MaxDelay,       \* the last
  MaxRetryAfter,  \* the longest delay accepted from a server
  ServerDelays,   \* the delays a server may ask for
  Total,          \* total_timeout, when the call has one
  MaxTime,        \* bound: the clock
  MaxHops         \* bound: redirects followed in one send

ASSUME CallAssumption ==
  /\ MaxRetries \in Nat /\ InitialDelay \in Nat /\ MaxDelay \in Nat
  /\ InitialDelay <= MaxDelay
  /\ MaxRetryAfter \in Nat /\ ServerDelays \subseteq Nat
  /\ Total \in Nat /\ MaxTime \in Nat /\ MaxHops \in Nat

VARIABLES
  now,       \* the monotonic clock
  policy,    \* what the call may do, fixed when it is made
  call,      \* the call's record
  native,    \* the native send under way
  executed,  \* the server: how often the request was executed
  reached,   \* the server: whether it was reached, and by more than a rejected token
  asked      \* the server: until when it asked not to be sent to again

vars == <<now, policy, call, native, executed, reached, asked>>

None == -1

Policy ==
  [safe:       BOOLEAN,   \* replay_safe: by method, declaration or idempotency key
   never:      BOOLEAN,   \* retry_safety = "never"
   replayable: BOOLEAN,   \* the body can be sent again
   pool:       BOOLEAN,   \* retry_on_pool_timeout
   heeds:      BOOLEAN,   \* respect_retry_after
   deadline:   BOOLEAN]   \* there is a total_timeout

Deliveries == {"unsent", "maybe", "answered"}

Reach(d) == IF d = "unsent" THEN 0 ELSE IF d = "maybe" THEN 1 ELSE 2

Reasons == {"none", "connect", "pool", "status"}

Call ==
  [at:        {"open", "sending", "answered", "failed", "closing", "waiting", "ended"},
   attempts:  0..(1 + MaxRetries),
   delivery:  Deliveries,            \* delivery_state
   earlier:   Deliveries,            \* of earlier attempts
   blocked:   BOOLEAN,               \* retry_blocked
   cap:       0..MaxDelay \cup {None},   \* previous_cap
   kind:      {"status", "transport"},
   reason:    Reasons,               \* why the last attempt may be repeated, if it may
   hint:      {"none", "yes", "no"}, \* should_retry
   delay:     ServerDelays \cup {None},  \* the last answer's Retry-After
   received:  0..MaxTime,            \* received_at
   notBefore: Nat]

Native == [hops: 0..MaxHops, answered: BOOLEAN, challenged: BOOLEAN, done: BOOLEAN]

TypeOK ==
  /\ now \in 0..MaxTime /\ policy \in Policy /\ call \in Call /\ native \in Native
  /\ executed \in Nat /\ reached \in {"no", "challenged", "yes"} /\ asked \in Nat

-----------------------------------------------------------------------------
(* LogicalCallContext. *)

Expired == policy.deadline /\ now >= Total

Past(time) == policy.deadline /\ time >= Total

(* furthest: how far the call got over all its attempts *)
Furthest ==
  IF Reach(call.delivery) >= Reach(call.earlier) THEN call.delivery ELSE call.earlier

End == call' = [call EXCEPT !.at = "ended"]

(* Mutant: a new attempt forgets how far the earlier ones got. *)
NextSendForgetting == [call EXCEPT !.earlier = call.delivery, !.delivery = "unsent"]

(* next_send *)
NextSend == [call EXCEPT !.earlier = Furthest, !.delivery = "unsent"]

(* An attempt: the deadline is looked at last before the native send (admit_send). *)
Attempt ==
  /\ call.at = "open"
  /\ IF Expired
     THEN /\ call' = [NextSend EXCEPT !.at = "ended"]
          /\ UNCHANGED native
     ELSE /\ call' = [NextSend EXCEPT !.at = "sending", !.attempts = @ + 1,
                                      !.delivery = "maybe"]
          /\ native' = [hops |-> 0, answered |-> FALSE, challenged |-> FALSE, done |-> FALSE]
  /\ UNCHANGED <<now, policy, executed, reached, asked>>

(* Preparing the body or the request fails before anything is sent. *)
Unprepared ==
  /\ call.at = "open"
  /\ call' = [NextSend EXCEPT !.at = "ended"]
  /\ UNCHANGED <<now, policy, native, executed, reached, asked>>

-----------------------------------------------------------------------------
(* The native client and the server. *)

(* The server executes what reaches it, or not; a request already executed on the way *)
(* of a redirect goes on as another one.                                              *)
Reaches ==
  /\ reached' = "yes"
  /\ \/ UNCHANGED executed
     \/ ~native.done /\ executed' = executed + 1

(* A 401 executes nothing. *)
Rejects ==
  /\ reached' = IF reached = "no" THEN "challenged" ELSE reached
  /\ UNCHANGED executed

(* Mutant: a failure of a later request of the same send says nothing was sent. *)
DeliveryUnanswered(unsent) == IF unsent THEN "unsent" ELSE "maybe"

(* delivery, and _answered: a redirect of this send was answered *)
DeliveryOf(unsent) ==
  IF native.answered THEN "answered" ELSE IF unsent THEN "unsent" ELSE "maybe"

FailedSend(delivery, reason, blocked) ==
  call' = [call EXCEPT !.at = "failed", !.kind = "transport", !.reason = reason,
                       !.delivery = delivery, !.blocked = @ \/ blocked,
                       !.hint = "none", !.delay = None]

(* ConnectError, ConnectTimeout, PoolTimeout: nothing of this request was sent. *)
Unsent ==
  /\ call.at = "sending"
  /\ \E reason \in {"connect", "pool"} : FailedSend(DeliveryOf(TRUE), reason, FALSE)
  /\ UNCHANGED <<now, policy, native, executed, reached, asked>>

(* Any other failure of a send: the request may have arrived and been executed. *)
Lost ==
  /\ call.at = "sending"
  /\ FailedSend(DeliveryOf(FALSE), "none", FALSE)
  /\ Reaches \/ UNCHANGED <<executed, reached>>
  /\ UNCHANGED <<now, policy, native, asked>>

(* A request hook of the HTTP client raises, of whatever kind; one that does not name *)
(* its request is not known to have raised for a redirect's.                          *)
Hooked ==
  /\ call.at = "sending"
  /\ \E unsent, named \in BOOLEAN :
       FailedSend(IF named THEN DeliveryOf(unsent) ELSE IF unsent THEN "unsent" ELSE "maybe",
                  IF unsent THEN "connect" ELSE "none", TRUE)
  /\ UNCHANGED <<now, policy, native, executed, reached, asked>>

(* A response hook raises, of whatever kind: for an answer, a redirect's or a 401's. *)
ResponseHooked ==
  /\ call.at = "sending"
  /\ \E reason \in {"none", "connect"} : FailedSend("answered", reason, FALSE)
  /\ Reaches \/ Rejects
  /\ UNCHANGED <<now, policy, native, asked>>

Redirected ==
  /\ call.at = "sending" /\ native.hops < MaxHops
  /\ Reaches
  /\ native' = [native EXCEPT !.hops = @ + 1, !.answered = TRUE,
                              !.done = @ \/ executed' # executed]
  /\ UNCHANGED <<now, policy, call, asked>>

(* SchemeAuth's flow sends a rejected request again, once. *)
Challenged ==
  /\ call.at = "sending" /\ ~native.challenged /\ policy.replayable
  /\ native' = [native EXCEPT !.challenged = TRUE]
  /\ Rejects
  /\ UNCHANGED <<now, policy, call, asked>>

Answered ==
  /\ call.at = "sending"
  /\ Reaches
  /\ \E reason \in {"none", "status"}, hint \in {"none", "yes", "no"},
        delay \in ServerDelays \cup {None} :
       /\ call' = [call EXCEPT !.at = "answered", !.delivery = "answered", !.kind = "status",
                               !.reason = reason, !.hint = hint, !.delay = delay,
                               !.received = now]
       /\ asked' = IF delay = None THEN asked ELSE now + delay
  /\ UNCHANGED <<now, policy, native>>

-----------------------------------------------------------------------------
(* The decision: retry_stop's gates in order, then retry_delay. *)

MayRetry ==
  /\ ~call.blocked
  /\ ~(call.kind = "transport" /\ call.delivery # "unsent")
  /\ call.reason # "none" /\ (call.reason = "pool" => policy.pool)
  /\ ~policy.never /\ call.hint # "no"
  /\ call.attempts < 1 + MaxRetries
  /\ policy.replayable
  /\ \/ policy.safe
     \/ call.kind = "transport" /\ call.delivery = "unsent" /\ call.earlier = "unsent"

Cap == IF call.cap = None THEN InitialDelay
       ELSE IF call.cap * 2 < MaxDelay THEN call.cap * 2 ELSE MaxDelay

(* The delay the server asked for, when the call is to respect it *)
ServerDelay == IF policy.heeds THEN call.delay ELSE None

ServerTarget == IF ServerDelay = None THEN now ELSE call.received + ServerDelay

(* Mutant: a retry waits for its backoff alone. *)
TargetsOfBackoff ==
  IF ServerDelay # None /\ (ServerDelay > MaxRetryAfter \/ Past(ServerTarget)) THEN {}
  ELSE {t \in {now + delay : delay \in 0..Cap} : ~Past(t)}

(* retry_delay: the times a retry may wait for, none when the server asks for too much or *)
(* the deadline is too near; full jitter draws any delay below the cap.                   *)
Targets ==
  IF ServerDelay # None /\ (ServerDelay > MaxRetryAfter \/ Past(ServerTarget)) THEN {}
  ELSE {t \in {IF now + delay > ServerTarget THEN now + delay ELSE ServerTarget :
                 delay \in 0..Cap} : ~Past(t)}

Planned(next) ==
  \E target \in Targets :
    call' = [call EXCEPT !.at = next, !.cap = Cap, !.notBefore = target]

(* A status answer: repeated once its response is closed, or read and returned. *)
Decide ==
  /\ call.at = "answered"
  /\ IF ~Expired /\ MayRetry THEN Planned("closing") \/ (Targets = {} /\ End) ELSE End
  /\ UNCHANGED <<now, policy, native, executed, reached, asked>>

Recover ==
  /\ call.at = "failed"
  /\ IF ~Expired /\ MayRetry THEN Planned("waiting") \/ (Targets = {} /\ End) ELSE End
  /\ UNCHANGED <<now, policy, native, executed, reached, asked>>

(* The response is released; a failure to release it blocks the retry. *)
Close ==
  /\ call.at = "closing"
  /\ \E failed \in BOOLEAN :
       call' = [call EXCEPT !.at = IF failed \/ Expired THEN "ended" ELSE "waiting",
                            !.blocked = @ \/ failed]
  /\ UNCHANGED <<now, policy, native, executed, reached, asked>>

(* The wait ends at its time, or at the deadline, which ends the call. *)
Wake ==
  /\ call.at = "waiting" /\ (now >= call.notBefore \/ Expired)
  /\ call' = [call EXCEPT !.at = IF Expired THEN "ended" ELSE "open"]
  /\ UNCHANGED <<now, policy, native, executed, reached, asked>>

(* The caller's task is cancelled, or its thread interrupted. *)
Interrupt ==
  /\ call.at # "ended" /\ End
  /\ UNCHANGED <<now, policy, native, executed, reached, asked>>

Tick ==
  /\ now < MaxTime /\ now' = now + 1
  /\ UNCHANGED <<policy, call, native, executed, reached, asked>>

-----------------------------------------------------------------------------

Init ==
  /\ now = 0 /\ policy \in Policy
  /\ call = [at |-> "open", attempts |-> 0, delivery |-> "unsent", earlier |-> "unsent",
             blocked |-> FALSE, cap |-> None, kind |-> "status", reason |-> "none",
             hint |-> "none", delay |-> None, received |-> 0, notBefore |-> 0]
  /\ native = [hops |-> 0, answered |-> FALSE, challenged |-> FALSE, done |-> FALSE]
  /\ executed = 0 /\ reached = "no" /\ asked = 0

Flow    == Attempt \/ Unprepared \/ Decide \/ Recover \/ Close \/ Wake
Network == Unsent \/ Lost \/ Hooked \/ ResponseHooked \/ Redirected \/ Challenged \/ Answered

Next == Flow \/ Network \/ Interrupt \/ Tick

Spec == Init /\ [][Next]_vars

-----------------------------------------------------------------------------
(* Properties. *)

(* A request that is not safe to repeat is executed at most once, whatever is lost, *)
(* refused, redirected or challenged on the way (delivery, _answered, retry_stop).  *)
ExecutedOnce == ~policy.safe => executed <= 1

(* What helpers are told of how far a call got is true: a call that ends as never sent *)
(* reached no server, whichever attempt or hop was refused last, but for a token that  *)
(* was rejected; only a request hook that raises for a redirect's request, and does    *)
(* not name it, hides an answer from it (next_send, furthest, _answered).              *)
FurthestTrue ==
  call.at = "ended" /\ Furthest = "unsent" =>
    reached # "yes" \/ (call.blocked /\ native.answered)

(* What the comments of furthest and _answered say, of a rejected token too, when no *)
(* request hook raises.                                                              *)
NeverForgets ==
  call.at = "ended" /\ Furthest = "unsent" /\ ~call.blocked => reached = "no"

(* An attempt is sent again only before the deadline, after no failed release or *)
(* failing request hook, and, when the call respects Retry-After, once the delay *)
(* the server asked for has passed since its answer (retry, retry_delay).        *)
ResentInTime ==
  [][call.at = "open" /\ call'.at = "sending" =>
       /\ policy.heeds => now >= asked
       /\ ~Expired /\ ~call.blocked]_vars
=============================================================================
