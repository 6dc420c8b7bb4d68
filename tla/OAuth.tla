-------------------------------- MODULE OAuth --------------------------------
(***************************************************************************)
(* A refresh token provider that calls share (_runtime/client/oauth.py),   *)
(* and the calls that place its token on their requests (auth.py).  Tokens *)
(* are numbered in the order the authorization server issues them; one     *)
(* number names a token set's access token, and, when the server rotates,  *)
(* its refresh token.  Calls run in threads, or in tasks of an event loop, *)
(* and each event loop has a lock of its own.                              *)
(***************************************************************************)
EXTENDS Integers, Sequences

CONSTANTS
  Callers,    \* threads and tasks that call through the provider
  Locks,      \* the threads' lock and one for each event loop
  LockOf,     \* the lock each caller renews under
  Lifetime,   \* how long a token lasts (expires_in)
  Margin,     \* how long before its expiry a token is due (refresh_margin)
  MaxTime,    \* bound: the clock
  MaxGrants,  \* bound: token sets the server issues
  MaxCalls    \* bound: calls of one caller

Nobody == "nobody"

ASSUME OAuthAssumption ==
  /\ LockOf \in [Callers -> Locks] /\ Nobody \notin Callers
  /\ Lifetime \in Nat \ {0} /\ Margin \in 0..Lifetime
  /\ MaxTime \in Nat /\ MaxGrants \in Nat /\ MaxCalls \in Nat

(* What the documentation asks of a provider's users: one event loop, or threads only. *)
OneLock == \A c, d \in Callers : LockOf[c] = LockOf[d]

None     == -1
Tokens   == 0..MaxGrants
Expiries == 0..(MaxTime + Lifetime) \cup {None}

VARIABLES
  now,       \* the monotonic clock
  held,      \* _held: the access token served, when it is due and expires
  refresh,   \* _tokens.refresh_token, if it has one
  holder,    \* who holds each lock
  caller,    \* each caller's place in its call
  issued,    \* the server: the last token set it issued
  valid,     \* the server: the refresh token it accepts
  adopted,   \* history: the token sets made current, in order
  notified,  \* history: the token sets handed to on_token_refreshed, in order
  renewed    \* history: the rejected token each adopted set was to replace

server  == <<issued, valid>>
history == <<adopted, notified, renewed>>
vars    == <<now, held, refresh, holder, caller, server, history>>

Held   == [value: Tokens, due: Expiries, expires: Expiries]
Places == {"idle", "want", "await", "notify", "send", "sent"}

Caller ==
  [at:    Places,
   calls: 0..MaxCalls,
   sends: 0..2,                    \* how often the call's request was sent
   value: Tokens \cup {None},      \* the token it was sent with, or is to be
   stale: Tokens \cup {None},      \* the token the resource rejected
   form:  Tokens \cup {None},      \* the refresh token of the request under way
   reply: [is: {"none", "refused", "granted"}, access: Tokens, refresh: Tokens \cup {None}]]

NoReply == [is |-> "none", access |-> 0, refresh |-> None]
Idle == [at |-> "idle", calls |-> 0, sends |-> 0, value |-> None, stale |-> None,
         form |-> None, reply |-> NoReply]

TypeOK ==
  /\ now \in 0..MaxTime
  /\ held \in Held /\ refresh \in Tokens \cup {None}
  /\ holder \in [Locks -> Callers \cup {Nobody}]
  /\ caller \in [Callers -> Caller]
  /\ issued \in Tokens /\ valid \in Tokens
  /\ adopted \in Seq(Tokens) /\ notified \in Seq(Tokens)
  /\ renewed \in Seq(Tokens \cup {None})

-----------------------------------------------------------------------------
(* What the held token is good for. *)

Before(time) == time = None \/ now < time

(* Mutant: a caller whose token was rejected renews whatever is held. *)
RenewAlways(stale) ==
  IF stale # None THEN None ELSE IF Before(held.due) THEN held.value ELSE None

(* _usable: a replacement of the rejected token, or a token not yet due. *)
Usable(stale) ==
  IF stale # None THEN IF held.value # stale THEN held.value ELSE None
  ELSE IF Before(held.due) THEN held.value ELSE None

(* _kept: a failed early renewal leaves an unexpired token in use. *)
Kept(stale) ==
  IF stale = None /\ held.expires # None /\ now < held.expires THEN held.value ELSE None

(* _hold, of a token that a request can renew *)
HoldOf(token, expires) ==
  [value |-> token, expires |-> expires,
   due   |-> IF expires = None THEN None ELSE expires - Margin]

Free(c) == holder' = [holder EXCEPT ![LockOf[c]] = Nobody]

To(c, place) == caller' = [caller EXCEPT ![c].at = place]

(* The call is over, answered or with an error. *)
Over(c) == caller' = [caller EXCEPT ![c] = [Idle EXCEPT !.calls = caller[c].calls]]

Serve(c, token) ==
  caller' = [caller EXCEPT ![c].at = "send", ![c].value = token,
                           ![c].form = None, ![c].reply = NoReply]

-----------------------------------------------------------------------------
(* SchemeAuth's flow. *)

Call(c) ==
  /\ caller[c].at = "idle" /\ caller[c].calls < MaxCalls
  /\ caller' = [caller EXCEPT ![c].at = "want", ![c].calls = @ + 1]
  /\ UNCHANGED <<now, held, refresh, holder, server, history>>

Send(c) ==
  /\ caller[c].at = "send"
  /\ caller' = [caller EXCEPT ![c].at = "sent", ![c].sends = @ + 1]
  /\ UNCHANGED <<now, held, refresh, holder, server, history>>

Answered(c) ==
  /\ caller[c].at = "sent" /\ Over(c)
  /\ UNCHANGED <<now, held, refresh, holder, server, history>>

(* A 401 that rejects the token, of a request that can be sent again. *)
Rejected(c) ==
  /\ caller[c].at = "sent" /\ caller[c].sends = 1
  /\ caller' = [caller EXCEPT ![c].at = "want", ![c].stale = caller[c].value]
  /\ UNCHANGED <<now, held, refresh, holder, server, history>>

-----------------------------------------------------------------------------
(* _Provider.token and atoken, and the authorization server. *)

Locked(c) == holder[LockOf[c]] = c

(* The lock is free, and the held token can be used. *)
Use(c) ==
  /\ caller[c].at = "want" /\ holder[LockOf[c]] = Nobody
  /\ Usable(caller[c].stale) # None
  /\ Serve(c, Usable(caller[c].stale))
  /\ UNCHANGED <<now, held, refresh, holder, server, history>>

(* Mutant: the held token is looked at, and the request made, before the lock. *)
RequestUnlocked(c) ==
  /\ caller[c].at = "want" /\ Usable(caller[c].stale) = None
  /\ caller' = [caller EXCEPT ![c].at = "await", ![c].form = refresh]
  /\ holder' = [holder EXCEPT ![LockOf[c]] = IF @ = Nobody THEN c ELSE @]
  /\ UNCHANGED <<now, held, refresh, server, history>>

(* The lock is free, and a request of the current refresh token is sent under it; *)
(* without one there is no request, and the renewal fails.                        *)
Request(c) ==
  /\ caller[c].at = "want" /\ holder[LockOf[c]] = Nobody
  /\ Usable(caller[c].stale) = None
  /\ holder' = [holder EXCEPT ![LockOf[c]] = c]
  /\ caller' = [caller EXCEPT ![c].at = "await", ![c].form = refresh]
  /\ UNCHANGED <<now, held, refresh, server, history>>

(* The server issues a token set, with or without a refresh token that replaces the one sent. *)
Grant(c) ==
  /\ caller[c].at = "await" /\ caller[c].reply.is = "none"
  /\ caller[c].form = valid /\ issued < MaxGrants
  /\ issued' = issued + 1
  /\ \E rotated \in {None, issued + 1} :
       /\ valid' = IF rotated = None THEN valid ELSE rotated
       /\ caller' = [caller EXCEPT ![c].reply =
                       [is |-> "granted", access |-> issued + 1, refresh |-> rotated]]
  /\ UNCHANGED <<now, held, refresh, holder, history>>

(* invalid_grant, of a refresh token that was replaced, or revoked *)
Refuse(c) ==
  /\ caller[c].at = "await" /\ caller[c].reply.is = "none"
  /\ caller' = [caller EXCEPT ![c].reply.is = "refused"]
  /\ UNCHANGED <<now, held, refresh, holder, server, history>>

(* Mutant: the lock is released before the callback is called. *)
AdoptReleasing(c) ==
  /\ caller[c].at = "await" /\ caller[c].reply.is = "granted"
  /\ \E expires \in {None, now + Lifetime} :
       held' = HoldOf(caller[c].reply.access, expires)
  /\ refresh' = IF caller[c].reply.refresh = None THEN refresh ELSE caller[c].reply.refresh
  /\ adopted' = Append(adopted, caller[c].reply.access)
  /\ renewed' = Append(renewed, caller[c].stale)
  /\ To(c, "notify") /\ Free(c)
  /\ UNCHANGED <<now, server, notified>>

(* _adopt: the token set of a usable answer is current before the callback sees it. *)
Adopt(c) ==
  /\ caller[c].at = "await" /\ caller[c].reply.is = "granted"
  /\ \E expires \in {None, now + Lifetime} :
       held' = HoldOf(caller[c].reply.access, expires)
  /\ refresh' = IF caller[c].reply.refresh = None THEN refresh ELSE caller[c].reply.refresh
  /\ adopted' = Append(adopted, caller[c].reply.access)
  /\ renewed' = Append(renewed, caller[c].stale)
  /\ To(c, "notify")
  /\ UNCHANGED <<now, holder, server, notified>>

(* A refusal, a lost or unusable answer, or a failure in transport: the held token is *)
(* kept while it lasts, unless it was rejected.                                       *)
Fail(c) ==
  /\ caller[c].at = "await"
  /\ Free(c)
  /\ IF Kept(caller[c].stale) = None THEN Over(c) ELSE Serve(c, Kept(caller[c].stale))
  /\ UNCHANGED <<now, held, refresh, server, history>>

(* A task is cancelled, or a thread interrupted, while it waits for the lock or an answer. *)
Interrupt(c) ==
  /\ caller[c].at \in {"want", "await"}
  /\ IF Locked(c) THEN Free(c) ELSE UNCHANGED holder
  /\ Over(c)
  /\ UNCHANGED <<now, held, refresh, server, history>>

(* Mutant: an exception of the callback leaves the lock taken. *)
NotifyKeeping(c) ==
  /\ caller[c].at = "notify"
  /\ notified' = Append(notified, caller[c].reply.access)
  /\ \/ Serve(c, caller[c].reply.access) /\ Free(c)
     \/ Over(c) /\ UNCHANGED holder
  /\ UNCHANGED <<now, held, refresh, server, adopted, renewed>>

(* _notify: the callback is called, returns or raises, and the lock is released. *)
Notify(c) ==
  /\ caller[c].at = "notify"
  /\ notified' = Append(notified, caller[c].reply.access)
  /\ Serve(c, caller[c].reply.access) \/ Over(c)
  /\ Free(c)
  /\ UNCHANGED <<now, held, refresh, server, adopted, renewed>>

Tick ==
  /\ now < MaxTime /\ now' = now + 1
  /\ UNCHANGED <<held, refresh, holder, caller, server, history>>

-----------------------------------------------------------------------------

(* RefreshToken.__init__: a token set with or without an expiry, due or not, and with or *)
(* without a refresh token; one that cannot be renewed is due only when it expires.      *)
Init ==
  /\ now = 0
  /\ refresh \in {0, None}
  /\ \E expires \in {None, Margin, Lifetime} :
       held = IF refresh = None THEN [value |-> 0, due |-> expires, expires |-> expires]
              ELSE HoldOf(0, expires)
  /\ holder = [l \in Locks |-> Nobody]
  /\ caller = [c \in Callers |-> Idle]
  /\ issued = 0 /\ valid = 0
  /\ adopted = <<>> /\ notified = <<>> /\ renewed = <<>>

Flow(c)   == Send(c) \/ Answered(c) \/ Rejected(c)
Renew(c)  == Use(c) \/ Request(c) \/ Adopt(c) \/ Fail(c) \/ Notify(c)
Authorize(c) == Grant(c) \/ Refuse(c)

Next ==
  \/ Tick
  \/ \E c \in Callers : Call(c) \/ Flow(c) \/ Renew(c) \/ Authorize(c) \/ Interrupt(c)

Spec == Init /\ [][Next]_vars

(* A request is answered or times out, and a thread that can go on does. *)
FairSpec == Spec /\ \A c \in Callers : WF_vars(Flow(c)) /\ WF_vars(Renew(c))

-----------------------------------------------------------------------------
(* Properties, of a provider used from one event loop, or from threads only. *)

(* A refresh token is never sent once an answer has replaced it: no request under *)
(* way was made from a token set that is no longer current (the lock is held from *)
(* the look at the held token to the adoption of the answer).                     *)
NoReplacedSent ==
  \A c \in Callers : caller[c].at = "await" => caller[c].form = refresh

(* A rejected token is replaced once, however many calls it was rejected for, and *)
(* a call whose token was rejected is sent again only with one issued later.      *)
ReplacedOnce ==
  /\ \A i, j \in 1..Len(renewed) : renewed[i] # None /\ renewed[i] = renewed[j] => i = j
  /\ \A c \in Callers :
       caller[c].at \in {"send", "sent"} /\ caller[c].stale # None
         => caller[c].value > caller[c].stale

(* The callback is given each token set that was made current, in the order they *)
(* were, and the last of them is the one in use whenever the lock is free.       *)
SavedInOrder ==
  /\ Len(notified) \in {Len(adopted), Len(adopted) - 1}
  /\ notified = SubSeq(adopted, 1, Len(notified))
  /\ (\A l \in Locks : holder[l] = Nobody) => adopted = notified

(* Every call ends, whatever the server, the callback and other calls do. *)
CallsEnd == \A c \in Callers : caller[c].at # "idle" ~> caller[c].at = "idle"
=============================================================================
