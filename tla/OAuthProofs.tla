----------------------------- MODULE OAuthProofs -----------------------------
(***************************************************************************)
(* Proofs about OAuth, of a provider whose callers renew under one lock:   *)
(* its state is well typed, no request sends a refresh token that was      *)
(* replaced, a rejected token is replaced once, and what is saved follows  *)
(* what is current.  All follow from one inductive invariant, IInv.        *)
(***************************************************************************)
EXTENDS OAuth, TLAPS, SequenceTheorems

Holding(s) == s.at \in {"await", "notify"}

\* What a caller in state s relies on: the holder l of its lock, the token h in use, the
\* refresh token f, and the last token i issued.
Sound(c, s, l, h, f, i) ==
  /\ Holding(s) => l = c
  /\ s.at = "await" => s.form = f /\ (s.stale # None => s.stale = h)
  /\ s.at = "await" /\ s.reply.is = "granted" => h < s.reply.access /\ s.reply.access <= i
  /\ s.at = "notify" => s.reply.access = h /\ (s.stale # None => s.stale < h)
  /\ s.stale <= h /\ s.value <= h
  /\ s.at \in {"send", "sent"} /\ s.stale # None => s.value > s.stale
  /\ s.at # "sent" => s.sends < 2
  /\ s.reply.is = "granted" => Holding(s)

\* The tokens adopted, a, increase up to the one in use, h; each was to replace the one before it.
Log(a, r, h) ==
  /\ Len(r) = Len(a)
  /\ \A k \in 1..Len(a) : 0 < a[k] /\ a[k] <= h
  /\ \A j, k \in 1..Len(a) : j < k => a[j] < a[k]
  /\ IF Len(a) = 0 THEN h = 0 ELSE a[Len(a)] = h
  /\ \A k \in 1..Len(r) : r[k] # None => r[k] = IF k = 1 THEN 0 ELSE a[k - 1]

\* The callback lags by the token of the caller that is calling it.
Saved ==
  /\ \A c \in Callers :
       caller[c].at = "notify" => adopted = Append(notified, caller[c].reply.access)
  /\ (\A c \in Callers : caller[c].at # "notify") => adopted = notified

IInv ==
  /\ TypeOK
  /\ \A c \in Callers :
       Sound(c, caller[c], holder[LockOf[c]], held.value, refresh, issued)
  /\ Log(adopted, renewed, held.value) /\ held.value <= issued
  /\ Saved
-----------------------------------------------------------------------------
\* The lock of one caller is that of every other.
LEMMA Alone ==
  ASSUME OneLock, IInv, NEW c \in Callers, NEW d \in Callers \ {c},
         holder[LockOf[c]] \in {c, Nobody}
  PROVE  ~Holding(caller[d])
<1>1. LockOf[d] = LockOf[c] /\ d # Nobody /\ d # c
  BY OAuthAssumption DEF OneLock
<1>2. Holding(caller[d]) => holder[LockOf[d]] = d
  BY DEF IInv, Sound
<1> QED BY <1>1, <1>2

\* A caller that holds no lock relies on nothing that a step of another takes away.
LEMMA BesideSound ==
  ASSUME NEW c \in Callers, NEW s \in Caller, NEW l, NEW m, NEW f, NEW g,
         NEW h \in Tokens, NEW k \in Tokens, NEW i \in Tokens, NEW j \in Tokens,
         Sound(c, s, l, h, f, i), h <= k, ~Holding(s)
  PROVE  Sound(c, s, m, k, g, j)
BY OAuthAssumption DEF Sound, Holding, Caller, Tokens, None

\* A step of one caller that adopts nothing and calls no callback.
LEMMA Moves ==
  ASSUME OneLock, IInv, NEW c \in Callers, NEW s \in Caller,
         caller' = [caller EXCEPT ![c] = s],
         caller[c].at # "notify", s.at # "notify",
         UNCHANGED <<now, held, refresh, history>>,
         issued' \in Tokens, issued <= issued', valid' \in Tokens,
         holder' \in [Locks -> Callers \cup {Nobody}],
         holder' = holder \/ holder[LockOf[c]] \in {c, Nobody},
         Sound(c, s, holder'[LockOf[c]], held.value, refresh, issued')
  PROVE  IInv'
<1>1. caller \in [Callers -> Caller] /\ held.value \in Tokens /\ issued \in Tokens
  BY DEF IInv, TypeOK, Held
<1>2. UNCHANGED <<now, held, refresh, adopted, notified, renewed>>
  BY DEF history
<1>3. TypeOK'
  BY <1>1, <1>2 DEF IInv, TypeOK
<1>4. ASSUME NEW d \in Callers
      PROVE  Sound(d, caller'[d], holder'[LockOf[d]], held'.value, refresh', issued')
  <2>1. CASE d = c
    BY <1>1, <1>2, <2>1
  <2>2. CASE d # c /\ holder' = holder
    <3>1. caller'[d] = caller[d] /\ caller[d] \in Caller
      BY <1>1, <2>2
    <3>2. Sound(d, caller[d], holder[LockOf[d]], held.value, refresh, issued)
      BY DEF IInv
    <3> QED BY <1>1, <1>2, <2>2, <3>1, <3>2, OAuthAssumption DEF Sound, Caller, Tokens
  <2>3. CASE d # c /\ holder[LockOf[c]] \in {c, Nobody}
    <3>1. caller'[d] = caller[d] /\ caller[d] \in Caller /\ ~Holding(caller[d])
      BY <1>1, <2>3, Alone
    <3>2. Sound(d, caller[d], holder[LockOf[d]], held.value, refresh, issued)
      BY DEF IInv
    <3>3. held.value <= held.value
      BY <1>1, OAuthAssumption DEF Tokens
    <3> QED BY <1>1, <1>2, <3>1, <3>2, <3>3, BesideSound
  <2> QED BY <2>1, <2>2, <2>3
<1>5. Log(adopted, renewed, held.value)' /\ held'.value <= issued'
  BY <1>1, <1>2, OAuthAssumption DEF IInv, Log, Tokens
<1>6. Saved'
  <2>1. \A d \in Callers : caller'[d].at = "notify" <=> caller[d].at = "notify"
    BY <1>1
  <2>2. \A d \in Callers : caller'[d].at = "notify" => caller'[d] = caller[d]
    BY <1>1
  <2> QED BY <1>2, <2>1, <2>2 DEF IInv, Saved
<1> QED BY <1>3, <1>4, <1>5, <1>6 DEF IInv
-----------------------------------------------------------------------------
\* What IInv says of one caller.
LEMMA OfCaller ==
  ASSUME IInv, NEW c \in Callers
  PROVE  /\ caller \in [Callers -> Caller] /\ caller[c] \in Caller
         /\ held.value \in Tokens /\ issued \in Tokens /\ valid \in Tokens
         /\ refresh \in Tokens \cup {None}
         /\ LockOf[c] \in Locks /\ holder \in [Locks -> Callers \cup {Nobody}]
         /\ Sound(c, caller[c], holder[LockOf[c]], held.value, refresh, issued)
         /\ held.value <= issued
BY OAuthAssumption DEF IInv, TypeOK, Held

\* A step of one caller that asks the server nothing.
LEMMA Goes ==
  ASSUME OneLock, IInv, NEW c \in Callers, NEW s \in Caller,
         caller' = [caller EXCEPT ![c] = s],
         caller[c].at # "notify", s.at # "notify",
         UNCHANGED <<now, held, refresh, server, history>>,
         holder' = holder \/ holder[LockOf[c]] \in {c, Nobody},
         \E h \in Callers \cup {Nobody, holder[LockOf[c]]} :
           holder' = [holder EXCEPT ![LockOf[c]] = h],
         Sound(c, s, holder'[LockOf[c]], held.value, refresh, issued)
  PROVE  IInv'
<1>1. issued <= issued /\ UNCHANGED <<issued, valid>>
  BY OfCaller, OAuthAssumption DEF Tokens, server
<1>2. holder' \in [Locks -> Callers \cup {Nobody}]
  BY OfCaller
<1> QED BY <1>1, <1>2, OfCaller, Moves

\* A token that can be used is the one in use, and not the one rejected.
LEMMA UsableHeld ==
  ASSUME NEW x, Usable(x) # None
  PROVE  Usable(x) = held.value /\ (x # None => held.value # x)
BY DEF Usable

LEMMA CallKeeps ==
  ASSUME OneLock, IInv, NEW c \in Callers, Call(c)
  PROVE  IInv'
<1> DEFINE s == [caller[c] EXCEPT !.at = "want", !.calls = @ + 1]
<1>1. s \in Caller /\ s.at = "want" /\ caller' = [caller EXCEPT ![c] = s]
  BY OfCaller, OAuthAssumption DEF Call, Caller, Places, Tokens, None, NoReply
<1>2. holder' = [holder EXCEPT ![LockOf[c]] = holder[LockOf[c]]] /\ holder' = holder
  BY OfCaller DEF Call, Sound, Holding
<1>3. Sound(c, s, holder'[LockOf[c]], held.value, refresh, issued)
  BY <1>2, OfCaller, OAuthAssumption DEF Call, Sound, Holding, Caller, Tokens, None, NoReply
<1>4. UNCHANGED <<now, held, refresh, server, history>> /\ caller[c].at # "notify"
  BY DEF Call
<1> HIDE DEF s
<1> QED BY <1>1, <1>2, <1>3, <1>4, OfCaller, Goes

LEMMA SendKeeps ==
  ASSUME OneLock, IInv, NEW c \in Callers, Send(c)
  PROVE  IInv'
<1> DEFINE s == [caller[c] EXCEPT !.at = "sent", !.sends = @ + 1]
<1>1. s \in Caller /\ s.at = "sent" /\ caller' = [caller EXCEPT ![c] = s]
  BY OfCaller, OAuthAssumption DEF Send, Caller, Places, Tokens, None, NoReply, Sound
<1>2. holder' = [holder EXCEPT ![LockOf[c]] = holder[LockOf[c]]] /\ holder' = holder
  BY OfCaller DEF Send, Sound, Holding
<1>3. Sound(c, s, holder'[LockOf[c]], held.value, refresh, issued)
  BY <1>2, OfCaller, OAuthAssumption DEF Send, Sound, Holding, Caller, Tokens, None, NoReply
<1>4. UNCHANGED <<now, held, refresh, server, history>> /\ caller[c].at # "notify"
  BY DEF Send
<1> HIDE DEF s
<1> QED BY <1>1, <1>2, <1>3, <1>4, OfCaller, Goes

LEMMA AnsweredKeeps ==
  ASSUME OneLock, IInv, NEW c \in Callers, Answered(c)
  PROVE  IInv'
<1> DEFINE s == [Idle EXCEPT !.calls = caller[c].calls]
<1>1. s \in Caller /\ s.at = "idle" /\ caller' = [caller EXCEPT ![c] = s]
  BY OfCaller, OAuthAssumption DEF Answered, Caller, Places, Tokens, None, NoReply, Over, Idle
<1>2. holder' = [holder EXCEPT ![LockOf[c]] = holder[LockOf[c]]] /\ holder' = holder
  BY OfCaller DEF Answered, Sound, Holding, Over, Idle
<1>3. Sound(c, s, holder'[LockOf[c]], held.value, refresh, issued)
  BY <1>2, OfCaller, OAuthAssumption DEF Answered, Sound, Holding, Caller, Tokens, None, NoReply, Over, Idle
<1>4. UNCHANGED <<now, held, refresh, server, history>> /\ caller[c].at # "notify"
  BY DEF Answered
<1> HIDE DEF s
<1> QED BY <1>1, <1>2, <1>3, <1>4, OfCaller, Goes

LEMMA RejectedKeeps ==
  ASSUME OneLock, IInv, NEW c \in Callers, Rejected(c)
  PROVE  IInv'
<1> DEFINE s == [caller[c] EXCEPT !.at = "want", !.stale = caller[c].value]
<1>1. s \in Caller /\ s.at = "want" /\ caller' = [caller EXCEPT ![c] = s]
  BY OfCaller, OAuthAssumption DEF Rejected, Caller, Places, Tokens, None, NoReply
<1>2. holder' = [holder EXCEPT ![LockOf[c]] = holder[LockOf[c]]] /\ holder' = holder
  BY OfCaller DEF Rejected, Sound, Holding
<1>3. Sound(c, s, holder'[LockOf[c]], held.value, refresh, issued)
  BY <1>2, OfCaller, OAuthAssumption DEF Rejected, Sound, Holding, Caller, Tokens, None, NoReply
<1>4. UNCHANGED <<now, held, refresh, server, history>> /\ caller[c].at # "notify"
  BY DEF Rejected
<1> HIDE DEF s
<1> QED BY <1>1, <1>2, <1>3, <1>4, OfCaller, Goes

Served(c, token) ==
  [caller[c] EXCEPT !.at = "send", !.value = token, !.form = None, !.reply = NoReply]

LEMMA ServedIs ==
  ASSUME IInv, NEW c \in Callers, NEW token \in Tokens, Serve(c, token)
  PROVE  /\ caller' = [caller EXCEPT ![c] = Served(c, token)]
         /\ Served(c, token) \in Caller /\ Served(c, token).at = "send"
         /\ Served(c, token).value = token /\ Served(c, token).stale = caller[c].stale
         /\ Served(c, token).sends = caller[c].sends /\ Served(c, token).reply.is = "none"
<1>1. caller \in [Callers -> Caller] /\ caller[c] \in Caller
  BY OfCaller
<1>2. NoReply \in [is: {"none", "refused", "granted"}, access: Tokens, refresh: Tokens \cup {None}]
  BY OAuthAssumption DEF NoReply, Tokens
<1>3. Served(c, token) \in Caller /\ Served(c, token).at = "send"
      /\ Served(c, token).value = token /\ Served(c, token).stale = caller[c].stale
      /\ Served(c, token).sends = caller[c].sends /\ Served(c, token).reply = NoReply
  BY <1>1, <1>2 DEF Served, Caller, Places
<1>4. caller' = [caller EXCEPT ![c] = Served(c, token)]
  BY <1>1 DEF Serve, Served, Caller
<1> QED BY <1>3, <1>4 DEF NoReply

LEMMA UseKeeps ==
  ASSUME OneLock, IInv, NEW c \in Callers, Use(c)
  PROVE  IInv'
<1> DEFINE s == Served(c, held.value)
<1>1. Serve(c, held.value) /\ (caller[c].stale # None => held.value # caller[c].stale)
  BY UsableHeld DEF Use
<1>2. s \in Caller /\ s.at = "send" /\ caller' = [caller EXCEPT ![c] = s]
  BY <1>1, OfCaller, ServedIs
<1>3. Sound(c, s, holder[LockOf[c]], held.value, refresh, issued)
  <2>1. caller[c].stale \in Tokens \cup {None} /\ held.value \in Tokens /\ caller[c].stale <= held.value
        /\ caller[c].at = "want" /\ caller[c].sends < 2
    BY OfCaller DEF Caller, Use, Sound
  <2>2. caller[c].stale # None => held.value > caller[c].stale
    BY <1>1, <2>1, OAuthAssumption DEF Tokens
  <2>3. held.value <= held.value
    BY <2>1, OAuthAssumption DEF Tokens
  <2> QED BY <1>1, <2>1, <2>2, <2>3, ServedIs DEF Sound, Holding
<1>4. UNCHANGED <<now, held, refresh, holder, server, history>> /\ caller[c].at # "notify"
  BY DEF Use
<1>5. holder' = [holder EXCEPT ![LockOf[c]] = holder[LockOf[c]]]
  BY <1>4, OfCaller
<1> HIDE DEF s
<1> QED BY <1>2, <1>3, <1>4, <1>5, OfCaller, Goes

LEMMA RequestKeeps ==
  ASSUME OneLock, IInv, NEW c \in Callers, Request(c)
  PROVE  IInv'
<1> DEFINE s == [caller[c] EXCEPT !.at = "await", !.form = refresh]
<1>0. caller[c].stale # None => caller[c].stale = held.value
  BY OfCaller, UsableHeld, OAuthAssumption DEF Request, Usable, Kept, Caller, Tokens, None, Sound, Holding
<1>1. s \in Caller /\ s.at = "await" /\ caller' = [caller EXCEPT ![c] = s]
  BY <1>0, OfCaller, OAuthAssumption DEF Request, Caller, Places, Tokens, None, NoReply
<1>2. holder' = [holder EXCEPT ![LockOf[c]] = c] /\ holder[LockOf[c]] = Nobody
  BY OfCaller DEF Request, Sound, Holding
<1>3. Sound(c, s, holder'[LockOf[c]], held.value, refresh, issued)
  BY <1>0, <1>2, OfCaller, OAuthAssumption DEF Request, Sound, Holding, Caller, Tokens, None, NoReply
<1>4. UNCHANGED <<now, held, refresh, server, history>> /\ caller[c].at # "notify"
  BY DEF Request
<1> HIDE DEF s
<1> QED BY <1>1, <1>2, <1>3, <1>4, OfCaller, Goes

LEMMA RefuseKeeps ==
  ASSUME OneLock, IInv, NEW c \in Callers, Refuse(c)
  PROVE  IInv'
<1> DEFINE s == [caller[c] EXCEPT !.reply.is = "refused"]
<1>1. s \in Caller /\ s.at = "await" /\ caller' = [caller EXCEPT ![c] = s]
  BY OfCaller, OAuthAssumption DEF Refuse, Caller, Places, Tokens, None, NoReply
<1>2. holder' = [holder EXCEPT ![LockOf[c]] = holder[LockOf[c]]] /\ holder' = holder
  BY OfCaller DEF Refuse, Sound, Holding
<1>3. Sound(c, s, holder'[LockOf[c]], held.value, refresh, issued)
  BY <1>2, OfCaller, OAuthAssumption DEF Refuse, Sound, Holding, Caller, Tokens, None, NoReply
<1>4. UNCHANGED <<now, held, refresh, server, history>> /\ caller[c].at # "notify"
  BY DEF Refuse
<1> HIDE DEF s
<1> QED BY <1>1, <1>2, <1>3, <1>4, OfCaller, Goes

Ended(c) == [Idle EXCEPT !.calls = caller[c].calls]

LEMMA EndedIs ==
  ASSUME IInv, NEW c \in Callers, Over(c), NEW l
  PROVE  /\ caller' = [caller EXCEPT ![c] = Ended(c)]
         /\ Ended(c) \in Caller /\ Ended(c).at = "idle"
         /\ Sound(c, Ended(c), l, held.value, refresh, issued)
<1>1. Ended(c) \in Caller /\ Ended(c).at = "idle" /\ Ended(c).stale = None
      /\ Ended(c).value = None /\ Ended(c).sends = 0 /\ Ended(c).reply.is = "none"
  BY OfCaller, OAuthAssumption DEF Ended, Idle, NoReply, Caller, Places, Tokens, None
<1>2. None <= held.value
  BY OfCaller, OAuthAssumption DEF Tokens, None
<1> QED BY <1>1, <1>2 DEF Over, Ended, Sound, Holding

LEMMA InterruptKeeps ==
  ASSUME OneLock, IInv, NEW c \in Callers, Interrupt(c)
  PROVE  IInv'
<1>1. UNCHANGED <<now, held, refresh, server, history>> /\ caller[c].at # "notify"
  BY DEF Interrupt
<1>2. \/ holder' = holder /\ holder' = [holder EXCEPT ![LockOf[c]] = holder[LockOf[c]]]
      \/ holder[LockOf[c]] = c /\ holder' = [holder EXCEPT ![LockOf[c]] = Nobody]
  BY OfCaller DEF Interrupt, Locked, Free
<1> QED BY <1>1, <1>2, EndedIs, OfCaller, Goes DEF Interrupt

LEMMA FailKeeps ==
  ASSUME OneLock, IInv, NEW c \in Callers, Fail(c)
  PROVE  IInv'
<1>1. UNCHANGED <<now, held, refresh, server, history>> /\ caller[c].at = "await"
  BY DEF Fail
<1>2. holder[LockOf[c]] = c /\ holder' = [holder EXCEPT ![LockOf[c]] = Nobody]
  BY OfCaller, <1>1 DEF Fail, Free, Sound, Holding
<1>3. CASE Over(c)
  BY <1>1, <1>2, <1>3, EndedIs, OfCaller, Goes
<1>4. CASE Kept(caller[c].stale) # None /\ Serve(c, Kept(caller[c].stale))
  <2>1. caller[c].stale = None /\ Serve(c, held.value)
    BY <1>4 DEF Kept
  <2>2. held.value <= held.value /\ None <= held.value
    BY OfCaller, OAuthAssumption DEF Tokens, None
  <2>3. caller[c].sends < 2
    BY <1>1, OfCaller DEF Sound
  <2>4. Sound(c, Served(c, held.value), Nobody, held.value, refresh, issued)
    BY <2>1, <2>2, <2>3, ServedIs, OfCaller DEF Sound, Holding
  <2>5. holder'[LockOf[c]] = Nobody
    BY <1>2, OfCaller
  <2> DEFINE s == Served(c, held.value)
  <2>6. s \in Caller /\ s.at = "send" /\ caller' = [caller EXCEPT ![c] = s]
    BY <2>1, OfCaller, ServedIs
  <2> HIDE DEF s
  <2> QED BY <1>1, <1>2, <2>4, <2>5, <2>6, OfCaller, Goes DEF s
<1> QED BY <1>3, <1>4 DEF Fail

LEMMA GrantKeeps ==
  ASSUME OneLock, IInv, NEW c \in Callers, Grant(c)
  PROVE  IInv'
<1> PICK rotated \in {None, issued + 1} :
      /\ valid' = IF rotated = None THEN valid ELSE rotated
      /\ caller' = [caller EXCEPT ![c].reply =
                      [is |-> "granted", access |-> issued + 1, refresh |-> rotated]]
  BY DEF Grant
<1> DEFINE reply == [is |-> "granted", access |-> issued + 1, refresh |-> rotated]
           s     == [caller[c] EXCEPT !.reply = reply]
<1>1. issued' = issued + 1 /\ issued' \in Tokens /\ issued <= issued' /\ valid' \in Tokens
  BY OfCaller, OAuthAssumption DEF Grant, Tokens, None
<1>2. reply \in [is: {"none", "refused", "granted"}, access: Tokens, refresh: Tokens \cup {None}]
  BY <1>1
<1>3. s \in Caller /\ s.at = "await" /\ caller' = [caller EXCEPT ![c] = s]
  BY <1>2, OfCaller DEF Caller, Grant
<1>4. Sound(c, s, holder[LockOf[c]], held.value, refresh, issued')
  <2>1. held.value < issued + 1 /\ issued + 1 <= issued'
    BY <1>1, OfCaller, OAuthAssumption DEF Tokens
  <2>2. s.reply.access = issued + 1 /\ s.form = caller[c].form /\ s.stale = caller[c].stale
        /\ s.value = caller[c].value /\ s.sends = caller[c].sends
    BY OfCaller DEF Caller
  <2>3. caller[c].at = "await"
    BY DEF Grant
  <2> QED BY <1>3, <2>1, <2>2, <2>3, OfCaller DEF Sound, Holding
<1>5. UNCHANGED <<now, held, refresh, holder, history>> /\ caller[c].at # "notify"
  BY DEF Grant
<1> HIDE DEF s
<1> QED BY <1>1, <1>3, <1>4, <1>5, OfCaller, Moves

\* A token above the one in use, appended with the one it was to replace.
LEMMA LogAppend ==
  ASSUME NEW a \in Seq(Tokens), NEW r \in Seq(Tokens \cup {None}), NEW h \in Tokens,
         NEW t \in Tokens, NEW x \in Tokens \cup {None},
         Log(a, r, h), h < t, x # None => x = h
  PROVE  Log(Append(a, t), Append(r, x), t)
<1> DEFINE b == Append(a, t)
           q == Append(r, x)
<1>1. /\ Len(a) \in Nat /\ Len(r) = Len(a)
      /\ Len(b) = Len(a) + 1 /\ Len(q) = Len(a) + 1
      /\ \A k \in 1..Len(a) : b[k] = a[k] /\ q[k] = r[k] /\ a[k] \in Tokens
      /\ b[Len(a) + 1] = t /\ q[Len(a) + 1] = x
  BY DEF Log
<1>2. \A k \in 1..Len(b) : 0 < b[k] /\ b[k] <= t
  BY <1>1, OAuthAssumption DEF Log, Tokens
<1>3. \A j, k \in 1..Len(b) : j < k => b[j] < b[k]
  BY <1>1, OAuthAssumption DEF Log, Tokens
<1>4. IF Len(b) = 0 THEN t = 0 ELSE b[Len(b)] = t
  BY <1>1
<1>5. ASSUME NEW k \in 1..Len(q), q[k] # None
      PROVE  q[k] = IF k = 1 THEN 0 ELSE b[k - 1]
  <2>1. CASE k \in 1..Len(a)
    BY <1>1, <1>5, <2>1 DEF Log
  <2>2. CASE k = Len(a) + 1
    BY <1>1, <1>5, <2>2 DEF Log
  <2> QED BY <1>1, <2>1, <2>2
<1> HIDE DEF b, q
<1> QED BY <1>1, <1>2, <1>3, <1>4, <1>5 DEF Log, b, q

LEMMA HoldOfType ==
  ASSUME NEW token \in Tokens, now \in 0..MaxTime, NEW e \in {None, now + Lifetime}
  PROVE  HoldOf(token, e) \in Held /\ HoldOf(token, e).value = token
BY OAuthAssumption DEF HoldOf, Held, Expiries, None

LEMMA AdoptKeeps ==
  ASSUME OneLock, IInv, NEW c \in Callers, Adopt(c)
  PROVE  IInv'
<1> DEFINE access == caller[c].reply.access
           s      == [caller[c] EXCEPT !.at = "notify"]
<1>1. /\ caller[c].at = "await" /\ caller[c].reply.is = "granted"
      /\ holder[LockOf[c]] = c /\ held.value < access /\ access <= issued
      /\ (caller[c].stale # None => caller[c].stale = held.value)
      /\ access \in Tokens /\ caller[c].reply.refresh \in Tokens \cup {None}
      /\ caller[c].stale \in Tokens \cup {None} /\ caller[c].value \in Tokens \cup {None}
      /\ caller[c].value <= held.value /\ caller[c].stale <= held.value
      /\ caller[c].sends < 2
  BY OfCaller DEF Adopt, Sound, Holding, Caller
<1>2. /\ UNCHANGED <<now, holder, issued, valid, notified>>
      /\ adopted' = Append(adopted, access) /\ renewed' = Append(renewed, caller[c].stale)
  BY DEF Adopt, server
<1>3. held' \in Held /\ held'.value = access
  BY <1>1, HoldOfType DEF Adopt, IInv, TypeOK
<1>4. s \in Caller /\ s.at = "notify" /\ s.reply = caller[c].reply /\ s.stale = caller[c].stale
      /\ s.value = caller[c].value /\ s.sends = caller[c].sends
      /\ caller' = [caller EXCEPT ![c] = s]
  BY OfCaller DEF Adopt, To, Caller, Places
<1>5. adopted \in Seq(Tokens) /\ renewed \in Seq(Tokens \cup {None})
  BY DEF IInv, TypeOK
<1>6. caller' \in [Callers -> Caller] /\ caller'[c] = s
  BY <1>4, OfCaller
<1>7. TypeOK'
  <2>1. refresh' \in Tokens \cup {None}
    BY <1>1, OfCaller DEF Adopt
  <2>2. adopted' \in Seq(Tokens) /\ renewed' \in Seq(Tokens \cup {None})
    BY <1>1, <1>2, <1>5
  <2> QED BY <1>2, <1>3, <1>6, <2>1, <2>2 DEF IInv, TypeOK
<1>8. ASSUME NEW d \in Callers
      PROVE  Sound(d, caller'[d], holder'[LockOf[d]], held'.value, refresh', issued')
  <2>1. CASE d = c
    <3>1. s.value <= access /\ s.stale <= access /\ (s.stale # None => s.stale < access)
      BY <1>1, <1>4, OfCaller, OAuthAssumption DEF Tokens, None
    <3> QED BY <1>1, <1>2, <1>3, <1>4, <1>6, <2>1, <3>1 DEF Sound, Holding
  <2>2. CASE d # c
    <3>1. caller'[d] = caller[d] /\ caller[d] \in Caller /\ ~Holding(caller[d])
      BY <1>1, <1>4, <2>2, OfCaller, Alone
    <3>2. held.value <= access /\ held.value \in Tokens /\ issued \in Tokens
      BY <1>1, OfCaller, OAuthAssumption DEF Tokens
    <3> QED BY <1>1, <1>2, <1>3, <3>1, <3>2, OfCaller, BesideSound
  <2> QED BY <2>1, <2>2
<1>9. Log(adopted, renewed, held.value)' /\ held'.value <= issued'
  <2>1. Log(adopted, renewed, held.value) /\ held.value \in Tokens
    BY OfCaller DEF IInv
  <2> QED BY <1>1, <1>2, <1>3, <1>5, <2>1, LogAppend
<1>10. Saved'
  <2>1. \A d \in Callers : caller[d].at # "notify"
    BY <1>1, Alone DEF Holding
  <2>2. adopted = notified
    BY <2>1 DEF IInv, Saved
  <2>3. \A d \in Callers : caller'[d].at = "notify" => d = c
    BY <1>4, <2>1, OfCaller
  <2>4. caller'[c].at = "notify" /\ caller'[c].reply.access = access
    BY <1>4, <1>6
  <2> QED BY <1>2, <2>2, <2>3, <2>4 DEF Saved
<1> QED BY <1>7, <1>8, <1>9, <1>10 DEF IInv

LEMMA NotifyKeeps ==
  ASSUME OneLock, IInv, NEW c \in Callers, Notify(c)
  PROVE  IInv'
<1> DEFINE access == caller[c].reply.access
<1>1. /\ caller[c].at = "notify" /\ holder[LockOf[c]] = c /\ access = held.value
      /\ (caller[c].stale # None => caller[c].stale < held.value)
      /\ caller[c].stale <= held.value /\ caller[c].sends < 2 /\ access \in Tokens
  BY OfCaller DEF Notify, Sound, Holding
<1>2. /\ UNCHANGED <<now, held, refresh, issued, valid, adopted, renewed>>
      /\ notified' = Append(notified, access)
      /\ holder' = [holder EXCEPT ![LockOf[c]] = Nobody]
  BY DEF Notify, server, Free
<1>3. PICK s \in Caller : /\ caller' = [caller EXCEPT ![c] = s] /\ s.at # "notify"
                          /\ Sound(c, s, Nobody, held.value, refresh, issued)
  <2>1. CASE Over(c)
    BY <2>1, EndedIs
  <2>2. CASE Serve(c, access)
    <3>1. held.value <= held.value /\ (caller[c].stale # None => held.value > caller[c].stale)
      BY <1>1, OfCaller, OAuthAssumption DEF Tokens, Caller, None
    <3>2. Serve(c, held.value)
      BY <1>1, <2>2
    <3>3. Sound(c, Served(c, held.value), Nobody, held.value, refresh, issued)
      BY <1>1, <3>1, <3>2, ServedIs, OfCaller DEF Sound, Holding
    <3> QED BY <3>2, <3>3, ServedIs, OfCaller
  <2> QED BY <2>1, <2>2 DEF Notify
<1>4. caller' \in [Callers -> Caller] /\ caller'[c] = s /\ holder'[LockOf[c]] = Nobody
      /\ holder' \in [Locks -> Callers \cup {Nobody}]
  BY <1>2, <1>3, OfCaller
<1>5. ASSUME NEW d \in Callers \ {c}
      PROVE  caller'[d] = caller[d] /\ caller[d] \in Caller /\ ~Holding(caller[d])
  BY <1>1, <1>3, OfCaller, Alone
<1>6. adopted = Append(notified, access) /\ notified \in Seq(Tokens)
  BY <1>1 DEF IInv, Saved, TypeOK
<1>7. TypeOK'
  <2>1. notified' \in Seq(Tokens)
    BY <1>1, <1>2, <1>6
  <2> QED BY <1>2, <1>4, <2>1 DEF IInv, TypeOK
<1>8. ASSUME NEW d \in Callers
      PROVE  Sound(d, caller'[d], holder'[LockOf[d]], held'.value, refresh', issued')
  <2>1. CASE d = c
    BY <1>2, <1>3, <1>4, <2>1
  <2>2. CASE d # c
    <3>1. held.value <= held.value
      BY OfCaller, OAuthAssumption DEF Tokens
    <3> QED BY <1>2, <1>5, <2>2, <3>1, OfCaller, BesideSound
  <2> QED BY <2>1, <2>2
<1>9. Saved'
  <2>1. \A d \in Callers : caller'[d].at # "notify"
    BY <1>3, <1>4, <1>5 DEF Holding
  <2> QED BY <1>2, <1>6, <2>1 DEF Saved
<1> QED BY <1>2, <1>7, <1>8, <1>9 DEF IInv

LEMMA InitSound == Init => IInv
<1> SUFFICES ASSUME Init PROVE IInv
  OBVIOUS
<1> PICK expires \in {None, Margin, Lifetime} :
      held = IF refresh = None THEN [value |-> 0, due |-> expires, expires |-> expires]
             ELSE HoldOf(0, expires)
  BY DEF Init
<1>1. held \in Held /\ held.value = 0
  BY OAuthAssumption DEF Held, HoldOf, Expiries, Tokens, None
<1>2. Idle \in Caller /\ Idle.at = "idle" /\ Idle.stale = None /\ Idle.value = None
      /\ Idle.sends = 0 /\ Idle.reply.is = "none"
  BY OAuthAssumption DEF Idle, NoReply, Caller, Places, Tokens, None
<1>3. TypeOK
  BY <1>1, <1>2, OAuthAssumption DEF Init, TypeOK, Tokens
<1>4. \A c \in Callers : Sound(c, caller[c], holder[LockOf[c]], held.value, refresh, issued)
  <2> SUFFICES ASSUME NEW c \in Callers
               PROVE  Sound(c, Idle, holder[LockOf[c]], 0, refresh, issued)
    BY <1>1 DEF Init
  <2> QED BY <1>2 DEF Sound, Holding, None
<1>5. Log(adopted, renewed, held.value) /\ held.value <= issued
  BY <1>1 DEF Init, Log
<1>6. Saved
  BY <1>2 DEF Init, Saved
<1> QED BY <1>3, <1>4, <1>5, <1>6 DEF IInv

LEMMA TickKeeps ==
  ASSUME IInv, Tick
  PROVE  IInv'
<1>1. now' \in 0..MaxTime
  BY OAuthAssumption DEF Tick, IInv, TypeOK
<1>2. UNCHANGED <<held, refresh, holder, caller, issued, valid, adopted, notified, renewed>>
  BY DEF Tick, server, history
<1> QED BY <1>1, <1>2 DEF IInv, TypeOK, Log, Saved, Sound
-----------------------------------------------------------------------------
\* The invariant holds in every state.
LEMMA InvariantHolds ==
  ASSUME OneLock
  PROVE  Spec => []IInv
<1>1. IInv /\ [Next]_vars => IInv'
  <2> SUFFICES ASSUME IInv, [Next]_vars PROVE IInv'
    OBVIOUS
  <2>1. CASE Tick
    BY <2>1, TickKeeps
  <2>2. ASSUME NEW c \in Callers, Call(c) \/ Flow(c) PROVE IInv'
    BY <2>2, CallKeeps, SendKeeps, AnsweredKeeps, RejectedKeeps DEF Flow
  <2>3. ASSUME NEW c \in Callers, Renew(c) PROVE IInv'
    BY <2>3, UseKeeps, RequestKeeps, AdoptKeeps, FailKeeps, NotifyKeeps DEF Renew
  <2>4. ASSUME NEW c \in Callers, Authorize(c) \/ Interrupt(c) PROVE IInv'
    BY <2>4, GrantKeeps, RefuseKeeps, InterruptKeeps DEF Authorize
  <2>5. CASE UNCHANGED vars
    <3>1. UNCHANGED <<now, held, refresh, holder, caller, issued, valid,
                      adopted, notified, renewed>>
      BY <2>5 DEF vars, server, history
    <3> QED BY <3>1 DEF IInv, TypeOK, Log, Saved, Sound
  <2> QED BY <2>1, <2>2, <2>3, <2>4, <2>5 DEF Next
<1> QED BY <1>1, InitSound, PTL DEF Spec

\* The state of callers that share a lock is well typed (_Provider's fields, SchemeAuth's flow).
THEOREM TypeCorrect ==
  ASSUME OneLock
  PROVE  Spec => []TypeOK
<1>1. IInv => TypeOK
  BY DEF IInv
<1> QED BY <1>1, InvariantHolds, PTL

\* No request under way was made from a refresh token that is no longer current: the lock is
\* held from the look at the held token to the adoption of the answer (oauth.py, token, atoken).
THEOREM ReplacedNeverSent ==
  ASSUME OneLock
  PROVE  Spec => []NoReplacedSent
<1>1. IInv => NoReplacedSent
  BY DEF IInv, Sound, NoReplacedSent
<1> QED BY <1>1, InvariantHolds, PTL

\* A rejected token is replaced once, however many calls it was rejected for, and a call is sent
\* again only with a token issued later (oauth.py, _usable; auth.py, sync_auth_flow).
THEOREM RejectedReplacedOnce ==
  ASSUME OneLock
  PROVE  Spec => []ReplacedOnce
<1>1. ASSUME IInv PROVE ReplacedOnce
  <2> DEFINE a == adopted
             r == renewed
  <2>1. /\ a \in Seq(Tokens) /\ Len(a) \in Nat /\ Len(r) = Len(a)
        /\ \A k \in 1..Len(a) : a[k] \in Tokens /\ 0 < a[k]
        /\ \A j, k \in 1..Len(a) : j < k => a[j] < a[k]
        /\ \A k \in 1..Len(a) : r[k] # None => r[k] = IF k = 1 THEN 0 ELSE a[k - 1]
    BY <1>1 DEF IInv, TypeOK, Log
  <2> HIDE DEF a, r
  <2>2. ASSUME NEW i \in 1..Len(a), NEW j \in 1..Len(a), i < j, r[i] # None
        PROVE  r[i] # r[j]
    <3>1. j # 1 /\ j - 1 \in 1..Len(a) /\ a[j - 1] \in Nat /\ 0 < a[j - 1]
      BY <2>1, <2>2, OAuthAssumption DEF Tokens
    <3>2. CASE r[j] = None
      BY <2>2, <3>2
    <3>3. CASE r[j] # None /\ i = 1
      BY <2>1, <2>2, <3>1, <3>3
    <3>4. CASE r[j] # None /\ i # 1
      <4>1. i - 1 \in 1..Len(a) /\ i - 1 < j - 1 /\ a[i - 1] \in Nat
        BY <2>1, <2>2, <3>4, OAuthAssumption DEF Tokens
      <4>2. a[i - 1] < a[j - 1]
        BY <2>1, <3>1, <4>1
      <4> QED BY <2>1, <2>2, <3>1, <3>4, <4>1, <4>2
    <3> QED BY <3>2, <3>3, <3>4
  <2>3. \A i, j \in 1..Len(r) : r[i] # None /\ r[i] = r[j] => i = j
    <3> SUFFICES ASSUME NEW i \in 1..Len(a), NEW j \in 1..Len(a), r[i] # None, r[i] = r[j], i # j
                 PROVE  FALSE
      BY <2>1
    <3>1. i < j \/ j < i
      BY <2>1
    <3> QED BY <2>2, <3>1
  <2>4. \A c \in Callers : caller[c].at \in {"send", "sent"} /\ caller[c].stale # None
                             => caller[c].value > caller[c].stale
    BY <1>1 DEF IInv, Sound
  <2> QED BY <2>3, <2>4 DEF ReplacedOnce, r
<1> QED BY <1>1, InvariantHolds, PTL

\* The callback is given each token set made current, in that order, and when the lock is free
\* it has been given the last (oauth.py, _notify under the lock).
THEOREM SavedAsAdopted ==
  ASSUME OneLock
  PROVE  Spec => []SavedInOrder
<1>1. ASSUME IInv PROVE SavedInOrder
  <2>1. adopted \in Seq(Tokens) /\ notified \in Seq(Tokens)
    BY <1>1 DEF IInv, TypeOK
  <2>2. CASE \A c \in Callers : caller[c].at # "notify"
    <3>1. adopted = notified
      BY <1>1, <2>2 DEF IInv, Saved
    <3> QED BY <2>1, <3>1, SubSeqFull DEF SavedInOrder
  <2>3. ASSUME NEW c \in Callers, caller[c].at = "notify" PROVE SavedInOrder
    <3> DEFINE access == caller[c].reply.access
    <3>1. adopted = Append(notified, access) /\ access \in Tokens /\ holder[LockOf[c]] = c
          /\ LockOf[c] \in Locks /\ c # Nobody
      BY <1>1, <2>3, OfCaller, OAuthAssumption DEF IInv, Saved, Sound, Holding
    <3>2. Len(notified) \in Nat /\ Len(adopted) = Len(notified) + 1
          /\ \A k \in 1..Len(notified) : adopted[k] = notified[k] /\ adopted[k] \in Tokens
      BY <2>1, <3>1
    <3> DEFINE part == SubSeq(adopted, 1, Len(notified))
    <3>3. part \in Seq(Tokens) /\ Len(part) = Len(notified)
          /\ \A k \in 1..Len(notified) : part[k] = adopted[k]
      BY <3>2, SubSeqProperties
    <3>4. part = notified
      BY <2>1, <3>2, <3>3, SeqEqual
    <3>5. Len(notified) = Len(adopted) - 1
      BY <3>2
    <3>6. ~\A l \in Locks : holder[l] = Nobody
      BY <3>1
    <3> QED BY <3>4, <3>5, <3>6 DEF SavedInOrder
  <2> QED BY <2>2, <2>3
<1> QED BY <1>1, InvariantHolds, PTL
=============================================================================
