------------------------------ MODULE CacheProofs ------------------------------
(***************************************************************************)
(* Proofs about Cache, for any fetchers, identities, clocks and stores:    *)
(* what the store answers is the asking identity's and of the variant      *)
(* asked for, and was current recently enough, whichever fetches share the *)
(* store and whatever is renewed, written or changed meanwhile; and what   *)
(* was returned and not stored leaves nothing older behind.  All follow    *)
(* from one inductive invariant, IInv, over what the store and each fetch  *)
(* hold.  Three more are inductive with it: HInv, of what was returned and *)
(* not stored; Untouched, of fetches one at a time; and Ordered, of the    *)
(* store's order, which its types rest on.                                 *)
(***************************************************************************)
EXTENDS Cache, SequenceTheorems, TLAPS

\* An entry kept under key k, if there is one, is a representation for k.
Kept(e, k) == e.there => e.rep.of = k

\* A version that was current at time t, or later.
Since(u, v, t) == u[v] = None \/ u[v] >= t

\* An entry is never newer than its age says, by the versions' ends u, and not from after n.
Dated(e, u, n) ==
  e.there => e.at <= n /\ Since(u, e.rep.version, e.at - e.age)

\* What fetch s of fetcher f relies on: the entry it may use, the one it may store and what it
\* answers from the store are its key's; its reply is for whom its request was sent as; and all of
\* them are as recent as they say.
Sound(f, s, u, n) ==
  /\ s.at # "idle" => s.key \in Identities
  /\ Kept(s.usable, s.key) /\ (s.usable.there => s.usable.rep.variant = Variant[f])
  /\ s.reply.is = "modified" => s.reply.rep.of = s.reply.as
  /\ s.reply.is = "unmodified" => s.usable.there /\ s.reply.rep = s.usable.rep
  /\ s.at = "answered" => Kept(s.storing, s.key)
  /\ s.at = "answered" /\ s.source # "network" =>
       s.answer.of = s.key /\ s.answer.variant = Variant[f]
  /\ s.at = "looked" => s.reply.is = "none"
  /\ s.requested <= n /\ Dated(s.usable, u, n)
  /\ s.reply.is \in {"modified", "unmodified"} =>
       Since(u, s.reply.rep.version, s.requested - s.reply.age)
  /\ s.at = "answered" =>
       s.source # "none" /\ Dated(s.storing, u, n) /\ Since(u, s.answer.version, s.requested - Upstream)

\* The types that matter here: all but the store's order.
Shaped ==
  /\ now \in Times /\ asking \in [Fetchers -> Identities]
  /\ entries \in [Identities -> Entries] /\ fetch \in [Fetchers -> Fetch]
  /\ until \in [Versions -> Times \cup {None}]

IInv ==
  /\ Shaped
  /\ \A k \in Identities : Kept(entries[k], k) /\ Dated(entries[k], until, now)
  /\ \A f \in Fetchers : Sound(f, fetch[f], until, now)
-----------------------------------------------------------------------------
LEMMA Blank ==
  /\ AnyRep \in Representations /\ NoEntry \in Entries /\ ~NoEntry.there
  /\ NoReply \in Replies /\ Idle \in Fetch /\ Idle.requested = 0
  /\ \A f \in Fetchers, n \in Nat : Sound(f, Idle, until, n)
<1>1. AnyRep \in Representations
  <2>1. \E v : v \in Variants
    BY CacheAssumption DEF Variants
  <2>2. (CHOOSE v \in Variants : TRUE) \in Variants
    BY <2>1
  <2> QED BY <2>2, CacheAssumption DEF AnyRep, Representations, Versions
<1>2. NoEntry \in Entries /\ ~NoEntry.there
  BY <1>1, CacheAssumption DEF NoEntry, Entries, Times
<1>3. NoReply \in Replies
  BY <1>1, CacheAssumption DEF NoReply, Replies
<1>4. Idle \in Fetch /\ Idle.requested = 0
  BY <1>1, <1>2, <1>3, CacheAssumption DEF Idle, Fetch, Times
<1>5. \A f \in Fetchers, n \in Nat : Sound(f, Idle, until, n)
  BY <1>2 DEF Idle, Sound, Kept, Dated, NoReply
<1> QED BY <1>1, <1>2, <1>3, <1>4, <1>5

\* One fetch moves to s, with the store kept as it may be.
LEMMA MovesTo ==
  ASSUME IInv, NEW f \in Fetchers, NEW s \in Fetch, fetch' = [fetch EXCEPT ![f] = s],
         Sound(f, s, until, now), UNCHANGED <<now, asking, until>>,
         entries' \in [Identities -> Entries],
         \A k \in Identities : Kept(entries'[k], k) /\ Dated(entries'[k], until, now)
  PROVE  IInv'
<1>1. \A g \in Fetchers : fetch'[g] = IF g = f THEN s ELSE fetch[g]
  BY DEF IInv, Shaped
<1>2. fetch' \in [Fetchers -> Fetch]
  BY DEF IInv, Shaped
<1>3. Shaped'
  BY <1>1, <1>2 DEF IInv, Shaped
<1>4. \A g \in Fetchers : Sound(g, fetch'[g], until, now)
  BY <1>1 DEF IInv
<1> QED BY <1>3, <1>4 DEF IInv, Kept, Dated, Since, Sound

\* The store keeps entries for their keys, whatever it drops.
LEMMA PutKeeps ==
  ASSUME IInv, NEW k \in Identities \cup {Nobody}, NEW e \in Entries, Put(k, e),
         Kept(e, k), Dated(e, until, now)
  PROVE  /\ entries' \in [Identities -> Entries]
         /\ \A i \in Identities : Kept(entries'[i], i) /\ Dated(entries'[i], until, now)
<1>1. PICK out : entries' = [i \in Identities |-> IF i \in out THEN NoEntry
                                                  ELSE IF i = k THEN e ELSE entries[i]]
  BY DEF Put
<1> QED BY <1>1, Blank DEF IInv, Shaped, Kept, Dated

LEMMA DeleteKeeps ==
  ASSUME IInv, NEW k, Delete(k)
  PROVE  /\ entries' \in [Identities -> Entries]
         /\ \A i \in Identities : Kept(entries'[i], i) /\ Dated(entries'[i], until, now)
BY Blank DEF Delete, IInv, Shaped, Kept, Dated
-----------------------------------------------------------------------------
LEMMA OfFetch ==
  ASSUME IInv, NEW f \in Fetchers
  PROVE  /\ fetch \in [Fetchers -> Fetch] /\ fetch[f] \in Fetch /\ now \in Times /\ now \in Nat
         /\ Sound(f, fetch[f], until, now) /\ until \in [Versions -> Times \cup {None}]
         /\ entries \in [Identities -> Entries]
         /\ \A k \in Identities : Kept(entries[k], k) /\ Dated(entries[k], until, now)
BY CacheAssumption DEF IInv, Shaped, Times

LEMMA LookKeeps ==
  ASSUME IInv, NEW f \in Fetchers, Look(f)
  PROVE  IInv'
<1>1. PICK ask \in Asks, entry \in Entries :
        /\ Kept(entry, asking[f]) /\ Dated(entry, until, now)
        /\ fetch' = [fetch EXCEPT ![f] =
             [Idle EXCEPT !.at = "looked", !.ask = ask, !.key = asking[f],
                          !.entry = entry.there, !.usable = Found(f, entry)]]
  <2>1. asking[f] \in Identities /\ entries[asking[f]] \in Entries
        /\ Kept(entries[asking[f]], asking[f]) /\ Dated(entries[asking[f]], until, now)
    BY DEF IInv, Shaped
  <2> QED BY <2>1, Blank DEF Look, Kept, Dated
<1> DEFINE s == [Idle EXCEPT !.at = "looked", !.ask = ask, !.key = asking[f],
                             !.entry = entry.there, !.usable = Found(f, entry)]
<1>2. asking[f] \in Identities
  BY DEF IInv, Shaped
<1>3. Found(f, entry) \in Entries /\ Kept(Found(f, entry), asking[f])
      /\ Dated(Found(f, entry), until, now)
      /\ (Found(f, entry).there => Found(f, entry).rep.variant = Variant[f])
  BY <1>1, Blank DEF Found, Kept, Dated
<1>4. entry.there \in BOOLEAN
  BY DEF Entries
<1>5. s \in Fetch /\ s.requested = 0
  BY <1>2, <1>3, <1>4, Blank DEF Fetch
<1>6. s.usable = Found(f, entry) /\ s.key = asking[f] /\ s.at = "looked" /\ s.reply.is = "none"
  BY Blank DEF Idle, NoReply
<1>7. s.requested <= now
  BY <1>5, OfFetch
<1>8. Sound(f, s, until, now)
  BY <1>2, <1>3, <1>6, <1>7 DEF Sound
<1>9. UNCHANGED <<now, asking, entries, until>>
  BY DEF Look, origin
<1> HIDE DEF s
<1> QED BY <1>1, <1>5, <1>8, <1>9, OfFetch, MovesTo DEF s

LEMMA SendKeeps ==
  ASSUME IInv, NEW f \in Fetchers, Send(f)
  PROVE  IInv'
<1> DEFINE s == [fetch[f] EXCEPT !.at = "sent", !.requested = now]
<1>1. /\ fetch' = [fetch EXCEPT ![f] = s] /\ UNCHANGED <<now, asking, entries, until>>
      /\ fetch[f].at = "looked"
  BY OfFetch DEF Send, origin
<1>2. s \in Fetch /\ s.requested = now
  BY OfFetch DEF Fetch
<1>3. now <= now
  BY OfFetch
<1>4. Sound(f, s, until, now)
  BY <1>1, <1>3, OfFetch DEF Sound, Fetch
<1> HIDE DEF s
<1> QED BY <1>1, <1>2, <1>4, OfFetch, MovesTo

LEMMA AnswerKeeps ==
  ASSUME IInv, NEW f \in Fetchers, Answer(f)
  PROVE  IInv'
<1>1. fetch[f].at = "sent" /\ UNCHANGED <<now, asking, entries, until>>
  BY DEF Answer, origin
<1>2. PICK r \in Replies :
        /\ fetch' = [fetch EXCEPT ![f].reply = r]
        /\ r.is = "modified" => r.rep.of = r.as
        /\ r.is = "unmodified" => fetch[f].usable.there /\ r.rep = fetch[f].usable.rep
        /\ r.is \in {"modified", "unmodified"} => CurrentAt(r.rep.version, now - r.age)
  <2>1. PICK age \in 0..Upstream, version \in Versions, kind \in Kinds, tagged \in BOOLEAN,
             is \in {"modified", "unmodified", "inconsistent", "failed"} :
          LET rep == IF is \in {"inconsistent", "failed"} THEN AnyRep
                     ELSE [version |-> version, of |-> asking[f], variant |-> Variant[f]] IN
          /\ age <= now /\ CurrentAt(version, now - age)
          /\ is = "unmodified" => Conditional(f) /\ fetch[f].usable.rep = rep
          /\ tagged \/ (is = "modified" /\ kind # "unstored")
          /\ is \in {"inconsistent", "failed"} => kind = "fresh" /\ age = 0
          /\ fetch' = [fetch EXCEPT ![f].reply =
               [is |-> is, rep |-> rep, kind |-> kind, tagged |-> tagged,
                age |-> age, as |-> asking[f]]]
    BY Zenon DEF Answer
  <2> DEFINE rep == IF is \in {"inconsistent", "failed"} THEN AnyRep
                    ELSE [version |-> version, of |-> asking[f], variant |-> Variant[f]]
             r == [is |-> is, rep |-> rep, kind |-> kind, tagged |-> tagged,
                   age |-> age, as |-> asking[f]]
  <2>2. asking[f] \in Identities /\ Variant[f] \in Variants
    BY DEF IInv, Shaped, Variants
  <2>3. rep \in Representations
    BY <2>1, <2>2, Blank DEF Representations
  <2>4. r \in Replies
    BY <2>2, <2>3 DEF Replies
  <2> QED BY <2>1, <2>4 DEF Conditional
<1> DEFINE s == [fetch[f] EXCEPT !.reply = r]
<1>3. fetch' = [fetch EXCEPT ![f] = s]
  BY <1>2, OfFetch
<1>4. s \in Fetch /\ s.requested = fetch[f].requested
  BY OfFetch DEF Fetch
<1>5. r.is \in {"modified", "unmodified"} =>
        Since(until, r.rep.version, fetch[f].requested - r.age)
  <2> SUFFICES ASSUME r.is \in {"modified", "unmodified"}
               PROVE  Since(until, r.rep.version, fetch[f].requested - r.age)
    OBVIOUS
  <2>1. fetch[f].requested <= now
    BY OfFetch DEF Sound
  <2>2. r.age \in Int /\ fetch[f].requested \in Int /\ r.rep.version \in Versions
    BY OfFetch, CacheAssumption DEF Replies, Representations, Fetch, Times
  <2>3. until[r.rep.version] \in Int
    BY <2>2, OfFetch, CacheAssumption DEF Times, None
  <2>4. CurrentAt(r.rep.version, now - r.age)
    BY <1>2
  <2> QED BY <2>1, <2>2, <2>3, <2>4, OfFetch DEF CurrentAt, Since
<1>6. Sound(f, s, until, now)
  BY <1>1, <1>2, <1>5, OfFetch DEF Sound, Fetch
<1> HIDE DEF s
<1> QED BY <1>1, <1>3, <1>4, <1>6, OfFetch, MovesTo

\* What is stored is the key's, and is typed.
LEMMA StoredKept ==
  ASSUME IInv, NEW f \in Fetchers, fetch[f].reply.is \in {"modified", "unmodified"}
  PROVE  /\ Stored(f) \in Entries /\ Kept(Stored(f), fetch[f].key)
         /\ Dated(Stored(f), until, now)
<1> DEFINE reply == fetch[f].reply
           fresh == IF reply.kind = "validate" THEN 0 ELSE Smaller(MaxAge, MaxTTL[f])
           e == [there |-> TRUE, rep |-> reply.rep, tagged |-> reply.tagged,
                 at |-> now, age |-> InitialAge(f), fresh |-> fresh]
<1>1. reply \in Replies /\ fetch[f].requested \in Times /\ fetch[f].requested <= now /\ now \in Times
  BY OfFetch DEF Fetch, Sound
<1>2. fresh \in 0..MaxAge
  <2>1. MaxAge \in Nat /\ MaxTTL[f] \in Nat
    BY CacheAssumption
  <2> QED BY <2>1 DEF Smaller
<1>3. InitialAge(f) \in 0..(MaxTime + Upstream)
  <2>1. reply.age \in 0..Upstream
    BY <1>1 DEF Replies
  <2> QED BY <1>1, <2>1, CacheAssumption DEF InitialAge, Times
<1>4. e \in Entries
  BY <1>1, <1>2, <1>3 DEF Entries, Replies
<1>5. Fits(f) => reply.rep.of = fetch[f].key
  BY OfFetch DEF Fits, Sound, Kept
<1>6. Stored(f) = NoEntry \/ (Stored(f) = e /\ Fits(f))
  BY DEF Stored
<1>7. e.rep = reply.rep /\ e.at = now /\ e.age = reply.age + now - fetch[f].requested
  BY DEF InitialAge
<1>8. Since(until, reply.rep.version, fetch[f].requested - reply.age)
  BY OfFetch DEF Sound
<1>9. now - e.age = fetch[f].requested - reply.age
  <2>1. reply.age \in Int /\ fetch[f].requested \in Int
    BY <1>1, CacheAssumption DEF Replies, Times
  <2> QED BY <1>7, <2>1, OfFetch
<1> HIDE DEF fresh, e
<1>10. Dated(e, until, now)
  BY <1>7, <1>8, <1>9, OfFetch DEF Dated
<1> QED BY <1>4, <1>5, <1>6, <1>7, <1>10, Blank DEF Kept, Dated

LEMMA ReceiveKeeps ==
  ASSUME IInv, NEW f \in Fetchers, Receive(f)
  PROVE  IInv'
<1>1. fetch[f].reply.is \in {"modified", "unmodified"} /\ UNCHANGED <<now, asking, entries, until>>
  BY DEF Receive, origin
<1> DEFINE reply  == fetch[f].reply
           answer == IF reply.is = "modified" THEN reply.rep ELSE fetch[f].usable.rep
           source == IF reply.is = "modified" THEN "network" ELSE "revalidated"
           none   == [NoReply EXCEPT !.as = reply.as]
           s == [fetch[f] EXCEPT !.at = "answered", !.storing = Stored(f), !.source = source,
                                 !.answer = answer, !.usable = NoEntry, !.reply = none]
<1>2. fetch' = [fetch EXCEPT ![f] = s]
  BY OfFetch DEF Receive
<1>3. Stored(f) \in Entries /\ Kept(Stored(f), fetch[f].key) /\ Dated(Stored(f), until, now)
  BY <1>1, StoredKept
<1>4. fetch[f] \in Fetch /\ reply \in Replies /\ fetch[f].usable \in Entries
  BY OfFetch DEF Fetch
<1>5. answer \in Representations
  BY <1>4 DEF Replies, Entries
<1>6. none \in Replies /\ none.is = "none"
  BY <1>4, Blank DEF Replies, NoReply
<1>7. source # "network" => answer.of = fetch[f].key /\ answer.variant = Variant[f]
  BY <1>1, OfFetch DEF Sound, Kept
<1>8. Since(until, answer.version, fetch[f].requested - Upstream)
  <2>1. answer = reply.rep
    BY <1>1, OfFetch DEF Sound
  <2>2. Since(until, answer.version, fetch[f].requested - reply.age)
    BY <1>1, <2>1, OfFetch DEF Sound
  <2>3. reply.age \in 0..Upstream /\ fetch[f].requested \in Int /\ answer.version \in Versions
    BY <1>4, <1>5, CacheAssumption DEF Fetch, Replies, Representations, Times
  <2>4. until[answer.version] \in Int
    BY <2>3, OfFetch, CacheAssumption DEF Times, None
  <2> HIDE DEF answer
  <2> QED BY <2>2, <2>3, <2>4, CacheAssumption DEF Since
<1> HIDE DEF answer, none, source
<1>9. source \in {"network", "revalidated"}
  BY DEF source
<1>10. s \in Fetch /\ s.requested = fetch[f].requested
  BY <1>3, <1>4, <1>5, <1>6, <1>9, Blank DEF Fetch
<1>11. /\ s.usable = NoEntry /\ s.reply = none /\ s.at = "answered" /\ s.storing = Stored(f)
       /\ s.source = source /\ s.answer = answer /\ s.key = fetch[f].key
  BY <1>4 DEF Fetch
<1>12. fetch[f].requested <= now
  BY OfFetch DEF Sound
<1>13. s.key \in Identities
  BY <1>1, <1>11, OfFetch DEF Receive, Sound
<1>14. Sound(f, s, until, now)
  BY <1>13, <1>3, <1>6, <1>7, <1>8, <1>9, <1>10, <1>11, <1>12, Blank DEF Sound, Kept, Dated
<1> HIDE DEF s
<1> QED BY <1>1, <1>2, <1>10, <1>14, OfFetch, MovesTo

LEMMA EndsKeep ==
  ASSUME IInv, NEW f \in Fetchers, Serve(f) \/ Write(f) \/ Refuse(f) \/ Fail(f)
  PROVE  IInv'
<1>1. fetch' = [fetch EXCEPT ![f] = Idle] /\ UNCHANGED <<now, asking, until>>
  BY DEF Serve, Write, Refuse, Fail, Done, origin
<1>2. /\ entries' \in [Identities -> Entries]
      /\ \A k \in Identities : Kept(entries'[k], k) /\ Dated(entries'[k], until, now)
  <2>1. CASE entries' = entries
    BY <2>1, OfFetch
  <2>2. CASE Delete(fetch[f].key)
    BY <2>2, DeleteKeeps
  <2>3. CASE fetch[f].at = "answered" /\ Put(fetch[f].key, fetch[f].storing)
    <3>1. fetch[f].key \in Identities \cup {Nobody} /\ fetch[f].storing \in Entries
      BY OfFetch DEF Fetch
    <3>2. Kept(fetch[f].storing, fetch[f].key) /\ Dated(fetch[f].storing, until, now)
      BY <2>3, OfFetch DEF Sound
    <3> QED BY <2>3, <3>1, <3>2, PutKeeps
  <2> QED BY <2>1, <2>2, <2>3 DEF Serve, Write, Refuse, Fail
<1>3. Sound(f, Idle, until, now)
  BY Blank, OfFetch
<1> QED BY <1>1, <1>2, <1>3, Blank, MovesTo

\* The origin, the clock and the credentials change nothing a fetch or the store holds.
LEMMA OthersKeep ==
  ASSUME IInv, Change \/ Tick \/ \E f \in Fetchers : Rotate(f)
  PROVE  IInv'
<1>1. UNCHANGED <<entries, fetch>>
  BY DEF Change, Tick, Rotate
<1>2. asking' \in [Fetchers -> Identities]
  BY DEF IInv, Shaped, Change, Tick, Rotate
<1>3. now' \in Times /\ now \in Nat /\ now' \in Nat /\ now <= now'
  BY CacheAssumption DEF IInv, Shaped, Change, Tick, Rotate, Times
<1>4. \A v \in Versions : until'[v] = until[v] \/ until'[v] = now
  BY DEF Change, Tick, Rotate, origin, IInv, Shaped
<1>5. until' \in [Versions -> Times \cup {None}]
  BY DEF Change, Tick, Rotate, origin, IInv, Shaped
<1>6. ASSUME NEW v \in Versions, NEW t \in Int, Since(until, v, t), t <= now
      PROVE  Since(until', v, t)
  BY <1>3, <1>4, <1>6 DEF Since
<1>7. ASSUME NEW e \in Entries, Dated(e, until, now) PROVE Dated(e, until', now')
  <2>1. e.at \in Nat /\ e.age \in Nat /\ e.rep.version \in Versions
    BY CacheAssumption DEF Entries, Representations, Times
  <2> QED BY <1>3, <1>6, <1>7, <2>1 DEF Dated
<1>8. ASSUME NEW f \in Fetchers PROVE Sound(f, fetch[f], until', now')
  <2>1. fetch[f] \in Fetch /\ Sound(f, fetch[f], until, now)
    BY OfFetch
  <2>2. /\ fetch[f].requested \in Nat /\ fetch[f].reply.age \in Nat
        /\ fetch[f].reply.rep.version \in Versions /\ fetch[f].answer.version \in Versions
        /\ fetch[f].usable \in Entries /\ fetch[f].storing \in Entries
    BY <2>1, CacheAssumption DEF Fetch, Replies, Representations, Times
  <2>3. fetch[f].requested <= now
    BY <2>1 DEF Sound
  <2>4. /\ fetch[f].requested - fetch[f].reply.age \in Int
        /\ fetch[f].requested - fetch[f].reply.age <= now
        /\ fetch[f].requested - Upstream \in Int /\ fetch[f].requested - Upstream <= now
        /\ fetch[f].requested <= now'
    BY <1>3, <2>2, <2>3, CacheAssumption
  <2> QED BY <1>6, <1>7, <2>1, <2>2, <2>4 DEF Sound
<1>9. \A k \in Identities : Kept(entries[k], k) /\ Dated(entries[k], until', now')
  BY <1>7, OfFetch DEF IInv, Shaped
<1>10. Shaped'
  BY <1>1, <1>2, <1>3, <1>5 DEF IInv, Shaped
<1> QED BY <1>1, <1>8, <1>9, <1>10 DEF IInv
-----------------------------------------------------------------------------
LEMMA Initially ==
  ASSUME Init
  PROVE  IInv
<1>1. Shaped
  BY Blank, CacheAssumption DEF Init, Shaped, Times
<1>2. \A k \in Identities : Kept(entries[k], k) /\ Dated(entries[k], until, now)
  BY Blank DEF Init, Kept, Dated
<1>3. \A f \in Fetchers : Sound(f, fetch[f], until, now)
  BY Blank DEF Init
<1> QED BY <1>1, <1>2, <1>3 DEF IInv

LEMMA Inductive ==
  ASSUME IInv, [Next]_vars
  PROVE  IInv'
<1>1. CASE Change \/ Tick \/ \E f \in Fetchers : Rotate(f)
  BY <1>1, OthersKeep
<1>2. ASSUME NEW f \in Fetchers, Answer(f) PROVE IInv'
  BY <1>2, AnswerKeeps
<1>3. ASSUME NEW f \in Fetchers, Step(f) PROVE IInv'
  BY <1>3, LookKeeps, SendKeeps, ReceiveKeeps, EndsKeep DEF Step
<1>4. CASE UNCHANGED vars
  BY <1>4 DEF vars, origin, IInv, Shaped, Sound, Kept, Dated, Since
<1> QED BY <1>1, <1>2, <1>3, <1>4 DEF Next

\* A fetch that ends where it looked its entry up serves that entry, which is fresh.
LEMMA ServedFresh ==
  ASSUME IInv, [Next]_vars, NEW f \in Fetchers, fetch[f].at = "looked", fetch'[f].at = "idle"
  PROVE  Fresh(f)
<1>1. fetch' # fetch
  OBVIOUS
<1>2. PICK g \in Fetchers : Answer(g) \/ Step(g)
  BY <1>1 DEF Next, vars, Change, Tick, Rotate
<1>3. g = f
  <2>1. \E s : fetch' = [fetch EXCEPT ![g] = s]
    <3>1. fetch \in [Fetchers -> Fetch] /\ fetch[g] \in Fetch
      BY OfFetch
    <3>2. fetch' = [fetch EXCEPT ![g] = fetch'[g]]
      BY <1>2, <3>1 DEF Answer, Step, Look, Serve, Send, Receive, Write, Refuse, Fail, Done
    <3> QED BY <3>2
  <2> QED BY <2>1, OfFetch
<1>4. Serve(f) \/ Send(f)
  BY <1>2, <1>3 DEF Answer, Step, Look, Receive, Write, Refuse, Fail
<1>5. ~Send(f)
  BY OfFetch DEF Send, Fetch
<1> QED BY <1>4, <1>5 DEF Serve

\* A fetch answered from the store, at once or after a 304, gets what was sent as the identity
\* that asks and for its variant (AnswersItsOwn): a credential that is renewed between the lookup
\* and the send, or a fetch of another variant, stores nothing under the wrong key (_Fetch.keyed,
\* found and fits in _runtime/protocols/cache.py).
THEOREM AnsweredItsOwn == Spec => AnswersItsOwn
<1>1. Init => IInv
  BY Initially
<1>2. IInv /\ [Next]_vars => IInv'
  BY Inductive
<1>3. IInv /\ [Next]_vars =>
        [\A f \in Fetchers : (Returns(f) /\ Source(f) # "network") =>
           Returned(f).of = fetch[f].key /\ Returned(f).variant = Variant[f]]_vars
  <2> SUFFICES ASSUME IInv, [Next]_vars, NEW f \in Fetchers, Returns(f), Source(f) # "network"
               PROVE  Returned(f).of = fetch[f].key /\ Returned(f).variant = Variant[f]
    OBVIOUS
  <2>1. CASE fetch[f].at = "looked"
    <3>1. fetch[f].usable.there
      BY <2>1, ServedFresh DEF Returns, Fresh
    <3> QED BY <2>1, <3>1, OfFetch DEF Sound, Kept, Returned
  <2>2. CASE fetch[f].at = "answered"
    BY <2>2, OfFetch DEF Sound, Returned, Source
  <2> QED BY <2>1, <2>2 DEF Returns
<1> QED BY <1>1, <1>2, <1>3, PTL DEF Spec, AnswersItsOwn

\* A fetch answered from the store while it is fresh gets what was current less than its freshness
\* ago, and one answered over the network, or after a 304, what was current when its request began,
\* give or take an intermediary's Age (CurrentEnough): the age an entry starts with counts the time
\* its request was under way, and a 304 renews the entry that was looked up, not the one there now
\* (_age, stored and not_modified in _runtime/protocols/cache.py).
THEOREM AnsweredCurrent == Spec => CurrentEnough
<1>1. Init => IInv
  BY Initially
<1>2. IInv /\ [Next]_vars => IInv'
  BY Inductive
<1>3. IInv /\ [Next]_vars =>
        [\A f \in Fetchers : Returns(f) =>
           LET gone == until[Returned(f).version] IN
           \/ gone = None
           \/ Source(f) = "fresh_cache" /\ gone > now - Smaller(MaxAge, MaxTTL[f])
           \/ Source(f) # "fresh_cache" /\ gone >= fetch[f].requested - Upstream]_vars
  <2> SUFFICES ASSUME IInv, [Next]_vars, NEW f \in Fetchers, Returns(f),
                      until[Returned(f).version] # None
               PROVE  LET gone == until[Returned(f).version] IN
                      \/ Source(f) = "fresh_cache" /\ gone > now - Smaller(MaxAge, MaxTTL[f])
                      \/ Source(f) # "fresh_cache" /\ gone >= fetch[f].requested - Upstream
    OBVIOUS
  <2>1. CASE fetch[f].at = "looked"
    <3> DEFINE e == fetch[f].usable
               gone == until[e.rep.version]
    <3>1. Fresh(f)
      BY <2>1, ServedFresh DEF Returns
    <3>2. e.there /\ e.age + (now - e.at) < Smaller(e.fresh, MaxTTL[f])
      BY <3>1 DEF Fresh, AgeOf
    <3>3. e.at \in Nat /\ e.age \in Nat /\ e.fresh \in 0..MaxAge /\ e.rep.version \in Versions
      BY OfFetch, CacheAssumption DEF Fetch, Entries, Representations, Times
    <3>4. gone \in Int /\ MaxAge \in Nat /\ MaxTTL[f] \in Nat /\ now \in Nat
      BY <3>3, OfFetch, CacheAssumption DEF Times, None
    <3>5. gone >= e.at - e.age
      BY <2>1, <3>2, OfFetch DEF Sound, Dated, Since, Returned
    <3>6. Smaller(e.fresh, MaxTTL[f]) <= Smaller(MaxAge, MaxTTL[f])
          /\ Smaller(e.fresh, MaxTTL[f]) \in Int /\ Smaller(MaxAge, MaxTTL[f]) \in Int
      BY <3>3, <3>4 DEF Smaller
    <3>7. Returned(f) = e.rep /\ Source(f) = "fresh_cache"
      BY <2>1 DEF Returned, Source
    <3> HIDE DEF e
    <3>8. gone > now - Smaller(MaxAge, MaxTTL[f])
      <4> HIDE DEF gone
      <4> QED BY <3>2, <3>3, <3>4, <3>5, <3>6
    <3> QED BY <3>7, <3>8
  <2>2. CASE fetch[f].at = "answered"
    <3>1. Source(f) # "fresh_cache" /\ Returned(f) = fetch[f].answer
      BY <2>2, OfFetch DEF Source, Returned, Fetch
    <3>2. Since(until, fetch[f].answer.version, fetch[f].requested - Upstream)
      BY <2>2, OfFetch DEF Sound
    <3> QED BY <3>1, <3>2 DEF Since
  <2> QED BY <2>1, <2>2 DEF Returns
<1> QED BY <1>1, <1>2, <1>3, PTL DEF Spec, CurrentEnough

\* A fetch that ends where it was answered writes what it stores, or removes what it looked up.
LEMMA AnsweredWritten ==
  ASSUME IInv, [Next]_vars, NEW f \in Fetchers, fetch[f].at = "answered", fetch'[f].at = "idle"
  PROVE  Write(f)
<1>1. fetch' # fetch
  OBVIOUS
<1>2. PICK g \in Fetchers : Answer(g) \/ Step(g)
  BY <1>1 DEF Next, vars, Change, Tick, Rotate
<1>3. g = f
  <2>1. fetch \in [Fetchers -> Fetch] /\ fetch[g] \in Fetch
    BY OfFetch
  <2>2. fetch' = [fetch EXCEPT ![g] = fetch'[g]]
    BY <1>2, <2>1 DEF Answer, Step, Look, Serve, Send, Receive, Write, Refuse, Fail, Done
  <2> QED BY <2>1, <2>2
<1> QED BY <1>2, <1>3 DEF Answer, Step, Look, Serve, Send, Receive, Refuse, Fail

-----------------------------------------------------------------------------
(* What the store has beside what fetches returned. *)

Told == raced \subseteq Fetchers /\ outdone \in [Identities -> Outdone]

\* What a fetch may store is what it returns.
Answers(s) == s.at = "answered" /\ s.storing.there => s.storing.rep = s.answer

\* A fetch that found nothing, and beside which nobody stored, is right that there is nothing.
Aware(f, s) ==
  s.at # "idle" /\ f \notin raced /\ s.ask # "no-store" /\ ~s.entry => ~entries[s.key].there

\* A fetch that was not under way when a newer version was returned has asked since.
Later(f, s) ==
  s.at \in {"sent", "answered"} /\ f \notin outdone[s.key].late =>
    outdone[s.key].at <= s.requested

HInv ==
  /\ Told /\ NotBehind
  /\ \A i \in Identities : outdone[i].at <= now
  /\ \A f \in Fetchers : Answers(fetch[f]) /\ Aware(f, fetch[f]) /\ Later(f, fetch[f])

\* One fetch moves to s, and neither the store nor what was returned changes.
LEMMA MovesAware ==
  ASSUME IInv, HInv, NEW f \in Fetchers, NEW s, fetch' = [fetch EXCEPT ![f] = s],
         UNCHANGED <<now, entries, until, raced, outdone>>,
         Answers(s), Aware(f, s), Later(f, s)
  PROVE  HInv'
<1>1. \A g \in Fetchers : fetch'[g] = IF g = f THEN s ELSE fetch[g]
  BY DEF IInv, Shaped
<1>2. \A g \in Fetchers : Answers(fetch'[g]) /\ Aware(g, fetch'[g]) /\ Later(g, fetch'[g])
  BY <1>1 DEF HInv
<1>3. \A g \in Fetchers : (Answers(fetch[g]) /\ Aware(g, fetch[g]) /\ Later(g, fetch[g]))'
  BY <1>2 DEF Answers, Aware, Later
<1>4. (Told /\ NotBehind /\ \A i \in Identities : outdone[i].at <= now)'
  BY DEF HInv, Told, NotBehind
<1> QED BY <1>3, <1>4 DEF HInv

LEMMA LookAware ==
  ASSUME IInv, HInv, NEW f \in Fetchers, Look(f)
  PROVE  HInv'
<1>1. PICK ask \in Asks :
        fetch' = [fetch EXCEPT ![f] =
          [Idle EXCEPT !.at = "looked", !.ask = ask, !.key = asking[f],
                       !.entry = (IF ask = "no-store" THEN NoEntry ELSE entries[asking[f]]).there,
                       !.usable = Found(f, IF ask = "no-store" THEN NoEntry
                                           ELSE entries[asking[f]])]]
  BY DEF Look
<1> DEFINE s == [Idle EXCEPT !.at = "looked", !.ask = ask, !.key = asking[f],
                   !.entry = (IF ask = "no-store" THEN NoEntry ELSE entries[asking[f]]).there,
                   !.usable = Found(f, IF ask = "no-store" THEN NoEntry ELSE entries[asking[f]])]
<1>2. /\ s.at = "looked" /\ s.ask = ask /\ s.key = asking[f]
      /\ s.entry = (IF ask = "no-store" THEN NoEntry ELSE entries[asking[f]]).there
  BY DEF Idle
<1>3. UNCHANGED <<now, entries, until, raced, outdone>>
  BY DEF Look, origin, history
<1> HIDE DEF s
<1>4. Answers(s) /\ Aware(f, s) /\ Later(f, s)
  BY <1>2 DEF Answers, Aware, Later
<1> QED BY <1>1, <1>3, <1>4, MovesAware DEF s

LEMMA SendAware ==
  ASSUME IInv, HInv, NEW f \in Fetchers, Answer(f) \/ Send(f) \/ Receive(f)
  PROVE  HInv'
<1>1. UNCHANGED <<now, entries, until, raced, outdone>>
  BY DEF Answer, Send, Receive, origin, history
<1>2. fetch \in [Fetchers -> Fetch] /\ fetch[f] \in Fetch /\ now \in Nat /\ Sound(f, fetch[f], until, now)
  BY OfFetch
<1>3. Answers(fetch[f]) /\ Aware(f, fetch[f]) /\ Later(f, fetch[f])
  BY DEF HInv
<1>4. CASE Answer(f)
  <2>1. PICK reply : fetch' = [fetch EXCEPT ![f].reply = reply]
    BY <1>4 DEF Answer
  <2> DEFINE s == [fetch[f] EXCEPT !.reply = reply]
  <2>2. fetch' = [fetch EXCEPT ![f] = s]
    BY <1>2, <2>1
  <2>3. /\ s.at = fetch[f].at /\ s.storing = fetch[f].storing /\ s.answer = fetch[f].answer
        /\ s.ask = fetch[f].ask /\ s.entry = fetch[f].entry /\ s.key = fetch[f].key
        /\ s.requested = fetch[f].requested
    BY <1>2 DEF Fetch
  <2> HIDE DEF s
  <2>4. Answers(s) /\ Aware(f, s) /\ Later(f, s)
    BY <1>3, <2>3 DEF Answers, Aware, Later
  <2> QED BY <1>1, <2>2, <2>4, MovesAware
<1>5. CASE Send(f)
  <2> DEFINE s == [fetch[f] EXCEPT !.at = "sent", !.requested = now]
  <2>1. fetch' = [fetch EXCEPT ![f] = s] /\ fetch[f].at = "looked"
    BY <1>2, <1>5 DEF Send
  <2>2. /\ s.at = "sent" /\ s.ask = fetch[f].ask /\ s.entry = fetch[f].entry
        /\ s.key = fetch[f].key /\ s.requested = now
    BY <1>2 DEF Fetch
  <2> HIDE DEF s
  <2>3. s.key \in Identities
    BY <1>2, <2>1, <2>2 DEF Sound
  <2>4. Answers(s) /\ Aware(f, s) /\ Later(f, s)
    BY <1>3, <2>1, <2>2, <2>3 DEF HInv, Answers, Aware, Later
  <2> QED BY <1>1, <2>1, <2>4, MovesAware
<1>6. CASE Receive(f)
  <2> DEFINE reply  == fetch[f].reply
             answer == IF reply.is = "modified" THEN reply.rep ELSE fetch[f].usable.rep
             source == IF reply.is = "modified" THEN "network" ELSE "revalidated"
             none   == [NoReply EXCEPT !.as = reply.as]
             s == [fetch[f] EXCEPT !.at = "answered", !.storing = Stored(f), !.source = source,
                                   !.answer = answer, !.usable = NoEntry, !.reply = none]
  <2>1. fetch' = [fetch EXCEPT ![f] = s] /\ fetch[f].at = "sent"
        /\ reply.is \in {"modified", "unmodified"}
    BY <1>2, <1>6 DEF Receive
  <2>2. answer = reply.rep
    BY <1>2, <2>1 DEF Sound
  <2>3. Stored(f).there => Stored(f).rep = reply.rep
    BY Blank DEF Stored
  <2> HIDE DEF answer, none, source
  <2>4. /\ s.at = "answered" /\ s.storing = Stored(f) /\ s.answer = answer
        /\ s.ask = fetch[f].ask /\ s.entry = fetch[f].entry /\ s.key = fetch[f].key
        /\ s.requested = fetch[f].requested
    BY <1>2 DEF Fetch
  <2> HIDE DEF s
  <2>5. Answers(s) /\ Aware(f, s) /\ Later(f, s)
    BY <1>3, <2>1, <2>2, <2>3, <2>4 DEF Answers, Aware, Later
  <2> QED BY <1>1, <2>1, <2>5, MovesAware
<1> QED BY <1>4, <1>5, <1>6

\* A fetch that ends and stores nothing leaves the other fetches as right as they were.
LEMMA GoneAware ==
  ASSUME IInv, HInv, NEW f \in Fetchers, Done(f),
         fetch[f].key \in Identities, UNCHANGED <<now, until>>,
         \A i \in Identities : entries'[i].there => entries'[i] = entries[i],
         \/ Gone(f)
         \/ /\ Outdoes(f) /\ ~entries'[fetch[f].key].there
            /\ fetch[f].answer.version \in Versions
  PROVE  HInv'
<1> DEFINE k == fetch[f].key
<1>1. \A g \in Fetchers : fetch'[g] = IF g = f THEN Idle ELSE fetch[g]
  BY DEF Done, IInv, Shaped
<1>2. raced' = raced \ {f} /\ raced' \subseteq Fetchers
  BY DEF Gone, Outdoes, HInv, Told
<1>3. outdone \in [Identities -> Outdone] /\ outdone[k] \in Outdone /\ now \in Nat /\ now \in Times
  BY OfFetch DEF HInv, Told
<1>4. \/ /\ Gone(f) /\ outdone' = [outdone EXCEPT ![k] = [outdone[k] EXCEPT !.late = @ \ {f}]]
      \/ /\ Outdoes(f) /\ ~entries'[k].there /\ fetch[f].answer.version \in Versions
         /\ outdone' = [outdone EXCEPT ![k] =
              [version |-> fetch[f].answer.version, at |-> now, late |-> Beside(f)]]
  BY <1>3 DEF Gone, Outdoes
<1>5. \A i \in Identities : i # k => outdone'[i] = outdone[i]
  BY <1>3, <1>4
<1>6. Gone(f) /\ outdone' = [outdone EXCEPT ![k] = [outdone[k] EXCEPT !.late = @ \ {f}]] =>
        /\ outdone'[k] \in Outdone /\ outdone'[k].version = outdone[k].version
        /\ outdone'[k].at = outdone[k].at /\ outdone'[k].late = outdone[k].late \ {f}
  BY <1>3 DEF Outdone
<1>7. Outdoes(f) /\ fetch[f].answer.version \in Versions /\ outdone' = [outdone EXCEPT ![k] =
             [version |-> fetch[f].answer.version, at |-> now, late |-> Beside(f)]] =>
        /\ outdone'[k] \in Outdone /\ outdone'[k].at = now /\ outdone'[k].late = Beside(f)
  BY <1>3 DEF Outdone, Beside
<1>8. outdone' \in [Identities -> Outdone]
  BY <1>3, <1>4, <1>6, <1>7
<1>9. \A i \in Identities : outdone'[i].at <= now'
  BY <1>3, <1>4, <1>5, <1>6, <1>7 DEF HInv
<1>10. NotBehind'
  <2> SUFFICES ASSUME NEW i \in Identities, entries'[i].there
               PROVE  LET gone == until[entries[i].rep.version] IN
                      \/ entries[i].rep.version >= outdone'[i].version
                      \/ gone = None \/ gone >= outdone'[i].at - Upstream
    BY DEF NotBehind
  <2>1. entries'[i] = entries[i] /\ entries[i].there
    OBVIOUS
  <2>2. outdone'[i].version = outdone[i].version /\ outdone'[i].at = outdone[i].at
    BY <1>4, <1>5, <1>6
  <2> QED BY <2>1, <2>2 DEF HInv, NotBehind
<1>11. ASSUME NEW g \in Fetchers
       PROVE  (Answers(fetch[g]) /\ Aware(g, fetch[g]) /\ Later(g, fetch[g]))'
  <2>1. CASE g = f
    BY <1>1, <2>1 DEF Answers, Aware, Later, Idle
  <2>2. CASE g # f
    <3>1. fetch'[g] = fetch[g] /\ Answers(fetch[g]) /\ Aware(g, fetch[g]) /\ Later(g, fetch[g])
      BY <1>1, <2>2 DEF HInv
    <3>2. fetch[g].at # "idle" => fetch[g].key \in Identities
      BY OfFetch DEF Sound
    <3>3. (Answers(fetch[g]) /\ Aware(g, fetch[g]))'
      BY <1>2, <2>2, <3>1, <3>2 DEF Answers, Aware
    <3>4. Later(g, fetch[g])'
      <4> SUFFICES ASSUME fetch[g].at \in {"sent", "answered"},
                          g \notin outdone'[fetch[g].key].late
                   PROVE  outdone'[fetch[g].key].at <= fetch[g].requested
        BY <3>1 DEF Later
      <4>1. CASE fetch[g].key # k
        BY <1>5, <3>1, <3>2, <4>1 DEF Later
      <4>2. CASE fetch[g].key = k
        <5>1. ~Outdoes(f) \/ g \in Beside(f)
          BY <2>2, <4>2 DEF Beside
        <5>2. g \notin outdone[k].late /\ outdone'[k].at = outdone[k].at
          BY <1>4, <1>6, <1>7, <2>2, <4>2, <5>1
        <5> QED BY <3>1, <4>2, <5>2 DEF Later
      <4> QED BY <4>1, <4>2
    <3> QED BY <3>3, <3>4
  <2> QED BY <2>1, <2>2
<1> QED BY <1>2, <1>8, <1>9, <1>10, <1>11 DEF HInv, Told

\* One that stores races the others for its key, and undoes what it was under way beside.
LEMMA StoredAware ==
  ASSUME IInv, HInv, NEW f \in Fetchers, Write(f), fetch[f].storing.there
  PROVE  HInv'
<1> DEFINE k == fetch[f].key
           e == fetch[f].storing
<1>1. /\ fetch[f].at = "answered" /\ Put(k, e) /\ Done(f) /\ Overtakes(f)
      /\ UNCHANGED <<now, until>>
  BY DEF Write, Recorded, origin
<1>2. k \in Identities /\ now \in Nat /\ fetch[f] \in Fetch /\ Sound(f, fetch[f], until, now)
  BY <1>1, OfFetch DEF Sound
<1>3. \A g \in Fetchers : fetch'[g] = IF g = f THEN Idle ELSE fetch[g]
  BY <1>1 DEF Done, IInv, Shaped
<1>4. raced' = (raced \ {f}) \cup Beside(f) /\ raced' \subseteq Fetchers
  BY <1>1 DEF Overtakes, Beside, HInv, Told
<1>5. outdone \in [Identities -> Outdone] /\ outdone[k] \in Outdone
  BY <1>2 DEF HInv, Told
<1>6. /\ \A i \in Identities : i # k => outdone'[i] = outdone[i]
      /\ outdone'[k] = IF f \in outdone[k].late THEN [version |-> 0, at |-> 0, late |-> {}]
                       ELSE outdone[k]
  BY <1>1, <1>2, <1>5 DEF Overtakes
<1>7. [version |-> 0, at |-> 0, late |-> {}] \in Outdone
  BY CacheAssumption DEF Outdone, Versions, Times
<1>8. outdone' \in [Identities -> Outdone]
  BY <1>1, <1>2, <1>5, <1>7 DEF Overtakes
<1>9. \A i \in Identities : outdone'[i].at <= now'
  BY <1>1, <1>2, <1>6 DEF HInv
<1>10. \A i \in Identities :
         entries'[i].there => entries'[i] = IF i = k THEN e ELSE entries[i]
  <2>1. PICK out : entries' = [i \in Identities |-> IF i \in out THEN NoEntry
                                                    ELSE IF i = k THEN e ELSE entries[i]]
    BY <1>1 DEF Put
  <2> QED BY <2>1, Blank
<1>11. NotBehind'
  <2> SUFFICES ASSUME NEW i \in Identities, entries'[i].there
               PROVE  LET gone == until[entries'[i].rep.version] IN
                      \/ entries'[i].rep.version >= outdone'[i].version
                      \/ gone = None \/ gone >= outdone'[i].at - Upstream
    BY <1>1 DEF NotBehind
  <2>1. CASE i # k
    BY <1>6, <1>10, <2>1 DEF HInv, NotBehind
  <2>2. CASE i = k
    <3>1. entries'[i] = e /\ e.rep = fetch[f].answer
      BY <1>1, <1>10, <2>2 DEF HInv, Answers
    <3>2. e.rep.version \in Versions /\ e.rep.version \in Nat
      BY <1>2, CacheAssumption DEF Fetch, Entries, Representations, Versions
    <3>3. CASE f \in outdone[k].late
      BY <1>6, <2>2, <3>1, <3>2, <3>3
    <3>4. CASE f \notin outdone[k].late
      <4>1. outdone'[i] = outdone[k] /\ outdone[k].at <= fetch[f].requested
        BY <1>1, <1>6, <2>2, <3>4 DEF HInv, Later
      <4>2. Since(until, e.rep.version, fetch[f].requested - Upstream)
        BY <1>1, <1>2, <3>1 DEF Sound
      <4>3. /\ outdone[k].at \in Nat /\ fetch[f].requested \in Nat /\ Upstream \in Nat
            /\ until[e.rep.version] \in Int
        BY <1>2, <1>5, <3>2, OfFetch, CacheAssumption DEF Outdone, Fetch, Times, None
      <4> HIDE DEF k, e
      <4> QED BY <3>1, <4>1, <4>2, <4>3 DEF Since
    <3> QED BY <3>3, <3>4
  <2> QED BY <2>1, <2>2
<1>12. ASSUME NEW g \in Fetchers
       PROVE  (Answers(fetch[g]) /\ Aware(g, fetch[g]) /\ Later(g, fetch[g]))'
  <2>1. CASE g = f
    BY <1>3, <2>1 DEF Answers, Aware, Later, Idle
  <2>2. CASE g # f
    <3>1. fetch'[g] = fetch[g] /\ Answers(fetch[g]) /\ Aware(g, fetch[g]) /\ Later(g, fetch[g])
      BY <1>3, <2>2 DEF HInv
    <3>2. fetch[g] \in Fetch /\ (fetch[g].at # "idle" => fetch[g].key \in Identities)
      BY OfFetch DEF Sound
    <3>3. Answers(fetch[g])'
      BY <3>1 DEF Answers
    <3>4. Aware(g, fetch[g])'
      <4> SUFFICES ASSUME fetch[g].at # "idle", g \notin raced', fetch[g].ask # "no-store",
                          ~fetch[g].entry
                   PROVE  ~entries'[fetch[g].key].there
        BY <3>1 DEF Aware
      <4>1. g \notin raced /\ fetch[g].key # k
        BY <1>4, <2>2 DEF Beside
      <4> QED BY <1>10, <3>1, <3>2, <4>1 DEF Aware
    <3>5. Later(g, fetch[g])'
      <4> SUFFICES ASSUME fetch[g].at \in {"sent", "answered"},
                          g \notin outdone'[fetch[g].key].late
                   PROVE  outdone'[fetch[g].key].at <= fetch[g].requested
        BY <3>1 DEF Later
      <4>1. fetch[g].requested \in Nat
        BY <3>2, CacheAssumption DEF Fetch, Times
      <4>2. CASE outdone'[fetch[g].key] = outdone[fetch[g].key]
        BY <3>1, <4>2 DEF Later
      <4>3. CASE outdone'[fetch[g].key] = [version |-> 0, at |-> 0, late |-> {}]
        BY <4>1, <4>3
      <4> QED BY <1>6, <3>2, <4>2, <4>3
    <3> QED BY <3>3, <3>4, <3>5
  <2> QED BY <2>1, <2>2
<1> QED BY <1>4, <1>8, <1>9, <1>11, <1>12 DEF HInv, Told

\* Every way in which a fetch ends keeps the history right.
LEMMA EndsAware ==
  ASSUME IInv, HInv, NEW f \in Fetchers, Serve(f) \/ Write(f) \/ Refuse(f) \/ Fail(f)
  PROVE  HInv'
<1>1. fetch[f].at # "idle" /\ fetch[f].key \in Identities /\ fetch[f] \in Fetch
  BY OfFetch DEF Serve, Write, Refuse, Fail, Sound
<1>2. Done(f) /\ UNCHANGED <<now, until>>
  BY DEF Serve, Write, Refuse, Fail, origin
<1>3. \A key : Delete(key) => \A i \in Identities : entries'[i].there => entries'[i] = entries[i]
  BY Blank, OfFetch DEF Delete
<1>4. CASE Serve(f) \/ Refuse(f) \/ Fail(f)
  <2>1. Gone(f) /\ \A i \in Identities : entries'[i].there => entries'[i] = entries[i]
    BY <1>3, <1>4 DEF Serve, Refuse, Fail
  <2> QED BY <1>1, <1>2, <2>1, GoneAware
<1>5. CASE Write(f) /\ fetch[f].storing.there
  BY <1>5, StoredAware
<1>6. CASE Write(f) /\ ~fetch[f].storing.there
  <2>1. /\ IF fetch[f].entry THEN Delete(fetch[f].key) ELSE entries' = entries
        /\ (Newest(f) /\ Outdoes(f)) \/ (~Newest(f) /\ Gone(f))
    BY <1>6 DEF Write, Recorded
  <2>2. \A i \in Identities : entries'[i].there => entries'[i] = entries[i]
    BY <1>3, <2>1
  <2>3. fetch[f].answer.version \in Versions
    BY <1>1 DEF Fetch, Representations
  <2>4. ASSUME Newest(f) PROVE ~entries'[fetch[f].key].there
    <3>1. CASE fetch[f].entry
      BY <1>1, <2>1, <3>1, Blank, OfFetch DEF Delete
    <3>2. CASE ~fetch[f].entry
      BY <1>1, <2>1, <2>4, <3>2 DEF HInv, Aware, Newest
    <3> QED BY <3>1, <3>2
  <2> QED BY <1>1, <1>2, <2>1, <2>2, <2>3, <2>4, GoneAware
<1> QED BY <1>4, <1>5, <1>6

LEMMA TimeAware ==
  ASSUME IInv, HInv, Change \/ Tick \/ UNCHANGED vars
  PROVE  HInv'
<1>1. UNCHANGED <<entries, fetch, raced, outdone>>
  BY DEF Change, Tick, vars, origin, history
<1>2. now \in Nat /\ now' \in Nat /\ now <= now'
  BY CacheAssumption DEF IInv, Shaped, Times, Change, Tick, vars
<1>3. ASSUME NEW v \in Versions
      PROVE  until'[v] = until[v] \/ until'[v] = now
  <2>1. CASE Change
    BY <2>1 DEF Change, IInv, Shaped
  <2>2. CASE Tick \/ UNCHANGED vars
    BY <2>2 DEF Tick, vars, origin
  <2> QED BY <2>1, <2>2
<1>4. ASSUME NEW i \in Identities
      PROVE  outdone[i].at \in Nat /\ outdone[i].at <= now /\ outdone[i].at <= now'
  <2>1. outdone[i] \in Outdone /\ outdone[i].at <= now
    BY DEF HInv, Told
  <2> QED BY <1>2, <2>1, CacheAssumption DEF Outdone, Times
<1>5. NotBehind'
  <2> SUFFICES ASSUME NEW i \in Identities, entries[i].there
               PROVE  LET gone == until'[entries[i].rep.version] IN
                      \/ entries[i].rep.version >= outdone[i].version
                      \/ gone = None \/ gone >= outdone[i].at - Upstream
    BY <1>1 DEF NotBehind
  <2>1. entries[i].rep.version \in Versions
    BY DEF IInv, Shaped, Entries, Representations
  <2>2. CASE until'[entries[i].rep.version] = until[entries[i].rep.version]
    BY <2>2 DEF HInv, NotBehind
  <2>3. CASE until'[entries[i].rep.version] = now
    BY <1>2, <1>4, <2>3, CacheAssumption
  <2> QED BY <1>3, <2>1, <2>2, <2>3
<1>6. (Told /\ \A i \in Identities : outdone[i].at <= now)'
  BY <1>1, <1>4 DEF HInv, Told
<1>7. \A f \in Fetchers : (Answers(fetch[f]) /\ Aware(f, fetch[f]) /\ Later(f, fetch[f]))'
  BY <1>1 DEF HInv, Answers, Aware, Later
<1> QED BY <1>5, <1>6, <1>7 DEF HInv

\* The history, and what it tells of the store, hold from the start and after every step.
LEMMA HistoryKept ==
  /\ Init => HInv
  /\ IInv /\ HInv /\ [Next]_vars => HInv'
<1>1. ASSUME Init PROVE HInv
  <2>1. Told
    BY <1>1, CacheAssumption DEF Init, Told, Outdone, Versions, Times
  <2>2. NotBehind
    BY <1>1, Blank DEF Init, NotBehind
  <2>3. \A i \in Identities : outdone[i].at <= now
    BY <1>1 DEF Init
  <2>4. \A f \in Fetchers : Answers(fetch[f]) /\ Aware(f, fetch[f]) /\ Later(f, fetch[f])
    BY <1>1 DEF Init, Idle, Answers, Aware, Later
  <2> QED BY <2>1, <2>2, <2>3, <2>4 DEF HInv
<1>2. ASSUME IInv, HInv, [Next]_vars PROVE HInv'
  <2>1. CASE Change \/ Tick \/ UNCHANGED vars
    BY <1>2, <2>1, TimeAware
  <2>2. ASSUME NEW f \in Fetchers, Rotate(f) PROVE HInv'
    <3>1. UNCHANGED <<now, until, entries, fetch, raced, outdone>>
      BY <2>2 DEF Rotate, origin, history
    <3> QED BY <1>2, <3>1 DEF HInv, Told, NotBehind, Answers, Aware, Later
  <2>3. ASSUME NEW f \in Fetchers, Answer(f) \/ Step(f) PROVE HInv'
    BY <1>2, <2>3, LookAware, SendAware, EndsAware DEF Step
  <2> QED BY <1>2, <2>1, <2>2, <2>3 DEF Next
<1> QED BY <1>1, <1>2

\* Once a fetch that looked its key up has returned a version it may not store, the store has an
\* older one for that key only if it was current until then, or if a fetch then under way stored it
\* (NotBehind): the entry looked up is removed whatever variant it is of, what others store beside
\* it is known to have been asked for meanwhile, and a later fetch stores only what was current when
\* it asked (fetch, _settled and stored in _runtime/protocols/cache.py).
THEOREM StoreNotBehind == Spec => []NotBehind
<1>1. Init => IInv /\ HInv
  BY Initially, HistoryKept
<1>2. IInv /\ HInv /\ [Next]_vars => (IInv /\ HInv)'
  BY Inductive, HistoryKept
<1>3. HInv => NotBehind
  BY DEF HInv
<1> QED BY <1>1, <1>2, <1>3, PTL DEF Spec

-----------------------------------------------------------------------------
(* One fetch at a time. *)

\* What a fetch found when it looked is what the store still has.
Untouched ==
  \A f \in Fetchers :
    fetch[f].at # "idle" /\ fetch[f].ask # "no-store" =>
      (fetch[f].entry <=> entries[fetch[f].key].there)

\* One fetcher leaves the store as it found it until it ends.
LEMMA UntouchedKept ==
  ASSUME IInv, Untouched, [Next]_vars, \A f, g \in Fetchers : f = g
  PROVE  Untouched'
<1> SUFFICES ASSUME NEW f \in Fetchers, fetch'[f].at # "idle", fetch'[f].ask # "no-store"
             PROVE  fetch'[f].entry <=> entries'[fetch'[f].key].there
  BY DEF Untouched
<1>1. fetch \in [Fetchers -> Fetch] /\ fetch[f] \in Fetch
  BY OfFetch
<1>2. CASE UNCHANGED <<fetch, entries>>
  BY <1>2 DEF Untouched
<1>3. CASE Answer(f) \/ Send(f) \/ Receive(f)
  <2>1. /\ fetch'[f].entry = fetch[f].entry /\ fetch'[f].key = fetch[f].key
        /\ fetch'[f].ask = fetch[f].ask /\ fetch[f].at # "idle" /\ entries' = entries
    <3>1. CASE Answer(f)
      <4>1. PICK reply : fetch' = [fetch EXCEPT ![f].reply = reply]
        BY <3>1 DEF Answer
      <4> QED BY <1>1, <3>1, <4>1 DEF Answer, Fetch
    <3>2. CASE Send(f)
      BY <1>1, <3>2 DEF Send, Fetch
    <3>3. CASE Receive(f)
      <4>1. PICK storing, source, answer, usable, reply :
              fetch' = [fetch EXCEPT ![f].at = "answered", ![f].storing = storing,
                                     ![f].source = source, ![f].answer = answer,
                                     ![f].usable = usable, ![f].reply = reply]
        BY <3>3 DEF Receive
      <4> QED BY <1>1, <3>3, <4>1 DEF Receive, Fetch
    <3> QED BY <1>3, <3>1, <3>2, <3>3
  <2> QED BY <2>1 DEF Untouched
<1>4. CASE Look(f)
  <2>1. PICK ask \in Asks :
          fetch' = [fetch EXCEPT ![f] =
            [Idle EXCEPT !.at = "looked", !.ask = ask, !.key = asking[f],
                         !.entry = (IF ask = "no-store" THEN NoEntry ELSE entries[asking[f]]).there,
                         !.usable = Found(f, IF ask = "no-store" THEN NoEntry
                                             ELSE entries[asking[f]])]]
    BY <1>4 DEF Look
  <2>2. /\ fetch'[f].ask = ask /\ fetch'[f].key = asking[f]
        /\ fetch'[f].entry = (IF ask = "no-store" THEN NoEntry ELSE entries[asking[f]]).there
    BY <1>1, <2>1 DEF Idle
  <2>3. entries' = entries
    BY <1>4 DEF Look
  <2> QED BY <2>2, <2>3
<1>5. CASE Serve(f) \/ Write(f) \/ Refuse(f) \/ Fail(f)
  BY <1>1, <1>5 DEF Serve, Write, Refuse, Fail, Done, Idle
<1>6. CASE \E g \in Fetchers : Rotate(g) \/ Answer(g) \/ Step(g)
  <2>1. Rotate(f) \/ Answer(f) \/ Step(f)
    BY <1>6
  <2> QED BY <1>2, <1>3, <1>4, <1>5, <2>1 DEF Rotate, Step
<1> QED BY <1>2, <1>6 DEF Next, vars, Change, Tick

\* One fetch after the other, a response that may not be stored always removes what its key has
\* (SupersededAlways), as the documentation says: only a write of another fetch, between this one's
\* lookup and its end, can leave an older entry behind (fetch in _runtime/protocols/cache.py).
THEOREM SupersededAlone ==
  ASSUME \A f, g \in Fetchers : f = g
  PROVE  Spec => SupersededAlways
<1>1. Init => IInv /\ Untouched
  <2>1. Init => Untouched
    BY DEF Init, Untouched, Idle
  <2> QED BY <2>1, Initially
<1>2. IInv /\ Untouched /\ [Next]_vars => (IInv /\ Untouched)'
  BY Inductive, UntouchedKept
<1>3. IInv /\ Untouched /\ [Next]_vars =>
        [\A f \in Fetchers : LET mine == fetch[f] IN
           (Returns(f) /\ Source(f) = "network"
              /\ ~mine.storing.there /\ mine.ask # "no-store" /\ mine.reply.as = mine.key)
             => ~(entries'[mine.key].there
                  /\ entries'[mine.key].rep.version < mine.answer.version)]_vars
  <2> SUFFICES ASSUME IInv, Untouched, [Next]_vars, NEW f \in Fetchers, Returns(f),
                      Source(f) = "network", ~fetch[f].storing.there, fetch[f].ask # "no-store"
               PROVE  ~entries'[fetch[f].key].there
    OBVIOUS
  <2>1. fetch[f].at = "answered"
    BY DEF Returns, Source
  <2>2. fetch[f].key \in Identities /\ entries \in [Identities -> Entries]
    BY <2>1, OfFetch DEF Sound
  <2>3. IF fetch[f].entry THEN Delete(fetch[f].key) ELSE entries' = entries
    BY <2>1, AnsweredWritten DEF Returns, Write
  <2>4. fetch[f].entry <=> entries[fetch[f].key].there
    BY <2>1 DEF Untouched
  <2> QED BY <2>2, <2>3, <2>4, Blank DEF Delete
<1> QED BY <1>1, <1>2, <1>3, PTL DEF Spec, SupersededAlways
-----------------------------------------------------------------------------
(* The store's order. *)

\* The keys of the store, each once, and no more of them than it may keep.
Ordered ==
  /\ used \in Seq(Identities) /\ IsInjective(used)
  /\ ToSet(used) = {i \in Identities : entries[i].there}
  /\ Len(used) <= MaxEntries

\* The order with one place left out.
LEMMA RemoveAtIs ==
  ASSUME NEW S, NEW s \in Seq(S), NEW p \in 1..Len(s)
  PROVE  /\ RemoveAt(s, p) \in Seq(S) /\ Len(RemoveAt(s, p)) = Len(s) - 1
         /\ \A i \in 1..(Len(s) - 1) : RemoveAt(s, p)[i] = IF i < p THEN s[i] ELSE s[i + 1]
<1> DEFINE head == SubSeq(s, 1, p - 1)
           tail == SubSeq(s, p + 1, Len(s))
<1>1. Len(s) \in Nat /\ \A i \in 1..Len(s) : s[i] \in S
  BY LenProperties, ElementOfSeq
<1>2. /\ head \in Seq(S) /\ Len(head) = p - 1
      /\ \A i \in 1..(p - 1) : head[i] = s[i]
  <2>1. \A i \in 1..(p - 1) : s[i] \in S
    BY <1>1
  <2>2. /\ SubSeq(s, 1, p - 1) \in Seq(S)
        /\ Len(SubSeq(s, 1, p - 1)) = IF 1 <= p - 1 THEN p - 1 - 1 + 1 ELSE 0
        /\ \A i \in 1..(p - 1 - 1 + 1) : SubSeq(s, 1, p - 1)[i] = s[1 + i - 1]
    BY <1>1, <2>1, SubSeqProperties
  <2> QED BY <1>1, <2>2
<1>3. /\ tail \in Seq(S) /\ Len(tail) = Len(s) - p
      /\ \A i \in 1..(Len(s) - p) : tail[i] = s[p + i]
  <2>1. \A i \in (p + 1)..Len(s) : s[i] \in S
    BY <1>1
  <2>2. /\ SubSeq(s, p + 1, Len(s)) \in Seq(S)
        /\ Len(SubSeq(s, p + 1, Len(s))) = IF p + 1 <= Len(s) THEN Len(s) - (p + 1) + 1 ELSE 0
        /\ \A i \in 1..(Len(s) - (p + 1) + 1) : SubSeq(s, p + 1, Len(s))[i] = s[p + 1 + i - 1]
    BY <1>1, <2>1, SubSeqProperties
  <2> QED BY <1>1, <2>2
<1>4. RemoveAt(s, p) = head \o tail
  BY DEF RemoveAt
<1> HIDE DEF head, tail
<1>5. /\ head \o tail \in Seq(S) /\ Len(head \o tail) = Len(head) + Len(tail)
      /\ \A i \in 1..(Len(head) + Len(tail)) :
           (head \o tail)[i] = IF i <= Len(head) THEN head[i] ELSE tail[i - Len(head)]
  BY <1>2, <1>3, ConcatProperties
<1>6. ASSUME NEW i \in 1..(Len(s) - 1)
      PROVE  (head \o tail)[i] = IF i < p THEN s[i] ELSE s[i + 1]
  <2>1. CASE i < p
    BY <1>1, <1>2, <1>3, <1>5, <2>1
  <2>2. CASE ~(i < p)
    <3>1. i - (p - 1) \in 1..(Len(s) - p) /\ p + (i - (p - 1)) = i + 1
      BY <1>1, <2>2
    <3>2. i \in 1..(Len(head) + Len(tail)) /\ ~(i <= Len(head)) /\ Len(head) = p - 1
      BY <1>1, <1>2, <1>3, <2>2
    <3>3. (head \o tail)[i] = tail[i - (p - 1)]
      BY <1>5, <3>2
    <3>4. tail[i - (p - 1)] = s[i + 1]
      BY <1>3, <3>1
    <3> QED BY <2>2, <3>3, <3>4
  <2> QED BY <2>1, <2>2
<1>7. head \o tail \in Seq(S) /\ Len(head \o tail) = Len(s) - 1
  BY <1>1, <1>2, <1>3, <1>5
<1> QED BY <1>4, <1>6, <1>7

\* The order without a key has every other key, each once.
LEMMA WithoutIs ==
  ASSUME Ordered, NEW key
  PROVE  /\ Without(key) \in Seq(Identities) /\ IsInjective(Without(key))
         /\ ToSet(Without(key)) = ToSet(used) \ {key}
         /\ Len(Without(key)) = IF key \in ToSet(used) THEN Len(used) - 1 ELSE Len(used)
<1>1. CASE key \notin ToSet(used)
  BY <1>1 DEF Without, Ordered
<1>2. CASE key \in ToSet(used)
  <2> DEFINE p == CHOOSE n \in DOMAIN used : used[n] = key
             rest == RemoveAt(used, p)
  <2>1. Len(used) \in Nat /\ DOMAIN used = 1..Len(used)
    BY LenProperties DEF Ordered
  <2>2. p \in 1..Len(used) /\ used[p] = key
    BY <1>2, <2>1 DEF ToSet
  <2> HIDE DEF p
  <2>3. /\ rest \in Seq(Identities) /\ Len(rest) = Len(used) - 1
        /\ \A i \in 1..(Len(used) - 1) : rest[i] = IF i < p THEN used[i] ELSE used[i + 1]
    BY <2>2, RemoveAtIs DEF Ordered
  <2>4. Without(key) = rest
    BY <1>2 DEF Without, p
  <2> HIDE DEF rest
  <2>5. DOMAIN rest = 1..(Len(used) - 1)
    BY <2>3, LenProperties
  <2>6. \A m, n \in 1..Len(used) : used[m] = used[n] => m = n
    BY <2>1 DEF Ordered, IsInjective
  <2>7. IsInjective(rest)
    <3> SUFFICES ASSUME NEW i \in 1..(Len(used) - 1), NEW j \in 1..(Len(used) - 1),
                        rest[i] = rest[j]
                 PROVE  i = j
      BY <2>5 DEF IsInjective
    <3>1. CASE i < p /\ j < p
      BY <2>1, <2>3, <2>6, <3>1
    <3>2. CASE i < p /\ ~(j < p)
      <4>1. used[i] = used[j + 1] /\ j + 1 \in 1..Len(used) /\ i \in 1..Len(used)
        BY <2>1, <2>3, <3>2
      <4> QED BY <2>2, <2>6, <3>2, <4>1
    <3>3. CASE ~(i < p) /\ j < p
      <4>1. used[i + 1] = used[j] /\ i + 1 \in 1..Len(used) /\ j \in 1..Len(used)
        BY <2>1, <2>3, <3>3
      <4> QED BY <2>2, <2>6, <3>3, <4>1
    <3>4. CASE ~(i < p) /\ ~(j < p)
      <4>1. used[i + 1] = used[j + 1] /\ i + 1 \in 1..Len(used) /\ j + 1 \in 1..Len(used)
        BY <2>1, <2>3, <3>4
      <4> QED BY <2>6, <4>1
    <3> QED BY <3>1, <3>2, <3>3, <3>4
  <2>8. ASSUME NEW i \in 1..(Len(used) - 1) PROVE rest[i] \in ToSet(used) \ {key}
    <3>1. \E n \in 1..Len(used) : n # p /\ rest[i] = used[n]
      <4>1. CASE i < p
        BY <2>1, <2>2, <2>3, <4>1
      <4>2. CASE ~(i < p)
        <5>1. i + 1 \in 1..Len(used) /\ i + 1 # p /\ rest[i] = used[i + 1]
          BY <2>1, <2>2, <2>3, <4>2
        <5> QED BY <5>1
      <4> QED BY <4>1, <4>2
    <3> QED BY <2>1, <2>2, <2>6, <3>1 DEF ToSet
  <2>9. ASSUME NEW n \in 1..Len(used), used[n] # key
        PROVE  \E i \in 1..(Len(used) - 1) : rest[i] = used[n]
    <3>1. CASE n < p
      <4>1. n \in 1..(Len(used) - 1) /\ rest[n] = used[n]
        BY <2>1, <2>2, <2>3, <3>1
      <4> QED BY <4>1
    <3>2. CASE n > p
      <4>1. n - 1 \in 1..(Len(used) - 1) /\ ~(n - 1 < p) /\ (n - 1) + 1 = n
        BY <2>1, <2>2, <3>2
      <4> QED BY <2>3, <4>1
    <3> QED BY <2>1, <2>2, <2>9, <3>1, <3>2
  <2>10. ToSet(rest) = ToSet(used) \ {key}
    BY <2>1, <2>5, <2>8, <2>9 DEF ToSet
  <2> QED BY <1>2, <2>3, <2>4, <2>7, <2>10
<1> QED BY <1>1, <1>2

\* A key that was used is the last of the order, and in it once.
LEMMA TouchedIs ==
  ASSUME Ordered, NEW key \in Identities
  PROVE  /\ Touched(key) \in Seq(Identities) /\ IsInjective(Touched(key))
         /\ ToSet(Touched(key)) = ToSet(used) \cup {key}
         /\ Len(Touched(key)) = IF key \in ToSet(used) THEN Len(used) ELSE Len(used) + 1
<1> DEFINE rest == Without(key)
           all == Touched(key)
<1>1. /\ rest \in Seq(Identities) /\ IsInjective(rest) /\ ToSet(rest) = ToSet(used) \ {key}
      /\ Len(rest) = IF key \in ToSet(used) THEN Len(used) - 1 ELSE Len(used)
  BY WithoutIs
<1>2. Len(used) \in Nat /\ Len(rest) \in Nat /\ DOMAIN rest = 1..Len(rest)
  BY <1>1, LenProperties DEF Ordered
<1>3. all = Append(rest, key)
  BY DEF Touched
<1> HIDE DEF rest, all
<1>4. /\ all \in Seq(Identities) /\ Len(all) = Len(rest) + 1
      /\ \A i \in 1..Len(rest) : all[i] = rest[i]
      /\ all[Len(rest) + 1] = key
  BY <1>1, <1>3, AppendProperties
<1>5. DOMAIN all = 1..(Len(rest) + 1)
  BY <1>4, LenProperties
<1>6. \A i \in 1..Len(rest) : rest[i] # key
  BY <1>1, <1>2 DEF ToSet
<1>7. IsInjective(all)
  <2>1. \A i \in 1..(Len(rest) + 1) : i \in 1..Len(rest) \/ i = Len(rest) + 1
    BY <1>2
  <2>2. \A i, j \in 1..Len(rest) : rest[i] = rest[j] => i = j
    BY <1>1, <1>2 DEF IsInjective
  <2> QED BY <1>4, <1>5, <1>6, <2>1, <2>2 DEF IsInjective
<1>8. ToSet(all) = ToSet(rest) \cup {key}
  <2>1. \A i \in 1..(Len(rest) + 1) : i \in 1..Len(rest) \/ i = Len(rest) + 1
    BY <1>2
  <2>2. Len(rest) + 1 \in 1..(Len(rest) + 1) /\ 1..Len(rest) \subseteq 1..(Len(rest) + 1)
    BY <1>2
  <2> QED BY <1>2, <1>4, <1>5, <2>1, <2>2 DEF ToSet
<1> QED BY <1>1, <1>2, <1>4, <1>7, <1>8 DEF all, rest

\* What is left of an order when its first keys leave.
LEMMA LeftIs ==
  ASSUME NEW S, NEW s \in Seq(S), IsInjective(s), NEW gone \in 0..Len(s)
  PROVE  LET left == SubSeq(s, gone + 1, Len(s))
         IN /\ left \in Seq(S) /\ IsInjective(left) /\ Len(left) = Len(s) - gone
            /\ ToSet(left) = ToSet(s) \ {s[n] : n \in 1..gone}
<1> DEFINE left == SubSeq(s, gone + 1, Len(s))
<1>1. Len(s) \in Nat /\ DOMAIN s = 1..Len(s) /\ \A i \in 1..Len(s) : s[i] \in S
  BY LenProperties, ElementOfSeq
<1>2. /\ left \in Seq(S) /\ Len(left) = Len(s) - gone
      /\ \A i \in 1..(Len(s) - gone) : left[i] = s[gone + i]
  <2>1. \A i \in (gone + 1)..Len(s) : s[i] \in S
    BY <1>1
  <2>2. /\ SubSeq(s, gone + 1, Len(s)) \in Seq(S)
        /\ Len(SubSeq(s, gone + 1, Len(s)))
             = IF gone + 1 <= Len(s) THEN Len(s) - (gone + 1) + 1 ELSE 0
        /\ \A i \in 1..(Len(s) - (gone + 1) + 1) :
             SubSeq(s, gone + 1, Len(s))[i] = s[gone + 1 + i - 1]
    BY <1>1, <2>1, SubSeqProperties
  <2>3. gone \in Int /\ 0 <= gone /\ gone <= Len(s) /\ Len(s) - (gone + 1) + 1 = Len(s) - gone
    BY <1>1
  <2>4. Len(left) = Len(s) - gone
    <3> HIDE DEF left
    <3> DEFINE length == Len(s)
    <3>1. Len(left) = IF gone + 1 <= length THEN length - (gone + 1) + 1 ELSE 0
      BY <2>2 DEF left
    <3>2. length \in Nat /\ gone <= length /\ gone \in Int
      BY <1>1, <2>3
    <3> HIDE DEF length
    <3>3. Len(left) = length - gone
      BY <3>1, <3>2
    <3> QED BY <3>3 DEF length
  <2>5. \A i \in 1..(Len(s) - gone) : left[i] = s[gone + i]
    <3> SUFFICES ASSUME NEW i \in 1..(Len(s) - gone) PROVE left[i] = s[gone + i]
      OBVIOUS
    <3>1. i \in Int /\ gone + 1 + i - 1 = gone + i
      BY <2>3
    <3> QED BY <2>2, <2>3, <3>1
  <2> QED BY <2>2, <2>4, <2>5
<1> HIDE DEF left
<1>3. DOMAIN left = 1..(Len(s) - gone)
  BY <1>2, LenProperties
<1>4. \A m, n \in 1..Len(s) : s[m] = s[n] => m = n
  BY <1>1 DEF IsInjective
<1>5. \A i \in 1..(Len(s) - gone) : gone + i \in 1..Len(s) /\ gone + i \notin 1..gone
  BY <1>1
<1>6. IsInjective(left)
  <2> SUFFICES ASSUME NEW i \in 1..(Len(s) - gone), NEW j \in 1..(Len(s) - gone),
                      left[i] = left[j]
               PROVE  i = j
    BY <1>3 DEF IsInjective
  <2>1. gone + i = gone + j
    BY <1>2, <1>4, <1>5
  <2> QED BY <1>1, <2>1
<1>7. ASSUME NEW i \in 1..(Len(s) - gone)
      PROVE  left[i] \in ToSet(s) \ {s[n] : n \in 1..gone}
  <2>1. left[i] = s[gone + i]
    BY <1>2
  <2>2. \A n \in 1..gone : n \in 1..Len(s)
    BY <1>1
  <2> QED BY <1>1, <1>4, <1>5, <2>1, <2>2 DEF ToSet
<1>8. ASSUME NEW n \in 1..Len(s), s[n] \notin {s[m] : m \in 1..gone}
      PROVE  \E i \in 1..(Len(s) - gone) : left[i] = s[n]
  <2>1. n \notin 1..gone
    BY <1>8
  <2>2. n - gone \in 1..(Len(s) - gone) /\ gone + (n - gone) = n
    BY <1>1, <2>1
  <2> QED BY <1>2, <2>2
<1>9. ToSet(left) = ToSet(s) \ {s[n] : n \in 1..gone}
  BY <1>1, <1>3, <1>7, <1>8 DEF ToSet
<1> QED BY <1>2, <1>6, <1>9 DEF left

\* _Entries.set: as many of the keys least recently used leave as are too many.
LEMMA PutOrders ==
  ASSUME Ordered, NEW key \in Identities, NEW entry, entry.there, Put(key, entry)
  PROVE  Ordered'
<1> DEFINE all == Touched(key)
           gone == IF Len(all) > MaxEntries THEN Len(all) - MaxEntries ELSE 0
           out == {all[n] : n \in 1..gone}
           left == SubSeq(all, gone + 1, Len(all))
<1>1. /\ all \in Seq(Identities) /\ IsInjective(all) /\ ToSet(all) = ToSet(used) \cup {key}
  BY TouchedIs
<1>2. Len(all) \in Nat
  BY <1>1, LenProperties
<1>3. /\ used' = left
      /\ entries' = [k \in Identities |-> IF k \in out THEN NoEntry
                                          ELSE IF k = key THEN entry ELSE entries[k]]
  BY DEF Put
<1> HIDE DEF all
<1>4. gone \in 0..Len(all) /\ Len(all) - gone <= MaxEntries
  BY <1>2, CacheAssumption
<1> HIDE DEF gone
<1>5. /\ left \in Seq(Identities) /\ IsInjective(left) /\ Len(left) = Len(all) - gone
      /\ ToSet(left) = ToSet(all) \ out
  BY <1>1, <1>4, LeftIs
<1> HIDE DEF left, out
<1>6. \A k \in Identities : entries'[k].there <=> k \in ToSet(all) /\ k \notin out
  BY <1>1, <1>3, Blank DEF Ordered
<1>7. ToSet(left) \subseteq Identities
  BY <1>1, <1>5 DEF Ordered
<1>8. ToSet(left) = {k \in Identities : entries'[k].there}
  BY <1>5, <1>6, <1>7
<1> QED BY <1>3, <1>4, <1>5, <1>8 DEF Ordered

LEMMA DeleteOrders ==
  ASSUME Ordered, IInv, NEW key \in Identities, Delete(key)
  PROVE  Ordered'
<1>1. used' = Without(key) /\ entries' = [entries EXCEPT ![key] = NoEntry]
  BY DEF Delete
<1>2. \A k \in Identities : entries'[k].there <=> entries[k].there /\ k # key
  BY <1>1, Blank DEF IInv, Shaped
<1>3. /\ Without(key) \in Seq(Identities) /\ IsInjective(Without(key))
      /\ ToSet(Without(key)) = ToSet(used) \ {key} /\ Len(Without(key)) <= Len(used)
      /\ Len(used) \in Nat /\ Len(Without(key)) \in Nat
  BY WithoutIs, LenProperties DEF Ordered
<1> QED BY <1>1, <1>2, <1>3, CacheAssumption DEF Ordered

\* An entry that is read becomes the last used.
LEMMA LookOrders ==
  ASSUME Ordered, IInv, NEW f \in Fetchers, Look(f)
  PROVE  Ordered'
<1>1. UNCHANGED entries /\ asking[f] \in Identities
  BY DEF Look, IInv, Shaped
<1>2. PICK ask \in Asks :
        used' = IF (IF ask = "no-store" THEN NoEntry ELSE entries[asking[f]]).there
                THEN Touched(asking[f]) ELSE used
  BY DEF Look
<1>3. CASE used' = used
  BY <1>1, <1>3 DEF Ordered
<1>4. CASE used' = Touched(asking[f]) /\ entries[asking[f]].there
  <2>1. asking[f] \in ToSet(used)
    BY <1>1, <1>4 DEF Ordered
  <2>2. ToSet(used) \cup {asking[f]} = ToSet(used)
    BY <2>1
  <2> QED BY <1>1, <1>4, <2>1, <2>2, TouchedIs DEF Ordered
<1> QED BY <1>2, <1>3, <1>4, Blank

\* The order stays one of the keys that are kept, whoever reads, writes or removes.
LEMMA OrderKept ==
  ASSUME IInv, Ordered, [Next]_vars
  PROVE  Ordered'
<1>1. CASE UNCHANGED <<entries, used>>
  BY <1>1 DEF Ordered
<1>2. ASSUME NEW f \in Fetchers, Write(f) PROVE Ordered'
  <2>1. fetch[f].key \in Identities
    BY <1>2, OfFetch DEF Write, Sound
  <2> QED BY <1>1, <1>2, <2>1, PutOrders, DeleteOrders DEF Write
<1>3. ASSUME NEW f \in Fetchers, Refuse(f) PROVE Ordered'
  <2>1. fetch[f].key \in Identities
    BY <1>3, OfFetch DEF Refuse, Sound
  <2> QED BY <1>1, <1>3, <2>1, DeleteOrders DEF Refuse
<1>4. CASE \E f \in Fetchers : Step(f)
  BY <1>1, <1>2, <1>3, <1>4, LookOrders DEF Step, Serve, Send, Receive, Fail
<1> QED BY <1>1, <1>4 DEF Next, vars, Change, Tick, Rotate, Answer

\* When each version became current, and the bounded counts.
Counted ==
  /\ from \in [Versions -> Times \cup {None}]
  /\ fetches \in 0..MaxFetches /\ renewals \in 0..MaxRenewals

\* The store, the fetches and the origin are well typed, and the store keeps no more entries than
\* max_entries, each in its order once (_Entries.get, set and delete in cache_stores.py), whatever
\* the fetches do.
THEOREM TypeCorrect == Spec => []TypeOK
<1>1. Init => Ordered /\ Counted
  <2> SUFFICES ASSUME Init PROVE Ordered /\ Counted
    OBVIOUS
  <2>1. used = <<>> /\ \A i \in Identities : ~entries[i].there
    BY Blank DEF Init
  <2>2. used \in Seq(Identities) /\ Len(used) = 0 /\ ToSet(used) = {} /\ IsInjective(used)
    BY <2>1 DEF ToSet, IsInjective
  <2>3. from \in [Versions -> Times \cup {None}]
    BY CacheAssumption DEF Init, Times
  <2> QED BY <2>1, <2>2, <2>3, CacheAssumption DEF Init, Ordered, Counted
<1>2. IInv /\ Counted /\ [Next]_vars => Counted'
  <2> SUFFICES ASSUME IInv, Counted, [Next]_vars PROVE Counted'
    OBVIOUS
  <2>1. CASE Change
    BY <2>1 DEF Change, Counted, IInv, Shaped
  <2>2. ASSUME NEW f \in Fetchers, Rotate(f) PROVE Counted'
    BY <2>2, CacheAssumption DEF Rotate, Counted, origin
  <2>3. ASSUME NEW f \in Fetchers, Look(f) PROVE Counted'
    BY <2>3, CacheAssumption DEF Look, Counted, origin
  <2>4. CASE UNCHANGED <<origin, fetches, renewals>>
    BY <2>4 DEF Counted, origin
  <2> QED BY <2>1, <2>2, <2>3, <2>4
          DEF Next, vars, Tick, Answer, Step, Serve, Send, Receive, Write, Refuse, Fail
<1>3. IInv /\ Ordered /\ [Next]_vars => Ordered'
  BY OrderKept
<1>4. IInv /\ HInv /\ Ordered /\ Counted => TypeOK
  BY DEF IInv, HInv, Told, Shaped, Ordered, Counted, TypeOK
<1>5. Init => IInv
  BY Initially
<1>6. IInv /\ [Next]_vars => IInv'
  BY Inductive
<1>7. (Init => HInv) /\ (IInv /\ HInv /\ [Next]_vars => HInv')
  BY HistoryKept
<1> QED BY <1>1, <1>2, <1>3, <1>4, <1>5, <1>6, <1>7, PTL DEF Spec
=============================================================================
