-------------------------------- MODULE Cache --------------------------------
(***************************************************************************)
(* Cache helpers (_runtime/protocols/cache.py) over one memory store       *)
(* (cache_stores.py).  A fetch looks its entry up, answers from it while   *)
(* it is fresh, or sends its request and stores what may be stored; other  *)
(* fetches, and the origin, go on between its steps.  The request's method *)
(* and URL are one; who it is sent as is the key, and the header values    *)
(* that a response varies on are a variant.  A representation is the       *)
(* origin's version of it for one identity and one variant, and its        *)
(* validator tells it from every other.                                    *)
(***************************************************************************)
EXTENDS Integers, FiniteSets, SequencesExt

CONSTANTS
  Fetchers,     \* concurrent fetches through one store
  Identities,   \* whom a request may be sent as
  Nobody,       \* of a representation there is none of
  Variant,      \* the variant each fetcher asks for
  MaxEntries,   \* MemoryCacheStore(max_entries)
  MaxAge,       \* max-age of the responses that may be served again
  MaxTTL,       \* CacheOptions.max_ttl of each fetcher
  Asks,         \* the Cache-Control of requests: none, no-cache or no-store
  Kinds,        \* responses: "fresh" has a max-age, "validate" says no-cache, and
                \*   "unstored" has no-store, Set-Cookie, or what is not supported
  Upstream,     \* the Age an intermediary may give a response
  MaxTime,      \* bound: the clock
  MaxVersion,   \* bound: changes at the origin
  MaxFetches,   \* bound: fetches in all
  MaxRenewals   \* bound: renewals of credentials

ASSUME CacheAssumption ==
  /\ Nobody \notin Identities /\ Fetchers # {}
  /\ MaxEntries \in Nat \ {0} /\ MaxAge \in Nat /\ Upstream \in Nat
  /\ MaxTTL \in [Fetchers -> Nat]
  /\ Asks \subseteq {"any", "no-cache", "no-store"} /\ "any" \in Asks
  /\ Kinds \subseteq {"fresh", "validate", "unstored"} /\ "fresh" \in Kinds
  /\ MaxTime \in Nat /\ MaxVersion \in Nat /\ MaxFetches \in Nat
  /\ MaxRenewals \in Nat

None     == -1
Times    == 0..MaxTime
Versions == 0..MaxVersion
Variants == {Variant[f] : f \in Fetchers}

VARIABLES
  now,      \* the clock, of the fetches and of the origin
  from,     \* the origin: when each version became current
  until,    \* the origin: when it was replaced
  asking,   \* whom each fetcher's credentials make it, which may be renewed
  entries,  \* the store: an entry or none for each key
  used,     \* the store: its keys, the least recently used first
  fetch,    \* each fetch under way
  fetches,  \* how many there were
  renewals, \* how often credentials were renewed
  raced,    \* history: the fetches whose key another stored under since they looked it up
  outdone   \* history: the newest version returned for each key and not stored (Outdone)

origin  == <<from, until>>
history == <<raced, outdone>>
vars    == <<now, origin, asking, entries, used, fetch, fetches, renewals, history>>

Representations == [version: Versions, of: Identities \cup {Nobody}, variant: Variants]
AnyRep == [version |-> 0, of |-> Nobody,
           variant |-> CHOOSE v \in Variants : TRUE]

Entries ==
  [there:  BOOLEAN,
   rep:    Representations,
   tagged: BOOLEAN,              \* whether it has a validator
   at:     Times,                \* response_time
   age:    0..(MaxTime + Upstream),   \* initial_age_seconds
   fresh:  0..MaxAge]            \* freshness_seconds

NoEntry == [there |-> FALSE, rep |-> AnyRep, tagged |-> FALSE, at |-> 0, age |-> 0, fresh |-> 0]

Replies ==
  [is:     {"none", "modified", "unmodified", "inconsistent", "failed"},
   rep:    Representations,
   kind:   Kinds,
   tagged: BOOLEAN,
   age:    0..Upstream,          \* its Age; its Date is when it was made, by the same clock
   as:     Identities \cup {Nobody}]           \* whom the request it answers was sent as

NoReply == [is |-> "none", rep |-> AnyRep, kind |-> "fresh", tagged |-> FALSE,
            age |-> 0, as |-> Nobody]

Fetch ==
  [at:        {"idle", "looked", "sent", "answered"},
   ask:       Asks,
   key:       Identities \cup {Nobody},
   entry:     BOOLEAN,           \* state.entry is not None
   usable:    Entries,           \* state.usable
   requested: Times,             \* requested_at
   reply:     Replies,
   storing:   Entries,           \* what stored() returned
   source:    {"none", "network", "revalidated"},
   answer:    Representations]

Idle == [at |-> "idle", ask |-> "any", key |-> Nobody, entry |-> FALSE,
         usable |-> NoEntry, requested |-> 0, reply |-> NoReply, storing |-> NoEntry,
         source |-> "none", answer |-> AnyRep]

(* The version a fetch that knew what the store has for its key returned, when, and the *)
(* other fetches for that key then under way.                                          *)
Outdone == [version: Versions, at: Times, late: SUBSET Fetchers]

(* The store keeps no more entries than it may, and has an order for each of them. *)
TypeOK ==
  /\ now \in Times
  /\ from \in [Versions -> Times \cup {None}] /\ until \in [Versions -> Times \cup {None}]
  /\ asking \in [Fetchers -> Identities]
  /\ entries \in [Identities -> Entries]
  /\ IsInjective(used) /\ ToSet(used) = {i \in Identities : entries[i].there}
  /\ Len(used) <= MaxEntries
  /\ fetch \in [Fetchers -> Fetch] /\ fetches \in 0..MaxFetches
  /\ renewals \in 0..MaxRenewals
  /\ raced \subseteq Fetchers /\ outdone \in [Identities -> Outdone]

-----------------------------------------------------------------------------
(* The memory store: each operation under its lock. *)

Without(key) ==
  IF key \in ToSet(used) THEN RemoveAt(used, CHOOSE n \in DOMAIN used : used[n] = key) ELSE used

Touched(key) == Append(Without(key), key)

(* Mutant: the bound is looked at before the entry is added. *)
PutFirst(key, entry) ==
  LET all  == Touched(key)
      gone == IF Len(used) > MaxEntries THEN Len(used) - MaxEntries ELSE 0
      out  == {all[n] : n \in 1..gone}
  IN /\ used' = SubSeq(all, gone + 1, Len(all))
     /\ entries' = [k \in Identities |-> IF k \in out THEN NoEntry
                                         ELSE IF k = key THEN entry ELSE entries[k]]

(* _Entries.set: the key becomes the last used, and the first used ones leave. *)
Put(key, entry) ==
  LET all  == Touched(key)
      gone == IF Len(all) > MaxEntries THEN Len(all) - MaxEntries ELSE 0
      out  == {all[n] : n \in 1..gone}
  IN /\ used' = SubSeq(all, gone + 1, Len(all))
     /\ entries' = [k \in Identities |-> IF k \in out THEN NoEntry
                                         ELSE IF k = key THEN entry ELSE entries[k]]

Delete(key) ==
  /\ used' = Without(key)
  /\ entries' = [entries EXCEPT ![key] = NoEntry]

-----------------------------------------------------------------------------
(* The origin, an intermediary before it, and the credentials. *)

CurrentAt(version, t) ==
  from[version] # None /\ from[version] <= t /\ (until[version] = None \/ t <= until[version])

Change ==
  \E v \in 1..MaxVersion :
    /\ from[v] = None /\ from[v - 1] # None
    /\ from' = [from EXCEPT ![v] = now]
    /\ until' = [until EXCEPT ![v - 1] = now]
    /\ UNCHANGED <<now, asking, entries, used, fetch, fetches, renewals, history>>

Tick ==
  /\ now < MaxTime /\ now' = now + 1
  /\ UNCHANGED <<origin, asking, entries, used, fetch, fetches, renewals, history>>

(* A callable credential, or a renewed token, makes the request another identity's. *)
Rotate(f) ==
  /\ fetch[f].at \in {"looked", "sent"}
  /\ renewals < MaxRenewals /\ renewals' = renewals + 1
  /\ \E i \in Identities \ {asking[f]} : asking' = [asking EXCEPT ![f] = i]
  /\ UNCHANGED <<now, origin, entries, used, fetch, fetches, history>>

(* The validator sent, if one is: that of a usable stale entry. *)
Conditional(f) == fetch[f].usable.there /\ fetch[f].usable.tagged

(* The request is answered, as whoever sends it by now: with a representation, that the *)
(* one it names has not changed, with a 304 that validates nothing, or with a failure.  *)
Answer(f) ==
  /\ fetch[f].at = "sent" /\ fetch[f].reply.is = "none"
  /\ \E age \in 0..Upstream, version \in Versions, kind \in Kinds, tagged \in BOOLEAN,
        is \in {"modified", "unmodified", "inconsistent", "failed"} :
       LET rep == IF is \in {"inconsistent", "failed"} THEN AnyRep
                  ELSE [version |-> version, of |-> asking[f], variant |-> Variant[f]] IN
       /\ age <= now /\ CurrentAt(version, now - age)
       /\ is = "unmodified" => Conditional(f) /\ fetch[f].usable.rep = rep
       /\ tagged \/ (is = "modified" /\ kind # "unstored")
       /\ is \in {"inconsistent", "failed"} => kind = "fresh" /\ age = 0
       /\ fetch' = [fetch EXCEPT ![f].reply =
            [is |-> is, rep |-> rep, kind |-> kind, tagged |-> tagged,
             age |-> age, as |-> asking[f]]]
  /\ UNCHANGED <<now, origin, asking, entries, used, fetches, renewals, history>>

-----------------------------------------------------------------------------
(* The fetch. *)

(* found: the entry looked up, when this fetch may use it *)
Found(f, entry) ==
  IF entry.there /\ entry.rep.variant = Variant[f] THEN entry ELSE NoEntry

(* Mutant: an entry of another variant counts as none. *)
LookUsable(f) ==
  /\ fetch[f].at = "idle"
  /\ fetches < MaxFetches /\ fetches' = fetches + 1
  /\ \E ask \in Asks :
       LET key   == asking[f]
           entry == IF ask = "no-store" THEN NoEntry ELSE entries[key]
       IN /\ used' = IF entry.there THEN Touched(key) ELSE used
          /\ fetch' = [fetch EXCEPT ![f] =
               [Idle EXCEPT !.at = "looked", !.ask = ask, !.key = key,
                            !.entry = Found(f, entry).there, !.usable = Found(f, entry)]]
  /\ UNCHANGED <<now, origin, asking, entries, renewals, history>>

Look(f) ==
  /\ fetch[f].at = "idle"
  /\ fetches < MaxFetches /\ fetches' = fetches + 1
  /\ \E ask \in Asks :
       LET key   == asking[f]
           entry == IF ask = "no-store" THEN NoEntry ELSE entries[key]
       IN /\ used' = IF entry.there THEN Touched(key) ELSE used
          /\ fetch' = [fetch EXCEPT ![f] =
               [Idle EXCEPT !.at = "looked", !.ask = ask,
                            !.key = key, !.entry = entry.there, !.usable = Found(f, entry)]]
  /\ UNCHANGED <<now, origin, asking, entries, renewals, history>>

Smaller(a, b) == IF a < b THEN a ELSE b

AgeOf(entry) == entry.age + (now - entry.at)

Fresh(f) ==
  /\ fetch[f].usable.there /\ fetch[f].ask # "no-cache"
  /\ AgeOf(fetch[f].usable) < Smaller(fetch[f].usable.fresh, MaxTTL[f])

(* The fetch returns, or raises: what it knew is gone. *)
Done(f) == fetch' = [fetch EXCEPT ![f] = Idle]

(* History of a fetch that ends and stores nothing *)
Gone(f) ==
  /\ raced' = raced \ {f}
  /\ outdone' = [outdone EXCEPT ![fetch[f].key].late = @ \ {f}]

Serve(f) ==
  /\ fetch[f].at = "looked" /\ Fresh(f)
  /\ Done(f) /\ Gone(f)
  /\ UNCHANGED <<now, origin, asking, entries, used, fetches, renewals>>

Send(f) ==
  /\ fetch[f].at = "looked" /\ ~Fresh(f)
  /\ fetch' = [fetch EXCEPT ![f].at = "sent", ![f].requested = now]
  /\ UNCHANGED <<now, origin, asking, entries, used, fetches, renewals, history>>

(* Mutant: a response is stored whomever its request was sent as. *)
FitsAny(f) == fetch[f].reply.kind # "unstored"

(* fits: the identity looked up is the one the request was sent as *)
Fits(f) == fetch[f].reply.as = fetch[f].key /\ fetch[f].reply.kind # "unstored"

(* Mutant: the time the request was under way is not counted. *)
AgeAsGiven(f) == fetch[f].reply.age

(* The age a response has when it arrives: its Age and the time its request took, which *)
(* the age its Date tells never exceeds.                                                *)
InitialAge(f) == fetch[f].reply.age + now - fetch[f].requested

(* stored: the entry a response becomes, or none *)
Stored(f) ==
  LET reply == fetch[f].reply
      fresh == IF reply.kind = "validate" THEN 0 ELSE Smaller(MaxAge, MaxTTL[f])
  IN IF fetch[f].ask = "no-store" \/ ~Fits(f) \/ (fresh = 0 /\ ~reply.tagged)
     THEN NoEntry
     ELSE [there |-> TRUE, rep |-> reply.rep, tagged |-> reply.tagged,
           at |-> now, age |-> InitialAge(f), fresh |-> fresh]

(* The response arrives, and a 304 is answered with the entry that was looked up. *)
Receive(f) ==
  LET reply == fetch[f].reply IN
  /\ fetch[f].at = "sent" /\ reply.is \in {"modified", "unmodified"}
  /\ fetch' = [fetch EXCEPT
       ![f].at = "answered", ![f].storing = Stored(f),
       ![f].source = IF reply.is = "modified" THEN "network" ELSE "revalidated",
       ![f].answer = IF reply.is = "modified" THEN reply.rep ELSE fetch[f].usable.rep,
       ![f].usable = NoEntry, ![f].reply = [NoReply EXCEPT !.as = reply.as]]
  /\ UNCHANGED <<now, origin, asking, entries, used, fetches, renewals, history>>

(* The other fetches under way for the key of f *)
Beside(f) == {g \in Fetchers \ {f} : fetch[g].at # "idle" /\ fetch[g].key = fetch[f].key}

(* History of a response stored: of those returned before, it undoes one that its fetch *)
(* was under way beside.                                                                *)
Overtakes(f) ==
  /\ raced' = (raced \ {f}) \cup Beside(f)
  /\ outdone' = [outdone EXCEPT ![fetch[f].key] =
       IF f \in @.late THEN [version |-> 0, at |-> 0, late |-> {}] ELSE @]

(* A fetch that looked its key up, under which nobody stored since, returns what it does *)
(* not store, newer than any before it.                                                   *)
Newest(f) ==
  /\ f \notin raced /\ fetch[f].ask # "no-store" /\ fetch[f].reply.as = fetch[f].key
  /\ fetch[f].answer.version > outdone[fetch[f].key].version

Outdoes(f) ==
  /\ raced' = raced \ {f}
  /\ outdone' = [outdone EXCEPT ![fetch[f].key] =
       [version |-> fetch[f].answer.version, at |-> now, late |-> Beside(f)]]

Recorded(f) ==
  \/ fetch[f].storing.there /\ Overtakes(f)
  \/ ~fetch[f].storing.there /\ Newest(f) /\ Outdoes(f)
  \/ ~fetch[f].storing.there /\ ~Newest(f) /\ Gone(f)

(* What may be stored is; what may not be removes the entry looked up. *)
Write(f) ==
  /\ fetch[f].at = "answered"
  /\ IF fetch[f].storing.there THEN Put(fetch[f].key, fetch[f].storing)
     ELSE IF fetch[f].entry THEN Delete(fetch[f].key)
     ELSE UNCHANGED <<entries, used>>
  /\ Done(f) /\ Recorded(f)
  /\ UNCHANGED <<now, origin, asking, fetches, renewals>>

(* ProtocolDataError: a 304 that validates no usable entry *)
Refuse(f) ==
  /\ fetch[f].at = "sent" /\ fetch[f].reply.is = "inconsistent"
  /\ IF fetch[f].usable.there THEN Delete(fetch[f].key) ELSE UNCHANGED <<entries, used>>
  /\ Done(f) /\ Gone(f)
  /\ UNCHANGED <<now, origin, asking, fetches, renewals>>

(* Any other error: a status, a transport or a decoding failure *)
Fail(f) ==
  /\ fetch[f].at = "sent" /\ fetch[f].reply.is = "failed"
  /\ Done(f) /\ Gone(f)
  /\ UNCHANGED <<now, origin, asking, entries, used, fetches, renewals>>

-----------------------------------------------------------------------------

Init ==
  /\ now = 0
  /\ from = [v \in Versions |-> IF v = 0 THEN 0 ELSE None]
  /\ until = [v \in Versions |-> None]
  /\ asking \in [Fetchers -> Identities]
  /\ entries = [i \in Identities |-> NoEntry] /\ used = <<>>
  /\ fetch = [f \in Fetchers |-> Idle] /\ fetches = 0 /\ renewals = 0
  /\ raced = {} /\ outdone = [i \in Identities |-> [version |-> 0, at |-> 0, late |-> {}]]

Step(f) == Look(f) \/ Serve(f) \/ Send(f) \/ Receive(f) \/ Write(f) \/ Refuse(f)
           \/ Fail(f)

Next == Change \/ Tick \/ \E f \in Fetchers : Rotate(f) \/ Answer(f) \/ Step(f)

Spec == Init /\ [][Next]_vars

-----------------------------------------------------------------------------
(* Properties. *)

(* A step that returns, what it returns, and where that is from: Serve or Write. *)
Returns(f)  == fetch[f].at \in {"looked", "answered"} /\ fetch'[f].at = "idle"
Returned(f) == IF fetch[f].at = "looked" THEN fetch[f].usable.rep ELSE fetch[f].answer
Source(f)   == IF fetch[f].at = "looked" THEN "fresh_cache" ELSE fetch[f].source

(* What the store answers was sent as the identity that asks, for its variant: no *)
(* credential renewed between the lookup and the send, and no fetch for another   *)
(* variant of the same key, makes it another's (keyed, found, fits).              *)
AnswersItsOwn ==
  [][\A f \in Fetchers : (Returns(f) /\ Source(f) # "network") =>
       Returned(f).of = fetch[f].key /\ Returned(f).variant = Variant[f]]_vars

(* A fresh answer was current less than its freshness ago, and a revalidated one after *)
(* its request began or within the age an intermediary admitted to, however late       *)
(* responses arrive, whichever fetch stored the entry, and whatever is written         *)
(* meanwhile (_age, stored's initial age, not_modified's looked-up entry).             *)
CurrentEnough ==
  [][\A f \in Fetchers : Returns(f) =>
       LET gone == until[Returned(f).version] IN
       \/ gone = None
       \/ Source(f) = "fresh_cache" /\ gone > now - Smaller(MaxAge, MaxTTL[f])
       \/ Source(f) # "fresh_cache" /\ gone >= fetch[f].requested - Upstream]_vars

(* What the store has for a key is never behind: once a fetch that looked the key up has *)
(* returned a version it may not store, an older one is there only if it was current at  *)
(* the origin until then, or if a fetch then under way stored it.  No later fetch brings *)
(* a superseded one back, and none that was there stays, whatever variant it was of      *)
(* (_settled's delete of the entry looked up, stored's dates).                           *)
NotBehind ==
  \A i \in Identities : entries[i].there =>
    LET gone == until[entries[i].rep.version] IN
    \/ entries[i].rep.version >= outdone[i].version
    \/ gone = None \/ gone >= outdone[i].at - Upstream

(* What the documentation says of a response that may not be stored, which another *)
(* fetch's write between this one's lookup and its end makes untrue.               *)
SupersededAlways ==
  [][\A f \in Fetchers : LET mine == fetch[f] IN
       (Returns(f) /\ Source(f) = "network"
          /\ ~mine.storing.there /\ mine.ask # "no-store" /\ mine.reply.as = mine.key)
         => ~(entries'[mine.key].there
              /\ entries'[mine.key].rep.version < mine.answer.version)]_vars

(* What it says of errors, which a 304 that validates nothing makes untrue. *)
ErrorsKeep ==
  [][\A f \in Fetchers :
       (fetch[f].at = "sent" /\ fetch'[f].at = "idle") => entries' = entries]_vars
=============================================================================
