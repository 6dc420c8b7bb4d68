---------------------------- MODULE UploadProofs ----------------------------
(***************************************************************************)
(* Proofs about Upload: its state is well typed, what a handle or its      *)
(* checkpoint counts as confirmed is on the server, a complete upload is   *)
(* complete there, and the upload implements the service it promises, all  *)
(* from one inductive invariant, IInv.  Two more on top of it: Once, for a *)
(* completion that is applied once, and Honest, for the offsets a lone     *)
(* handle's probes are given.                                              *)
(***************************************************************************)
EXTENDS Upload, FiniteSetTheorems, TLAPS

Busy == {"verifying", "due", "sending", "appending", "settling", "resuming"}

\* Where the step of a handle may be, and what holds there of the handle alone.
Placed(s) ==
  /\ s.pc \in Busy => s.phase = "uploading"
  /\ s.pc = "completing" => s.phase = "unknown" /\ s.confirmed = Size /\ s.call \in s.past
  /\ s.pc \in {"sending", "appending", "settling"} => s.confirmed < s.goal
  /\ s.phase = "complete" => s.confirmed = Size
  /\ s.pc # "none" /\ Whole(s.confirmed) => s.phase = "complete"
  /\ s.reply # "none" => s.pc \in Probing \cup {"appending", "completing"}

\* What a handle knows of a server at offset r that applied the completions a.
Known(s, r, a) ==
  /\ s.confirmed <= r
  /\ s.reply = "ok" /\ s.pc = "appending" => s.goal <= r
  /\ s.reply = "ok" /\ s.pc \in Probing => s.offer <= r
  /\ s.reply = "ok" /\ s.pc = "completing" => s.call \in a
  /\ s.phase = "complete" /\ HasCompletion => s.past \cap a # {}

Sound(s, r, a) == s \in Handle /\ Placed(s) /\ Known(s, r, a)

\* A request a caller waits for is the one its step made, not answered yet.
Awaited(m, s) == s.pc = "appending" /\ s.reply = "none" /\ m.off = s.confirmed /\ m.end = s.goal

Final(m, s) == s.pc = "completing" /\ s.reply = "none" /\ m.call = s.call

Wired ==
  /\ \A m \in wire : m.off < m.end /\ (m.by # Nobody => Awaited(m, handle[m.by]))
  /\ \A m \in finals : m.by # Nobody => Final(m, handle[m.by])

\* A checkpoint confirms what is held, and leaves something to do.
Resumable == \A c \in saved : c.confirmed <= remote /\ ~Whole(c.confirmed)

IInv ==
  /\ TypeOK
  /\ \A h \in Handles : Sound(handle[h], remote, applied)
  /\ Wired /\ Resumable
-----------------------------------------------------------------------------
\* The end of a chunk is past its start, and in the content.
LEMMA ChunkEndBounds ==
  ASSUME NEW n \in Offsets, n < Size
  PROVE  ChunkEnd(n) \in Offsets /\ n < ChunkEnd(n)
<1> USE UploadAssumption
<1>1. n \div Chunk \in Nat /\ n % Chunk \in 0..(Chunk - 1)
  BY DEF Offsets
<1>2. n = Chunk * (n \div Chunk) + (n % Chunk)
  BY DEF Offsets
<1>3. (n \div Chunk + 1) * Chunk = Chunk * (n \div Chunk) + Chunk
  BY <1>1
<1>4. n < (n \div Chunk + 1) * Chunk
  BY <1>1, <1>2, <1>3 DEF Offsets
<1>5. (n \div Chunk + 1) * Chunk \in Nat
  BY <1>1
<1> QED
  BY <1>4, <1>5 DEF ChunkEnd, Offsets

\* What a handle knows stays true while the server's offset and completions grow.
LEMMA KnownGrows ==
  ASSUME NEW s, NEW r \in Offsets, NEW q \in Offsets, NEW a, NEW b,
         Sound(s, r, a), r <= q, a \subseteq b
  PROVE  Sound(s, q, b)
BY UploadAssumption DEF Sound, Known, Handle, Offsets

\* A step of one handle to a sound state keeps every handle sound.
LEMMA BecomeSound ==
  ASSUME NEW h \in Handles, NEW s, IInv, Become(h, s),
         remote' \in Offsets, remote <= remote', applied \subseteq applied',
         Sound(s, remote', applied')
  PROVE  /\ handle' \in [Handles -> Handle]
         /\ \A g \in Handles : Sound(handle'[g], remote', applied')
         /\ handle'[h] = s
         /\ \A g \in Handles \ {h} : handle'[g] = handle[g]
<1>1. handle \in [Handles -> Handle] /\ s \in Handle /\ remote \in Offsets
  BY DEF IInv, TypeOK, Sound
<1>2. handle' = [handle EXCEPT ![h] = s]
  BY DEF Become
<1>3. /\ handle' \in [Handles -> Handle] /\ handle'[h] = s
      /\ \A g \in Handles \ {h} : handle'[g] = handle[g]
  BY <1>1, <1>2
<1>4. ASSUME NEW g \in Handles PROVE Sound(handle'[g], remote', applied')
  <2>1. CASE g = h
    BY <1>3, <2>1
  <2>2. CASE g # h
    BY <1>1, <1>3, <2>2, KnownGrows DEF IInv
  <2> QED BY <2>1, <2>2
<1> QED BY <1>3, <1>4

\* A handle whose call is answered, or that makes none, has nothing on its way.
LEMMA NothingAwaited ==
  ASSUME NEW h \in Handles, IInv,
         handle[h].reply # "none" \/ handle[h].pc \notin {"appending", "completing"}
  PROVE  Mine(wire, h) = {} /\ Mine(finals, h) = {}
BY UploadAssumption DEF IInv, Wired, Awaited, Final, Mine

\* A step of one handle keeps the invariant when it leaves the handle sound, waiting
\* for no request but its own, and takes nothing from the server.
LEMMA StepKeeps ==
  ASSUME NEW h \in Handles, NEW s, IInv, Become(h, s),
         remote' \in Offsets, remote <= remote',
         applied \subseteq applied', applied' \subseteq Calls,
         Sound(s, remote', applied'),
         wire' \subseteq Appends, finals' \subseteq Completions,
         \A m \in wire' : /\ m.off < m.end /\ (m \in wire \/ m.by \in {Nobody, h})
                          /\ m.by = h => Awaited(m, s),
         \A m \in finals' : /\ m \in finals \/ m.by \in {Nobody, h}
                            /\ m.by = h => Final(m, s),
         calls' \in 0..MaxCompletions, faults' \in 0..MaxFaults, UNCHANGED <<saved, length>>
  PROVE  IInv'
<1>1. /\ handle' \in [Handles -> Handle]
      /\ \A g \in Handles : Sound(handle'[g], remote', applied')
      /\ handle'[h] = s
      /\ \A g \in Handles \ {h} : handle'[g] = handle[g]
  BY BecomeSound
<1>2. TypeOK'
  BY <1>1 DEF IInv, TypeOK
<1>3. ASSUME NEW m \in wire', m.by # Nobody PROVE Awaited(m, handle'[m.by])
  <2>1. CASE m.by = h
    BY <1>1, <2>1
  <2>2. CASE m.by # h
    <3>1. m \in wire /\ m.by \in Handles
      BY <1>3, <2>2 DEF Appends, Callers
    <3> QED BY <1>1, <1>3, <2>2, <3>1 DEF IInv, Wired
  <2> QED BY <2>1, <2>2
<1>4. ASSUME NEW m \in finals', m.by # Nobody PROVE Final(m, handle'[m.by])
  <2>1. CASE m.by = h
    BY <1>1, <2>1
  <2>2. CASE m.by # h
    <3>1. m \in finals /\ m.by \in Handles
      BY <1>4, <2>2 DEF Completions, Callers
    <3> QED BY <1>1, <1>4, <2>2, <3>1 DEF IInv, Wired
  <2> QED BY <2>1, <2>2
<1>5. Wired'
  BY <1>3, <1>4 DEF Wired, Awaited, Final
<1>6. Resumable'
  BY UploadAssumption DEF IInv, TypeOK, Resumable, Checkpoints, Offsets, Whole
<1> QED BY <1>1, <1>2, <1>5, <1>6 DEF IInv

\* A step that only changes a handle with nothing on its way keeps the invariant.
LEMMA QuietStep ==
  ASSUME NEW h \in Handles, NEW s, IInv, Become(h, s), Sound(s, remote, applied),
         Mine(wire, h) = {}, Mine(finals, h) = {},
         UNCHANGED <<net, app>>, faults' \in 0..MaxFaults
  PROVE  IInv'
<1>1. UNCHANGED <<wire, finals, remote, applied, calls, saved, length>>
  BY DEF net, app
<1>2. remote \in Offsets /\ remote <= remote
  BY DEF IInv, TypeOK, Offsets
<1>3. \A m \in wire : m.off < m.end /\ m.by # h
  BY DEF IInv, Wired, Mine
<1>4. \A m \in finals : m.by # h
  BY DEF Mine
<1> QED
  BY <1>1, <1>2, <1>3, <1>4, StepKeeps DEF IInv, TypeOK

\* A step of the server that nobody waits for keeps the invariant.
LEMMA UnheardStep ==
  ASSUME IInv, UNCHANGED <<handle, app>>,
         remote' \in Offsets, remote <= remote',
         applied \subseteq applied', applied' \subseteq Calls,
         wire' \subseteq wire, finals' \subseteq finals, faults' \in 0..MaxFaults
  PROVE  IInv'
<1>1. UNCHANGED <<calls, saved, length>>
  BY DEF app
<1>2. ASSUME NEW h \in Handles PROVE Sound(handle[h], remote', applied')
  BY KnownGrows DEF IInv, TypeOK
<1>3. TypeOK' /\ Wired'
  BY <1>1 DEF IInv, TypeOK, Wired, Awaited, Final
<1>4. Resumable'
  BY <1>1, UploadAssumption DEF IInv, TypeOK, Resumable, Checkpoints, Offsets, Whole
<1> QED BY <1>2, <1>3, <1>4 DEF IInv

LEMMA FaultBound ==
  ASSUME TypeOK, Fault \/ UNCHANGED faults
  PROVE  faults' \in 0..MaxFaults
BY UploadAssumption DEF TypeOK, Fault

\* What is left of a caller's requests once it gave up is nobody's.
LEMMA OrphansBelong ==
  ASSUME NEW h \in Handles, NEW reqs, NEW rest \in Orphans(reqs, h)
  PROVE  \A r \in rest :
           \/ r \in reqs /\ r.by # h
           \/ \E q \in reqs : q.by = h /\ r = [q EXCEPT !.by = Nobody]
BY DEF Orphans, Mine
\* A caller with nothing on its way leaves nothing.
LEMMA NothingOrphaned ==
  ASSUME NEW h, NEW reqs, Mine(reqs, h) = {}
  PROVE  reqs \in Orphans(reqs, h)
BY DEF Orphans

\* A step that ends a call, what it sent being lost or nobody's, keeps the invariant.
LEMMA GivenUp ==
  ASSUME NEW h \in Handles, NEW s, IInv, Become(h, s), Sound(s, remote, applied),
         wire' \in Orphans(wire, h), finals' \in Orphans(finals, h),
         UNCHANGED <<remote, applied, calls, saved, length>>, faults' \in 0..MaxFaults
  PROVE  IInv'
<1>1. remote \in Offsets /\ remote <= remote
  BY DEF IInv, TypeOK, Offsets
<1>2. /\ wire \subseteq Appends /\ finals \subseteq Completions
      /\ \A m \in wire : m.off < m.end
  BY DEF IInv, TypeOK, Wired
<1>3. ASSUME NEW m \in wire'
      PROVE  m \in Appends /\ m.off < m.end /\ (m \in wire \/ m.by = Nobody) /\ m.by # h
  <2>1. CASE m \in wire /\ m.by # h
    BY <1>2, <2>1
  <2>2. CASE \E q \in wire : q.by = h /\ m = [q EXCEPT !.by = Nobody]
    <3>1. PICK q \in wire : m = [q EXCEPT !.by = Nobody]
      BY <2>2
    <3>2. q \in Appends /\ q.off < q.end
      BY <1>2
    <3>3. m = [off |-> q.off, end |-> q.end, by |-> Nobody]
      BY <3>1, <3>2 DEF Appends
    <3> QED BY <3>2, <3>3, UploadAssumption DEF Appends, Callers
  <2> QED BY <2>1, <2>2, OrphansBelong
<1>4. ASSUME NEW m \in finals'
      PROVE  m \in Completions /\ (m \in finals \/ m.by = Nobody) /\ m.by # h
  <2>1. CASE m \in finals /\ m.by # h
    BY <1>2, <2>1
  <2>2. CASE \E q \in finals : q.by = h /\ m = [q EXCEPT !.by = Nobody]
    <3>1. PICK q \in finals : m = [q EXCEPT !.by = Nobody]
      BY <2>2
    <3>2. q \in Completions
      BY <1>2
    <3>3. m = [call |-> q.call, by |-> Nobody]
      BY <3>1, <3>2 DEF Completions
    <3> QED BY <3>2, <3>3, UploadAssumption DEF Completions, Callers
  <2> QED BY <2>1, <2>2, OrphansBelong
<1> QED BY <1>1, <1>3, <1>4, StepKeeps DEF IInv, TypeOK

LEMMA TimeoutBound ==
  ASSUME TypeOK, NEW h, NEW reqs, TimesOut(h, reqs)
  PROVE  faults' \in 0..MaxFaults
BY FaultBound DEF TimesOut

\* Where a step goes on when its call is over, nothing else being changed.
LEMMA HangupSound ==
  ASSUME NEW s, NEW r, NEW a, Sound(s, r, a), s.pc # "none",
         NEW pc \in {"none", "closed", "idle", "due", "sending", "settling"},
         pc \in Busy => s.phase = "uploading",
         pc \in {"sending", "settling"} => s.confirmed < s.goal,
         NEW refused \in BOOLEAN
  PROVE  /\ Sound(Hangup(s, pc), r, a)
         /\ Sound([Hangup(s, pc) EXCEPT !.refused = refused], r, a)
<1> DEFINE t == Hangup(s, pc)
           u == [t EXCEPT !.refused = refused]
<1> 0 \in Offsets /\ pc \in Steps /\ s \in Handle
  BY UploadAssumption DEF Sound, Steps, Offsets
<1>1. t \in Handle /\ u \in Handle
  <2>1. [s EXCEPT !.pc = pc] \in Handle
    BY DEF Handle
  <2>2. t \in Handle
    BY <2>1 DEF Hangup, Handle
  <2> HIDE DEF t
  <2> QED BY <2>2 DEF Handle
<1>2. /\ t.pc = pc /\ t.reply = "none" /\ u.pc = pc /\ u.reply = "none"
      /\ t.phase = s.phase /\ t.confirmed = s.confirmed /\ t.goal = s.goal /\ t.past = s.past
      /\ u.phase = s.phase /\ u.confirmed = s.confirmed /\ u.goal = s.goal /\ u.past = s.past
  BY DEF Sound, Hangup, Handle
<1> HIDE DEF t, u
<1>3. Placed(t) /\ Placed(u)
  BY <1>2 DEF Sound, Placed, Busy, Probing
<1>4. Known(t, r, a) /\ Known(u, r, a)
  BY <1>2 DEF Sound, Known
<1> QED BY <1>1, <1>3, <1>4 DEF Sound, t, u

\* A step that is told of n bytes, and is over unless there is more to do.
LEMMA SettledSound ==
  ASSUME NEW s, NEW r, NEW a, Sound(s, r, a), s.phase = "uploading",
         NEW n \in Offsets, n <= r, NEW pc \in {"idle", "due", "sending"},
         Whole(n) => pc = "idle", pc = "sending" => n < s.goal
  PROVE  Sound(Hangup(Settled(s, n), pc), r, a)
<1> DEFINE t == Hangup(Settled(s, n), pc)
<1> 0 \in Offsets /\ pc \in Steps /\ s \in Handle
  BY UploadAssumption DEF Sound, Steps, Offsets
<1>1. t \in Handle
  <2>1. [s EXCEPT !.confirmed = n, !.verify = FALSE] \in Handle
    BY DEF Handle
  <2>2. Settled(s, n) \in Handle
    BY DEF Settled, Handle, Phases
  <2> QED BY <2>2 DEF Hangup, Handle
<1>2. /\ t.pc = pc /\ t.reply = "none" /\ t.confirmed = n /\ t.goal = s.goal /\ t.past = s.past
      /\ t.phase = IF Whole(n) THEN "complete" ELSE "uploading"
  BY DEF Sound, Hangup, Settled, Handle
<1> HIDE DEF t
<1>3. Placed(t)
  BY <1>2 DEF Placed, Busy, Probing, Whole
<1>4. Known(t, r, a)
  BY <1>2 DEF Known, Whole
<1> QED BY <1>1, <1>3, <1>4 DEF Sound, t

\* The end of a completion call that may be done, or not.
LEMMA DecidedSound ==
  ASSUME NEW s, NEW r, NEW a, Sound(s, r, a), s.pc = "completing",
         NEW phase \in {"uploading", "complete"},
         phase = "complete" => s.reply = "ok"
  PROVE  Sound([Hangup(s, "idle") EXCEPT !.phase = phase], r, a)
<1> DEFINE t == [Hangup(s, "idle") EXCEPT !.phase = phase]
<1>1. /\ s.phase = "unknown" /\ s.confirmed = Size /\ s.call \in s.past /\ ~Whole(s.confirmed)
      /\ s.confirmed <= r /\ (s.reply = "ok" => s.past \cap a # {})
  BY DEF Sound, Placed, Known
<1>2. t \in Handle
  <2>1. s \in Handle /\ 0 \in Offsets /\ "idle" \in Steps
    BY UploadAssumption DEF Sound, Offsets, Steps
  <2>2. Hangup(s, "idle") \in Handle
    BY <2>1 DEF Hangup, Handle
  <2> QED BY <2>2 DEF Handle, Phases
<1>3. /\ t.pc = "idle" /\ t.reply = "none" /\ t.phase = phase
      /\ t.confirmed = s.confirmed /\ t.past = s.past
  BY DEF Sound, Hangup, Handle
<1> HIDE DEF t
<1>4. Placed(t)
  BY <1>1, <1>3 DEF Placed, Busy
<1>5. Known(t, r, a)
  BY <1>1, <1>3 DEF Known
<1> QED BY <1>2, <1>4, <1>5 DEF Sound, t

-----------------------------------------------------------------------------
(* One lemma for each step.                                                *)

LEMMA StepSafe == ASSUME IInv, NEW h \in Handles, Step(h) PROVE IInv'
<1> DEFINE s == handle[h]
           t == [s EXCEPT !.pc = IF s.verify THEN "verifying" ELSE "due"]
<1>1. s.pc = "idle" /\ s.phase = "uploading" /\ Become(h, t) /\ UNCHANGED <<net, app, faults>>
  BY DEF Step
<1>2. Sound(s, remote, applied)
  BY DEF IInv
<1>3. Sound(t, remote, applied)
  BY <1>1, <1>2 DEF Sound, Placed, Known, Handle, Steps, Busy, Probing
<1>4. Mine(wire, h) = {} /\ Mine(finals, h) = {}
  BY <1>1, NothingAwaited
<1>5. faults' \in 0..MaxFaults
  BY <1>1, FaultBound DEF IInv
<1> QED BY <1>1, <1>3, <1>4, <1>5, QuietStep

LEMMA VerifiedSafe == ASSUME IInv, NEW h \in Handles, Verified(h) PROVE IInv'
<1> DEFINE s == handle[h]
           resuming == s.pc = "resuming"
           t == Hangup(Settled(s, s.offer), IF resuming \/ Whole(s.offer) THEN "idle" ELSE "due")
           u == [Hangup(s, IF resuming THEN "none" ELSE "idle") EXCEPT !.refused = TRUE]
<1>1. /\ s.pc \in {"verifying", "resuming"} /\ s.reply = "ok"
      /\ (Acceptable(s, s.offer) /\ Become(h, t)) \/ Become(h, u)
      /\ UNCHANGED <<net, app, faults>>
  BY DEF Verified
<1>2. Sound(s, remote, applied)
  BY DEF IInv
<1>3. s.phase = "uploading" /\ s.offer \in Offsets /\ s.offer <= remote
  BY <1>1, <1>2 DEF Sound, Placed, Known, Handle, Busy, Probing
<1>7. Sound(t, remote, applied)
  BY <1>2, <1>3, SettledSound
<1>4. Sound(u, remote, applied)
  BY <1>1, <1>2, HangupSound DEF Busy
<1>5. Mine(wire, h) = {} /\ Mine(finals, h) = {}
  BY <1>1, NothingAwaited
<1>6. faults' \in 0..MaxFaults
  BY <1>1, FaultBound DEF IInv
<1> QED BY <1>1, <1>4, <1>5, <1>6, <1>7, QuietStep

LEMMA ProbeFailsSafe == ASSUME IInv, NEW h \in Handles, ProbeFails(h) PROVE IInv'
<1> DEFINE s == handle[h]
           t == Hangup(s, IF s.pc = "resuming" THEN "none" ELSE "idle")
<1>1. s.pc \in Probing /\ Become(h, t) /\ Fault /\ UNCHANGED <<net, app>>
  BY DEF ProbeFails
<1>2. Sound(s, remote, applied)
  BY DEF IInv
<1>3. Sound(t, remote, applied)
  BY <1>1, <1>2, HangupSound DEF Busy, Probing
<1>4. Mine(wire, h) = {} /\ Mine(finals, h) = {}
  BY <1>1, NothingAwaited DEF Probing
<1>5. faults' \in 0..MaxFaults
  BY <1>1, FaultBound DEF IInv
<1> QED BY <1>1, <1>3, <1>4, <1>5, QuietStep

LEMMA BufferSafe == ASSUME IInv, NEW h \in Handles, Buffer(h) PROVE IInv'
<1> DEFINE s == handle[h]
           t == [s EXCEPT !.pc = "sending", !.goal = ChunkEnd(s.confirmed)]
           u == [s EXCEPT !.pc = "idle", !.changed = TRUE]
<1>1. /\ s.pc = "due" /\ s.confirmed < Size
      /\ Become(h, t) \/ Become(h, u)
      /\ UNCHANGED <<net, app, faults>>
  BY DEF Buffer
<1>2. Sound(s, remote, applied)
  BY DEF IInv
<1>3. ChunkEnd(s.confirmed) \in Offsets /\ s.confirmed < ChunkEnd(s.confirmed)
  BY <1>1, <1>2, ChunkEndBounds DEF Sound, Handle
<1>4. Sound(t, remote, applied) /\ Sound(u, remote, applied)
  BY <1>1, <1>2, <1>3 DEF Sound, Placed, Known, Handle, Steps, Busy, Probing
<1>5. Mine(wire, h) = {} /\ Mine(finals, h) = {}
  BY <1>1, NothingAwaited
<1>6. faults' \in 0..MaxFaults
  BY <1>1, FaultBound DEF IInv
<1> QED BY <1>1, <1>4, <1>5, <1>6, QuietStep

LEMMA SendSafe == ASSUME IInv, NEW h \in Handles, Send(h) PROVE IInv'
<1> DEFINE s == handle[h]
           t == [Sending(s) EXCEPT !.pc = "appending"]
           m == [off |-> s.confirmed, end |-> s.goal, by |-> h]
<1>1. /\ s.pc = "sending" /\ Become(h, t) /\ wire' = wire \cup {m}
      /\ UNCHANGED <<finals, remote, applied, calls, saved, length, faults>>
  BY DEF Send, app
<1>2. Sound(s, remote, applied)
  BY DEF IInv
<1>3. s.reply = "none" /\ s.confirmed < s.goal
  BY <1>1, <1>2 DEF Sound, Placed, Probing
<1>4. Sound(t, remote, applied)
  BY <1>1, <1>2 DEF Sound, Placed, Known, Handle, Sending, Steps, Busy, Probing, Offsets
<1>5. m \in Appends /\ m.off < m.end /\ Awaited(m, t)
  BY <1>2, <1>3 DEF Sound, Handle, Appends, Callers, Awaited, Sending
<1>6. Mine(wire, h) = {} /\ Mine(finals, h) = {}
  BY <1>1, NothingAwaited
<1>7. /\ \A r \in wire : r.off < r.end /\ r.by # h
      /\ \A r \in finals : r.by # h
  BY <1>6 DEF IInv, Wired, Mine
<1>8. remote \in Offsets /\ remote <= remote
  BY DEF IInv, TypeOK, Offsets
<1> QED BY <1>1, <1>4, <1>5, <1>7, <1>8, StepKeeps DEF IInv, TypeOK

LEMMA AppendedSafe == ASSUME IInv, NEW h \in Handles, Appended(h) PROVE IInv'
<1> DEFINE s == handle[h]
           t == Hangup(Settled(s, s.goal), "idle")
<1>1. s.pc = "appending" /\ s.reply = "ok" /\ Become(h, t) /\ UNCHANGED <<net, app, faults>>
  BY DEF Appended
<1>2. Sound(s, remote, applied)
  BY DEF IInv
<1>3. s.phase = "uploading" /\ s.goal \in Offsets /\ s.goal <= remote
  BY <1>1, <1>2 DEF Sound, Placed, Known, Handle, Busy
<1>7. Sound(t, remote, applied)
  BY <1>2, <1>3, SettledSound
<1>4. Mine(wire, h) = {} /\ Mine(finals, h) = {}
  BY <1>1, NothingAwaited
<1>5. faults' \in 0..MaxFaults
  BY <1>1, FaultBound DEF IInv
<1> QED BY <1>1, <1>7, <1>4, <1>5, QuietStep

LEMMA ReconciledSafe == ASSUME IInv, NEW h \in Handles, Reconciled(h) PROVE IInv'
<1> DEFINE s == handle[h]
           n == s.offer
           again == Hangup(s, "sending")
           rest  == Hangup(Settled(s, n), "sending")
           whole == Hangup(Settled(s, n), "idle")
           wrong == [Hangup(s, "idle") EXCEPT !.refused = TRUE]
<1>1. /\ s.pc = "settling" /\ s.reply = "ok" /\ UNCHANGED <<net, app, faults>>
      /\ \/ Become(h, again)
         \/ n = s.goal /\ Become(h, whole)
         \/ s.confirmed < n /\ n < s.goal /\ Become(h, rest)
         \/ Become(h, wrong)
  BY DEF Reconciled
<1>2. Sound(s, remote, applied)
  BY DEF IInv
<1>3. /\ s.phase = "uploading" /\ s.confirmed < s.goal
      /\ n \in Offsets /\ s.goal \in Offsets /\ n <= remote
  BY <1>1, <1>2 DEF Sound, Placed, Known, Handle, Busy, Probing
<1>4. Sound(again, remote, applied) /\ Sound(wrong, remote, applied)
  BY <1>1, <1>2, <1>3, HangupSound
<1>5. Sound(whole, remote, applied)
  BY <1>2, <1>3, SettledSound
<1>9. n < s.goal => Sound(rest, remote, applied)
  <2>1. n < s.goal => ~Whole(n)
    BY <1>3, UploadAssumption DEF Whole, Offsets
  <2> QED BY <1>2, <1>3, <2>1, SettledSound
<1>6. Mine(wire, h) = {} /\ Mine(finals, h) = {}
  BY <1>1, NothingAwaited
<1>7. faults' \in 0..MaxFaults
  BY <1>1, FaultBound DEF IInv
<1>8. /\ Become(h, again) => IInv'
      /\ n = s.goal /\ Become(h, whole) => IInv'
      /\ s.confirmed < n /\ n < s.goal /\ Become(h, rest) => IInv'
      /\ Become(h, wrong) => IInv'
  BY <1>1, <1>4, <1>5, <1>6, <1>7, <1>9, QuietStep
<1> QED BY <1>1, <1>8

LEMMA AppendRaisesSafe == ASSUME IInv, NEW h \in Handles, AppendRaises(h) PROVE IInv'
<1> DEFINE s == handle[h]
<1>1. /\ s.pc = "appending" /\ Become(h, Hangup(s, "idle")) /\ wire' \in Orphans(wire, h)
      /\ UNCHANGED faults \/ TimesOut(h, wire)
      /\ UNCHANGED <<finals, remote, applied, calls, saved, length>>
  BY DEF AppendRaises, app
<1>2. Sound(Hangup(s, "idle"), remote, applied)
  BY <1>1, HangupSound DEF IInv, Busy
<1>3. Mine(finals, h) = {}
  BY <1>1, UploadAssumption DEF IInv, Wired, Final, Mine
<1>4. faults' \in 0..MaxFaults
  BY <1>1, FaultBound, TimeoutBound DEF IInv
<1> QED BY <1>1, <1>2, <1>3, <1>4, NothingOrphaned, GivenUp

LEMMA AppendUncertainSafe == ASSUME IInv, NEW h \in Handles, AppendUncertain(h) PROVE IInv'
<1> DEFINE s == handle[h]
<1>1. /\ s.pc = "appending" /\ Become(h, Hangup(s, "settling")) /\ wire' \in Orphans(wire, h)
      /\ TimesOut(h, wire)
      /\ UNCHANGED <<finals, remote, applied, calls, saved, length>>
  BY DEF AppendUncertain, app
<1>2. s.phase = "uploading" /\ s.confirmed < s.goal
  BY <1>1 DEF IInv, Sound, Placed, Busy
<1>3. Sound(Hangup(s, "settling"), remote, applied)
  BY <1>1, <1>2, HangupSound DEF IInv
<1>4. Mine(finals, h) = {}
  BY <1>1, UploadAssumption DEF IInv, Wired, Final, Mine
<1>5. faults' \in 0..MaxFaults
  BY <1>1, TimeoutBound DEF IInv
<1> QED BY <1>1, <1>3, <1>4, <1>5, NothingOrphaned, GivenUp

LEMMA CompleteSafe == ASSUME IInv, NEW h \in Handles, Complete(h) PROVE IInv'
<1> DEFINE s == handle[h]
           t == [s EXCEPT !.pc = "completing", !.phase = "unknown", !.call = calls + 1,
                          !.past = @ \cup {calls + 1}, !.tries = 0]
           m == [call |-> calls + 1, by |-> h]
<1>1. /\ s.pc = "due" /\ s.confirmed = Size /\ calls < MaxCompletions
      /\ calls' = calls + 1 /\ Become(h, t) /\ finals' = finals \cup {m}
      /\ UNCHANGED <<wire, remote, applied, saved, length, faults>>
  BY DEF Complete
<1>2. Sound(s, remote, applied) /\ s \in Handle
  BY DEF IInv, Sound
<1>3. calls + 1 \in Calls /\ calls' \in 0..MaxCompletions
  BY <1>1, UploadAssumption DEF IInv, TypeOK, Calls
<1>4. s.reply = "none" /\ ~Whole(s.confirmed)
  BY <1>1, <1>2 DEF Sound, Placed, Probing, Busy
<1>5. t \in Handle
  <2>1. [s EXCEPT !.pc = "completing", !.phase = "unknown"] \in Handle
    BY <1>2 DEF Handle, Steps, Phases
  <2>2. /\ calls + 1 \in 0..MaxCompletions /\ s.past \cup {calls + 1} \in SUBSET Calls
        /\ 0 \in 0..Retries
    BY <1>2, <1>3, UploadAssumption DEF Handle, Calls
  <2> QED BY <1>2, <2>1, <2>2 DEF Handle, Steps, Phases
<1>6. /\ t.pc = "completing" /\ t.phase = "unknown" /\ t.call = calls + 1 /\ t.reply = "none"
      /\ t.past = s.past \cup {calls + 1} /\ t.confirmed = s.confirmed
  BY <1>2, <1>4 DEF Handle
<1>7. Sound(t, remote, applied)
  <2> HIDE DEF t
  <2> QED BY <1>1, <1>2, <1>4, <1>5, <1>6 DEF Sound, Placed, Known, Busy, Probing
<1>8. m \in Completions /\ m.by = h /\ Final(m, t)
  <2>1. m \in Completions
    BY <1>3 DEF Completions, Callers
  <2> HIDE DEF t
  <2> QED BY <1>6, <2>1 DEF Final
<1>9. Mine(wire, h) = {} /\ Mine(finals, h) = {}
  BY <1>1, NothingAwaited
<1>10. /\ \A r \in wire : r.off < r.end /\ r.by # h
       /\ \A r \in finals : r.by # h
  BY <1>9 DEF IInv, Wired, Mine
<1>11. remote \in Offsets /\ remote <= remote
  BY DEF IInv, TypeOK, Offsets
<1> HIDE DEF t, m
<1> QED BY <1>1, <1>3, <1>7, <1>8, <1>10, <1>11, StepKeeps DEF IInv, TypeOK

LEMMA ResendSafe == ASSUME IInv, NEW h \in Handles, Resend(h) PROVE IInv'
<1> DEFINE s == handle[h]
           t == [Hangup(s, "completing") EXCEPT !.tries = @ + 1]
           m == [call |-> s.call, by |-> h]
<1>1. /\ s.pc = "completing" /\ s.reply \in Errors /\ s.tries < Retries
      /\ Become(h, t) /\ finals' = finals \cup {m}
      /\ UNCHANGED <<wire, remote, applied, calls, saved, length, faults>>
  BY DEF Resend, app
<1>2. Sound(s, remote, applied) /\ s \in Handle
  BY DEF IInv, Sound
<1>3. /\ s.phase = "unknown" /\ s.confirmed = Size /\ s.call \in s.past /\ ~Whole(s.confirmed)
      /\ s.call \in Calls
  BY <1>1, <1>2 DEF Sound, Placed, Handle
<1>4. t \in Handle
  <2>1. 0 \in Offsets /\ s.tries + 1 \in 0..Retries
    BY <1>1, <1>2, UploadAssumption DEF Handle, Offsets
  <2>2. Hangup(s, "completing") \in Handle
    BY <1>2, <2>1 DEF Hangup, Handle, Steps
  <2>3. Hangup(s, "completing").tries = s.tries
    BY <1>2 DEF Hangup, Handle
  <2> QED BY <2>1, <2>2, <2>3 DEF Handle
<1>5. /\ t.pc = "completing" /\ t.phase = "unknown" /\ t.call = s.call /\ t.reply = "none"
      /\ t.past = s.past /\ t.confirmed = s.confirmed
  BY <1>2, <1>3 DEF Hangup, Handle
<1>6. Sound(t, remote, applied)
  <2> HIDE DEF t
  <2> QED BY <1>2, <1>3, <1>4, <1>5 DEF Sound, Placed, Known, Busy, Probing
<1>7. m \in Completions /\ m.by = h /\ Final(m, t)
  <2>1. m \in Completions
    BY <1>3 DEF Completions, Callers
  <2> HIDE DEF t
  <2> QED BY <1>5, <2>1 DEF Final
<1>8. Mine(wire, h) = {} /\ Mine(finals, h) = {}
  BY <1>1, NothingAwaited DEF Errors
<1>9. /\ \A r \in wire : r.off < r.end /\ r.by # h
      /\ \A r \in finals : r.by # h
  BY <1>8 DEF IInv, Wired, Mine
<1>10. remote \in Offsets /\ remote <= remote
  BY DEF IInv, TypeOK, Offsets
<1> HIDE DEF t, m
<1> QED BY <1>1, <1>6, <1>7, <1>9, <1>10, StepKeeps DEF IInv, TypeOK

LEMMA CompletedSafe == ASSUME IInv, NEW h \in Handles, Completed(h) PROVE IInv'
<1> DEFINE s == handle[h]
           t == [Hangup(s, "idle") EXCEPT !.phase = "complete"]
<1>1. s.pc = "completing" /\ s.reply = "ok" /\ Become(h, t) /\ UNCHANGED <<net, app, faults>>
  BY DEF Completed
<1>2. Sound(t, remote, applied)
  BY <1>1, DecidedSound DEF IInv
<1>3. Mine(wire, h) = {} /\ Mine(finals, h) = {}
  BY <1>1, NothingAwaited
<1>4. faults' \in 0..MaxFaults
  BY <1>1, FaultBound DEF IInv
<1> QED BY <1>1, <1>2, <1>3, <1>4, QuietStep

LEMMA CompletionRefusedSafe == ASSUME IInv, NEW h \in Handles, CompletionRefused(h) PROVE IInv'
<1> DEFINE s == handle[h]
           t == [Hangup(s, "idle") EXCEPT !.phase = "uploading"]
<1>1. /\ s.pc = "completing" /\ Become(h, t)
      /\ \/ s.reply # "none" /\ UNCHANGED <<finals, faults>>
         \/ Fault /\ finals' = finals \ Mine(finals, h)
      /\ UNCHANGED <<wire, remote, applied, calls, saved, length>>
  BY DEF CompletionRefused, app
<1>2. Sound(t, remote, applied)
  BY <1>1, DecidedSound DEF IInv
<1>3. Mine(wire, h) = {} /\ (s.reply # "none" => Mine(finals, h) = {})
  BY <1>1, NothingAwaited, UploadAssumption DEF IInv, Wired, Awaited, Mine
<1>4. finals' \in Orphans(finals, h) /\ wire' \in Orphans(wire, h)
  BY <1>1, <1>3, NothingOrphaned DEF Orphans
<1>5. faults' \in 0..MaxFaults
  BY <1>1, FaultBound DEF IInv
<1> QED BY <1>1, <1>2, <1>4, <1>5, GivenUp

LEMMA CompletionUnknownSafe == ASSUME IInv, NEW h \in Handles, CompletionUnknown(h) PROVE IInv'
<1> DEFINE s == handle[h]
<1>1. /\ s.pc = "completing" /\ Become(h, Hangup(s, "idle"))
      /\ \/ s.reply # "none" /\ UNCHANGED <<finals, faults>>
         \/ TimesOut(h, finals) /\ finals' \in Orphans(finals, h)
      /\ UNCHANGED <<wire, remote, applied, calls, saved, length>>
  BY DEF CompletionUnknown, app
<1>2. Sound(Hangup(s, "idle"), remote, applied)
  BY <1>1, HangupSound DEF IInv, Busy
<1>3. Mine(wire, h) = {} /\ (s.reply # "none" => Mine(finals, h) = {})
  BY <1>1, NothingAwaited, UploadAssumption DEF IInv, Wired, Awaited, Mine
<1>4. finals' \in Orphans(finals, h) /\ wire' \in Orphans(wire, h)
  BY <1>1, <1>3, NothingOrphaned
<1>5. faults' \in 0..MaxFaults
  BY <1>1, FaultBound, TimeoutBound DEF IInv
<1> QED BY <1>1, <1>2, <1>4, <1>5, GivenUp

LEMMA CheckpointSafe == ASSUME IInv, NEW h \in Handles, Checkpoint(h) PROVE IInv'
<1> DEFINE s == handle[h]
           c == [confirmed |-> s.confirmed, phase |-> s.phase, past |-> s.past]
<1>1. /\ s.pc # "none" /\ s.phase # "complete" /\ saved' = {c}
      /\ UNCHANGED <<handle, wire, finals, remote, applied, calls, length, faults>>
  BY DEF Checkpoint, net
<1>2. Sound(s, remote, applied)
  BY DEF IInv
<1>3. c \in Checkpoints /\ c.confirmed <= remote /\ ~Whole(c.confirmed)
  BY <1>1, <1>2 DEF Sound, Placed, Known, Handle, Checkpoints, Phases
<1>4. TypeOK' /\ Wired' /\ Resumable'
  BY <1>1, <1>3 DEF IInv, TypeOK, Wired, Awaited, Final, Resumable, Whole
<1> QED BY <1>1, <1>4 DEF IInv

LEMMA CloseSafe == ASSUME IInv, NEW h \in Handles, Close(h) PROVE IInv'
<1> DEFINE s == handle[h]
           t == [s EXCEPT !.pc = "closed"]
<1>1. s.pc = "idle" /\ Become(h, t) /\ Fault /\ UNCHANGED <<net, app>>
  BY DEF Close
<1>2. Sound(t, remote, applied)
  BY <1>1 DEF IInv, Sound, Placed, Known, Handle, Steps, Busy, Probing
<1>3. Mine(wire, h) = {} /\ Mine(finals, h) = {}
  BY <1>1, NothingAwaited
<1>4. faults' \in 0..MaxFaults
  BY <1>1, FaultBound DEF IInv
<1> QED BY <1>1, <1>2, <1>3, <1>4, QuietStep

LEMMA CrashSafe == ASSUME IInv, NEW h \in Handles, Crash(h) PROVE IInv'
<1> DEFINE s == handle[h]
<1>1. /\ s.pc # "none" /\ Fault /\ Become(h, Hangup(s, "none"))
      /\ wire' \in Orphans(wire, h) /\ finals' \in Orphans(finals, h)
      /\ UNCHANGED <<remote, applied, calls, saved, length>>
  BY DEF Crash, app
<1>2. Sound(Hangup(s, "none"), remote, applied)
  BY <1>1, HangupSound DEF IInv, Busy
<1>3. faults' \in 0..MaxFaults
  BY <1>1, FaultBound DEF IInv
<1> QED BY <1>1, <1>2, <1>3, GivenUp

LEMMA ResumeSafe == ASSUME IInv, NEW h \in Handles, Resume(h) PROVE IInv'
<1> DEFINE s == handle[h]
           Resumed(c) ==
             [s EXCEPT !.pc = "resuming", !.phase = c.phase, !.confirmed = c.confirmed,
                       !.verify = TRUE, !.high = Size, !.goal = 0, !.changed = FALSE,
                       !.call = 0, !.past = c.past, !.tries = 0]
<1>1. PICK c \in saved : /\ s.pc = "none" /\ c.phase = "uploading"
                         /\ Become(h, Resumed(c)) /\ UNCHANGED <<net, app, faults>>
  BY DEF Resume
<1> DEFINE t == Resumed(c)
<1>2. Sound(s, remote, applied) /\ s \in Handle /\ s.reply = "none"
  BY <1>1 DEF IInv, Sound, Placed, Probing
<1>3. c \in Checkpoints /\ c.confirmed <= remote /\ ~Whole(c.confirmed)
  BY DEF IInv, TypeOK, Resumable
<1>4. t \in Handle
  <2>1. /\ Size \in Offsets /\ 0 \in Offsets /\ 0 \in 0..MaxCompletions /\ 0 \in 0..Retries
        /\ c.confirmed \in Offsets /\ c.phase \in Phases /\ c.past \in SUBSET Calls
    BY <1>3, UploadAssumption DEF Offsets, Checkpoints
  <2>2. [s EXCEPT !.pc = "resuming", !.phase = c.phase, !.confirmed = c.confirmed] \in Handle
    BY <1>2, <2>1 DEF Handle, Steps
  <2>3. [s EXCEPT !.pc = "resuming", !.phase = c.phase, !.confirmed = c.confirmed,
                  !.verify = TRUE, !.high = Size, !.goal = 0, !.changed = FALSE] \in Handle
    BY <1>2, <2>1, <2>2 DEF Handle
  <2> QED BY <1>2, <2>1, <2>3 DEF Handle
<1>5. /\ t.pc = "resuming" /\ t.phase = "uploading" /\ t.confirmed = c.confirmed
      /\ t.reply = "none"
  BY <1>1, <1>2 DEF Handle
<1>6. Sound(t, remote, applied)
  <2> HIDE DEF t
  <2> QED BY <1>3, <1>4, <1>5 DEF Sound, Placed, Known, Busy
<1>7. Mine(wire, h) = {} /\ Mine(finals, h) = {}
  BY <1>1, NothingAwaited
<1>8. faults' \in 0..MaxFaults
  BY <1>1, FaultBound DEF IInv
<1> QED BY <1>1, <1>6, <1>7, <1>8, QuietStep

LEMMA ServeProbeSafe == ASSUME IInv, NEW h \in Handles, ServeProbe(h) PROVE IInv'
<1> DEFINE s == handle[h]
           t == [s EXCEPT !.reply = "ok", !.offer = remote]
<1>1. s.pc \in Probing /\ s.reply = "none" /\ Become(h, t) /\ UNCHANGED <<net, app, faults>>
  BY DEF ServeProbe
<1>2. Sound(s, remote, applied) /\ s \in Handle /\ remote \in Offsets
  BY DEF IInv, Sound, TypeOK
<1>3. t \in Handle
  BY <1>2 DEF Handle
<1>4. /\ t.pc = s.pc /\ t.phase = s.phase /\ t.confirmed = s.confirmed /\ t.goal = s.goal
      /\ t.past = s.past /\ t.reply = "ok" /\ t.offer = remote
  BY <1>2 DEF Handle
<1>5. Sound(t, remote, applied)
  <2> HIDE DEF t
  <2> QED BY <1>1, <1>2, <1>3, <1>4 DEF Sound, Placed, Known, Probing, Offsets
<1>6. Mine(wire, h) = {} /\ Mine(finals, h) = {}
  BY <1>1, NothingAwaited DEF Probing
<1>7. faults' \in 0..MaxFaults
  BY <1>1, FaultBound DEF IInv
<1> QED BY <1>1, <1>5, <1>6, <1>7, QuietStep
-----------------------------------------------------------------------------
(* The server                                                              *)

\* An answered call leaves its handle where it was.
LEMMA AnsweredSound ==
  ASSUME NEW s, NEW r, NEW a, Sound(s, r, a), s.reply = "none",
         s.pc \in {"appending", "completing"}, NEW kind \in Errors \cup {"none", "ok"},
         kind = "ok" /\ s.pc = "appending" => s.goal <= r,
         kind = "ok" /\ s.pc = "completing" => s.call \in a
  PROVE  Sound([s EXCEPT !.reply = kind], r, a)
<1> DEFINE t == [s EXCEPT !.reply = kind]
<1>1. t \in Handle
  BY DEF Sound, Handle
<1>2. /\ t.pc = s.pc /\ t.phase = s.phase /\ t.confirmed = s.confirmed /\ t.goal = s.goal
      /\ t.past = s.past /\ t.call = s.call /\ t.reply = kind
  BY DEF Sound, Handle
<1> HIDE DEF t
<1>3. Placed(t) /\ Known(t, r, a)
  BY <1>2 DEF Sound, Placed, Known, Busy, Probing
<1> QED BY <1>1, <1>3 DEF Sound, t

\* The append a handle waits for is the only request it has on its way.
LEMMA SoleAppend ==
  ASSUME IInv, NEW m \in wire, m.by # Nobody
  PROVE  /\ m.by \in Handles /\ Awaited(m, handle[m.by])
         /\ Mine(wire, m.by) = {m} /\ Mine(finals, m.by) = {}
<1>1. m.by \in Handles /\ m \in Appends
  BY DEF IInv, TypeOK, Appends, Callers
<1>2. Awaited(m, handle[m.by])
  BY DEF IInv, Wired
<1>3. ASSUME NEW q \in wire, q.by = m.by PROVE q = m
  <2>1. q \in Appends /\ Awaited(q, handle[m.by])
    BY <1>3 DEF IInv, TypeOK, Wired
  <2> QED BY <1>1, <1>2, <1>3, <2>1 DEF Awaited, Appends
<1>4. Mine(finals, m.by) = {}
  BY <1>1, <1>2, UploadAssumption DEF IInv, Wired, Final, Awaited, Mine
<1> QED BY <1>1, <1>2, <1>3, <1>4 DEF Mine

LEMMA SoleCompletion ==
  ASSUME IInv, NEW m \in finals, m.by # Nobody
  PROVE  /\ m.by \in Handles /\ Final(m, handle[m.by])
         /\ Mine(finals, m.by) = {m} /\ Mine(wire, m.by) = {}
<1>1. m.by \in Handles /\ m \in Completions
  BY DEF IInv, TypeOK, Completions, Callers
<1>2. Final(m, handle[m.by])
  BY DEF IInv, Wired
<1>3. ASSUME NEW q \in finals, q.by = m.by PROVE q = m
  <2>1. q \in Completions /\ Final(q, handle[m.by])
    BY <1>3 DEF IInv, TypeOK, Wired
  <2> QED BY <1>1, <1>2, <1>3, <2>1 DEF Final, Completions
<1>4. Mine(wire, m.by) = {}
  BY <1>1, <1>2, UploadAssumption DEF IInv, Wired, Final, Awaited, Mine
<1> QED BY <1>1, <1>2, <1>3, <1>4 DEF Mine

\* The server takes an append, or a gateway answers for it.
LEMMA AppendServed ==
  ASSUME IInv, NEW m \in wire, NEW kind \in Errors \cup {"none", "ok"}, Answer(m.by, kind),
         remote' \in Offsets, remote <= remote', kind = "ok" => m.end <= remote',
         wire' \subseteq (wire \ {m}) \cup {[m EXCEPT !.by = Nobody]},
         UNCHANGED <<finals, applied, app>>, faults' \in 0..MaxFaults
  PROVE  IInv'
<1> DEFINE o == [m EXCEPT !.by = Nobody]
<1>1. m \in Appends /\ m.off < m.end
  BY DEF IInv, TypeOK, Wired
<1>2. o = [off |-> m.off, end |-> m.end, by |-> Nobody]
  BY <1>1 DEF Appends
<1>3. o \in Appends /\ o.off < o.end /\ o.by = Nobody
  BY <1>1, <1>2 DEF Appends, Callers
<1>4. UNCHANGED <<calls, saved, length>>
  BY DEF app
<1> HIDE DEF o
<1>5. CASE m.by = Nobody
  <2>1. o = m
    BY <1>1, <1>2, <1>5 DEF Appends
  <2>2. wire' \subseteq wire
    BY <2>1 DEF o
  <2> QED BY <1>5, <2>2, UnheardStep DEF Answer, IInv, TypeOK
<1>6. CASE m.by # Nobody
  <2> DEFINE h == m.by
             t == [handle[h] EXCEPT !.reply = kind]
  <2>1. /\ h \in Handles /\ Awaited(m, handle[h])
        /\ Mine(wire, h) = {m} /\ Mine(finals, h) = {}
    BY <1>6, SoleAppend
  <2>2. Become(h, t)
    BY <1>6 DEF Answer
  <2>3. Sound(handle[h], remote', applied)
    BY <2>1, KnownGrows DEF IInv, TypeOK
  <2>4. Sound(t, remote', applied)
    BY <2>1, <2>3, AnsweredSound DEF Awaited
  <2>5. \A q \in wire' : /\ q \in Appends /\ q.off < q.end /\ q.by # h
                         /\ q \in wire \/ q.by = Nobody
    BY <1>3, <1>6, <2>1 DEF IInv, TypeOK, Wired, Mine, o
  <2>6. \A q \in finals : q.by # h
    BY <2>1 DEF Mine
  <2> HIDE DEF h, t
  <2> QED BY <1>4, <2>1, <2>2, <2>4, <2>5, <2>6, StepKeeps DEF IInv, TypeOK
<1> QED BY <1>5, <1>6

LEMMA ServeAppendSafe == ASSUME IInv, NEW m \in wire, ServeAppend(m) PROVE IInv'
<1>1. m \in Appends /\ m.off < m.end /\ remote \in Offsets /\ remote <= remote
  BY DEF IInv, TypeOK, Wired, Offsets
<1>2. CASE KeepAppend(m)
  <2>1. PICK kind \in Errors \cup {"none", "ok"} :
          /\ Answer(m.by, kind) /\ (kind = "ok" => remote' = m.end)
          /\ remote' = m.end \/ remote' \in (m.off + 1)..(m.end - 1)
          /\ m.off = remote
    <3>1. CASE remote' = m.end /\ Answer(m.by, "ok")
      BY <1>2, <3>1 DEF KeepAppend
    <3>2. CASE /\ remote' = m.end \/ remote' \in (m.off + 1)..(m.end - 1)
               /\ \E kind \in Errors \cup {"none"} : Answer(m.by, kind)
      BY <1>2, <3>2 DEF KeepAppend, Errors
    <3> QED BY <1>2, <3>1, <3>2 DEF KeepAppend
  <2>2. remote' \in Offsets /\ remote <= remote' /\ (kind = "ok" => m.end <= remote')
    BY <1>1, <2>1, UploadAssumption DEF Appends, Offsets
  <2>3. faults' \in 0..MaxFaults
    BY <1>2, FaultBound DEF KeepAppend, IInv
  <2>4. wire' \subseteq wire \ {m} /\ UNCHANGED <<finals, applied, app>>
    BY <1>2 DEF KeepAppend
  <2> QED BY <2>1, <2>2, <2>3, <2>4, AppendServed
<1>3. CASE RefuseAppend(m)
  <2>1. faults' \in 0..MaxFaults
    BY <1>3, FaultBound DEF RefuseAppend, IInv
  <2>2. /\ Answer(m.by, "refused") /\ wire' = wire \ {m} /\ remote' = remote
        /\ UNCHANGED <<finals, applied, app>> /\ "refused" \in Errors
    BY <1>3 DEF RefuseAppend, Errors
  <2> QED BY <1>1, <2>1, <2>2, AppendServed
<1>4. CASE GatewayAppend(m)
  <2>1. faults' \in 0..MaxFaults
    BY <1>4, FaultBound DEF GatewayAppend, IInv
  <2>2. /\ Answer(m.by, "gateway") /\ wire' = (wire \ {m}) \cup {[m EXCEPT !.by = Nobody]}
        /\ remote' = remote /\ UNCHANGED <<finals, applied, app>> /\ "gateway" \in Errors
    BY <1>4 DEF GatewayAppend, Errors
  <2> QED BY <1>1, <2>1, <2>2, AppendServed
<1> QED BY <1>2, <1>3, <1>4 DEF ServeAppend

\* The server takes a completion, or a gateway answers for it.
LEMMA CompletionServed ==
  ASSUME IInv, NEW m \in finals, NEW kind \in Errors \cup {"none", "ok"}, Answer(m.by, kind),
         applied \subseteq applied', applied' \subseteq Calls, kind = "ok" => m.call \in applied',
         finals' \subseteq (finals \ {m}) \cup {[m EXCEPT !.by = Nobody]},
         UNCHANGED <<wire, remote, app>>, faults' \in 0..MaxFaults
  PROVE  IInv'
<1> DEFINE o == [m EXCEPT !.by = Nobody]
<1>1. m \in Completions
  BY DEF IInv, TypeOK
<1>2. o = [call |-> m.call, by |-> Nobody]
  BY <1>1 DEF Completions
<1>3. o \in Completions /\ o.by = Nobody
  BY <1>1, <1>2 DEF Completions, Callers
<1>4. UNCHANGED <<calls, saved, length>> /\ remote \in Offsets /\ remote <= remote
  BY DEF app, IInv, TypeOK, Offsets
<1> HIDE DEF o
<1>5. CASE m.by = Nobody
  <2>1. o = m
    BY <1>1, <1>2, <1>5 DEF Completions
  <2>2. finals' \subseteq finals
    BY <2>1 DEF o
  <2> QED BY <1>4, <1>5, <2>2, UnheardStep DEF Answer
<1>6. CASE m.by # Nobody
  <2> DEFINE h == m.by
             t == [handle[h] EXCEPT !.reply = kind]
  <2>1. /\ h \in Handles /\ Final(m, handle[h])
        /\ Mine(finals, h) = {m} /\ Mine(wire, h) = {}
    BY <1>6, SoleCompletion
  <2>2. Become(h, t)
    BY <1>6 DEF Answer
  <2>3. Sound(handle[h], remote, applied')
    BY <1>4, <2>1, KnownGrows DEF IInv
  <2>4. Sound(t, remote, applied')
    BY <2>1, <2>3, AnsweredSound DEF Final
  <2>5. \A q \in finals' : /\ q \in Completions /\ q.by # h /\ (q \in finals \/ q.by = Nobody)
    BY <1>3, <1>6, <2>1 DEF IInv, TypeOK, Mine, o
  <2>6. \A q \in wire : q.by # h /\ q.off < q.end
    BY <2>1 DEF Mine, IInv, Wired
  <2> HIDE DEF h, t
  <2> QED BY <1>4, <2>1, <2>2, <2>4, <2>5, <2>6, StepKeeps DEF IInv, TypeOK
<1> QED BY <1>5, <1>6

LEMMA ServeCompletionSafe == ASSUME IInv, NEW m \in finals, ServeCompletion(m) PROVE IInv'
<1>1. m \in Completions /\ applied \subseteq Calls
  BY DEF IInv, TypeOK
<1>2. CASE ApplyCompletion(m)
  <2>1. PICK kind \in Errors \cup {"none", "ok"} : Answer(m.by, kind)
    BY <1>2 DEF ApplyCompletion, Errors
  <2>2. /\ applied' = applied \cup {m.call} /\ finals' = finals \ {m}
        /\ UNCHANGED <<wire, remote, app>>
    BY <1>2 DEF ApplyCompletion
  <2>3. applied' \subseteq Calls /\ faults' \in 0..MaxFaults
    BY <1>1, <1>2, <2>2, FaultBound DEF ApplyCompletion, IInv, Completions
  <2> QED BY <2>1, <2>2, <2>3, CompletionServed
<1>3. CASE RefuseCompletion(m)
  <2>1. faults' \in 0..MaxFaults
    BY <1>3, FaultBound DEF RefuseCompletion, IInv
  <2>2. /\ Answer(m.by, "refused") /\ finals' = finals \ {m} /\ applied' = applied
        /\ UNCHANGED <<wire, remote, app>> /\ "refused" \in Errors
    BY <1>3 DEF RefuseCompletion, Errors
  <2> QED BY <1>1, <2>1, <2>2, CompletionServed
<1>4. CASE GatewayCompletion(m)
  <2>1. faults' \in 0..MaxFaults
    BY <1>4, FaultBound DEF GatewayCompletion, IInv
  <2>2. /\ Answer(m.by, "gateway")
        /\ finals' = (finals \ {m}) \cup {[m EXCEPT !.by = Nobody]}
        /\ applied' = applied /\ UNCHANGED <<wire, remote, app>> /\ "gateway" \in Errors
    BY <1>4 DEF GatewayCompletion, Errors
  <2> QED BY <1>1, <2>1, <2>2, CompletionServed
<1> QED BY <1>2, <1>3, <1>4 DEF ServeCompletion

LEMMA ChangeSourceSafe == ASSUME IInv, ChangeSource PROVE IInv'
<1>1. Fault /\ length' \in Lengths /\ UNCHANGED <<handle, wire, finals, remote, applied, calls, saved>>
  BY DEF ChangeSource, net
<1>2. TypeOK'
  BY <1>1, FaultBound DEF IInv, TypeOK
<1> QED BY <1>1, <1>2 DEF IInv, Wired, Awaited, Final, Resumable
-----------------------------------------------------------------------------
(* The theorems                                                            *)

LEMMA InitSafe == Init => IInv
<1> SUFFICES ASSUME Init PROVE IInv
  OBVIOUS
<1>1. ASSUME NEW h \in Handles PROVE Sound(Fresh(h), 0, {})
  <2>1. Fresh(h) \in Handle
    BY UploadAssumption DEF Fresh, Handle, Steps, Phases, Offsets, Calls
  <2> QED BY <2>1, UploadAssumption DEF Fresh, Sound, Placed, Known, Whole, Busy
<1>2. TypeOK
  BY <1>1, UploadAssumption DEF Init, TypeOK, Sound, Offsets
<1> QED BY <1>1, <1>2 DEF Init, IInv, Wired, Resumable

LEMMA NextSafe == IInv /\ [Next]_vars => IInv'
<1> SUFFICES ASSUME IInv, [Next]_vars PROVE IInv'
  OBVIOUS
<1>1. ASSUME NEW h \in Handles, Uploading(h) PROVE IInv'
  BY <1>1, StepSafe, VerifiedSafe, ProbeFailsSafe, BufferSafe, SendSafe, AppendedSafe,
     AppendRaisesSafe, AppendUncertainSafe, ReconciledSafe DEF Uploading
<1>2. ASSUME NEW h \in Handles, Completing(h) PROVE IInv'
  BY <1>2, CompleteSafe, ResendSafe, CompletedSafe, CompletionRefusedSafe,
     CompletionUnknownSafe DEF Completing
<1>3. ASSUME NEW h \in Handles, Owning(h) PROVE IInv'
  BY <1>3, CheckpointSafe, CloseSafe, CrashSafe, ResumeSafe DEF Owning
<1>4. CASE UNCHANGED vars
  BY <1>4 DEF vars, IInv, TypeOK, Wired, Awaited, Final, Resumable
<1> QED
  BY <1>1, <1>2, <1>3, <1>4, ServeProbeSafe, ServeAppendSafe, ServeCompletionSafe,
     ChangeSourceSafe DEF Next

LEMMA Invariance == Spec => []IInv
BY InitSafe, NextSafe, PTL DEF Spec

\* The state of the handles, the wire and the server is always well typed.
THEOREM TypeCorrect == Spec => []TypeOK
<1>1. IInv => TypeOK
  BY DEF IInv
<1> QED BY <1>1, Invariance, PTL

\* No handle and no checkpoint ever counts a byte as confirmed that the server does
\* not hold, for any number of handles, any content and any schedule of faults.
THEOREM ConfirmedHeld == Spec => []ConfirmedIsHeld
<1>1. IInv => ConfirmedIsHeld
  BY DEF IInv, ConfirmedIsHeld, Sound, Known, Resumable
<1> QED BY <1>1, Invariance, PTL

\* A handle that reports a complete upload has all of it on the server, completed there.
THEOREM CompleteDone == Spec => []CompleteIsDone
<1>1. IInv => CompleteIsDone
  BY UploadAssumption DEF IInv, TypeOK, CompleteIsDone, Sound, Placed, Known, Handle, Offsets
<1> QED BY <1>1, Invariance, PTL

\* The completion step of a helper with no completion operation is never reached.
THEOREM CompletionAlwaysDeclared == Spec => []CompletionDeclared
<1>1. IInv => CompletionDeclared
  BY DEF IInv, CompletionDeclared, Sound, Placed, Busy, Whole
<1> QED BY <1>1, Invariance, PTL
-----------------------------------------------------------------------------
(* A completion of unknown outcome is not sent again. *)

\* The completion calls the server applied or may still apply
AtLarge == applied \cup {m.call : m \in finals}

\* What a handle knows of its past completions: while it uploads none is at large, and otherwise
\* only the last may be, which is not once the server refused it.
Careful(s, large, n) ==
  /\ s.past \subseteq 1..n /\ s.past \cap large \subseteq {s.call}
  /\ s.phase = "uploading" => s.past \cap large = {}
  /\ s.pc = "completing" /\ s.reply = "refused" => s.call \notin large

\* No call is on its way twice, nor once it is applied.
Distinct ==
  /\ \A m \in finals : m.call \notin applied
  /\ \A m, n \in finals : m.call = n.call => m = n

Once ==
  /\ AtLarge \subseteq 1..calls /\ Distinct
  /\ \A h \in Handles : Careful(handle[h], AtLarge, calls)
  /\ \A c \in saved : /\ c.past \subseteq 1..calls
                      /\ c.phase = "uploading" => c.past \cap AtLarge = {}

\* A handle that goes on without a new completion stays careful.
LEMMA CarefulSame ==
  ASSUME NEW s, NEW t, NEW large, NEW n, Careful(s, large, n),
         t.past = s.past, t.call = s.call, t.phase = "uploading" => s.phase = "uploading",
         t.pc # "completing" \/ t.reply # "refused"
  PROVE  Careful(t, large, n)
BY DEF Careful

\* A step of one handle that brings no completion under way keeps all careful.
LEMMA OnceStep ==
  ASSUME NEW h \in Handles, NEW s, IInv, Once, Become(h, s), UNCHANGED <<calls, saved>>,
         AtLarge' \subseteq AtLarge, Distinct', Careful(s, AtLarge, calls)
  PROVE  Once'
<1>1. handle' = [handle EXCEPT ![h] = s] /\ DOMAIN handle = Handles
  BY DEF Become, IInv, TypeOK
<1>2. ASSUME NEW g \in Handles PROVE Careful(handle'[g], AtLarge, calls)
  BY <1>1 DEF Once
<1>3. ASSUME NEW g \in Handles PROVE Careful(handle'[g], AtLarge', calls')
  BY <1>2 DEF Careful
<1>4. \A c \in saved' : /\ c.past \subseteq 1..calls'
                        /\ c.phase = "uploading" => c.past \cap AtLarge' = {}
  BY DEF Once
<1> QED BY <1>3, <1>4 DEF Once

\* A caller that gives up leaves no more under way than there was.
LEMMA OnceOrphaned ==
  ASSUME NEW h \in Handles, IInv, Once, finals' \in Orphans(finals, h), applied' = applied
  PROVE  AtLarge' \subseteq AtLarge /\ Distinct'
<1>1. ASSUME NEW m \in finals'
      PROVE  \E q \in finals :
               /\ m.call = q.call
               /\ m = IF q.by = h THEN [call |-> q.call, by |-> Nobody] ELSE q
  <2>1. CASE m \in finals /\ m.by # h
    BY <2>1
  <2>2. CASE \E q \in finals : q.by = h /\ m = [q EXCEPT !.by = Nobody]
    <3>1. PICK q \in finals : q.by = h /\ m = [q EXCEPT !.by = Nobody]
      BY <2>2
    <3>2. q \in Completions
      BY DEF IInv, TypeOK
    <3>3. m = [call |-> q.call, by |-> Nobody]
      BY <3>1, <3>2 DEF Completions
    <3> QED BY <3>1, <3>3
  <2> QED BY <2>1, <2>2, OrphansBelong
<1>2. AtLarge' \subseteq AtLarge
  BY <1>1 DEF AtLarge
<1>3. \A m \in finals' : m.call \notin applied'
  BY <1>1 DEF Once, Distinct
<1>4. ASSUME NEW m \in finals', NEW n \in finals', m.call = n.call PROVE m = n
  <2>1. PICK q \in finals : /\ m.call = q.call
                            /\ m = IF q.by = h THEN [call |-> q.call, by |-> Nobody] ELSE q
    BY <1>1
  <2>2. PICK r \in finals : /\ n.call = r.call
                            /\ n = IF r.by = h THEN [call |-> r.call, by |-> Nobody] ELSE r
    BY <1>1
  <2>3. q = r
    BY <1>4, <2>1, <2>2 DEF Once, Distinct
  <2> QED BY <2>1, <2>2, <2>3
<1> QED BY <1>2, <1>3, <1>4 DEF Distinct

LEMMA UploadingOnce == ASSUME IInv, Once, NEW h \in Handles, Uploading(h) PROVE Once'
<1> DEFINE s == handle[h]
<1>1. s \in Handle /\ Placed(s) /\ Careful(s, AtLarge, calls)
  BY DEF IInv, Sound, Once
<1>2. AtLarge' = AtLarge /\ Distinct' /\ UNCHANGED <<calls, saved>>
  <2>1. UNCHANGED <<finals, applied, calls, saved>>
    BY DEF Uploading, Step, Verified, ProbeFails, Buffer, Send, Appended, AppendRaises,
       AppendUncertain, Reconciled, net, app
  <2> QED BY <2>1 DEF Once, AtLarge, Distinct
<1>3. ASSUME NEW t, Become(h, t), t.past = s.past, t.call = s.call,
             t.phase = "uploading" => s.phase = "uploading",
             t.pc # "completing" \/ t.reply # "refused"
      PROVE  Once'
  BY <1>1, <1>2, <1>3, CarefulSame, OnceStep
<1>4. ASSUME NEW pc, Become(h, Hangup(s, pc)) PROVE Once'
  <2> DEFINE t == Hangup(s, pc)
  <2>1. t.past = s.past /\ t.call = s.call /\ t.phase = s.phase /\ t.reply = "none"
    BY <1>1 DEF Hangup, Handle
  <2> HIDE DEF t
  <2> QED BY <1>3, <1>4, <2>1 DEF t
<1>5. ASSUME NEW pc, Become(h, [Hangup(s, pc) EXCEPT !.refused = TRUE]) PROVE Once'
  <2> DEFINE t == [Hangup(s, pc) EXCEPT !.refused = TRUE]
  <2>1. t.past = s.past /\ t.call = s.call /\ t.phase = s.phase /\ t.reply = "none"
    BY <1>1 DEF Hangup, Handle
  <2> HIDE DEF t
  <2> QED BY <1>3, <1>5, <2>1 DEF t
<1>6. ASSUME NEW n, NEW pc, Become(h, Hangup(Settled(s, n), pc)) PROVE Once'
  <2> DEFINE t == Hangup(Settled(s, n), pc)
  <2>1. /\ t.past = s.past /\ t.call = s.call /\ t.reply = "none"
        /\ t.phase = IF Whole(n) THEN "complete" ELSE s.phase
    BY <1>1 DEF Hangup, Settled, Handle
  <2> HIDE DEF t
  <2> QED BY <1>3, <1>6, <2>1 DEF t
<1>7. CASE Step(h)
  <2> DEFINE t == [s EXCEPT !.pc = IF s.verify THEN "verifying" ELSE "due"]
  <2>1. Become(h, t)
    BY <1>7 DEF Step
  <2>2. t.past = s.past /\ t.call = s.call /\ t.phase = s.phase /\ t.pc # "completing"
    BY <1>1 DEF Handle
  <2> HIDE DEF t
  <2> QED BY <1>3, <2>1, <2>2
<1>8. CASE Buffer(h)
  <2> DEFINE t == [s EXCEPT !.pc = "sending", !.goal = ChunkEnd(s.confirmed)]
             u == [s EXCEPT !.pc = "idle", !.changed = TRUE]
  <2>1. Become(h, t) \/ Become(h, u)
    BY <1>8 DEF Buffer
  <2>2. /\ t.past = s.past /\ t.call = s.call /\ t.phase = s.phase /\ t.pc # "completing"
        /\ u.past = s.past /\ u.call = s.call /\ u.phase = s.phase /\ u.pc # "completing"
    BY <1>1 DEF Handle
  <2> HIDE DEF t, u
  <2> QED BY <1>3, <2>1, <2>2
<1>9. CASE Send(h)
  <2> DEFINE t == [Sending(s) EXCEPT !.pc = "appending"]
  <2>1. Become(h, t)
    BY <1>9 DEF Send
  <2>2. t.past = s.past /\ t.call = s.call /\ t.phase = s.phase /\ t.pc # "completing"
    BY <1>1 DEF Handle, Sending
  <2> HIDE DEF t
  <2> QED BY <1>3, <2>1, <2>2
<1>10. CASE Verified(h)
  BY <1>5, <1>6, <1>10 DEF Verified
<1>11. CASE ProbeFails(h) \/ AppendRaises(h) \/ AppendUncertain(h)
  BY <1>4, <1>11 DEF ProbeFails, AppendRaises, AppendUncertain
<1>12. CASE Appended(h)
  BY <1>6, <1>12 DEF Appended
<1>13. CASE Reconciled(h)
  BY <1>4, <1>5, <1>6, <1>13 DEF Reconciled
<1> QED BY <1>7, <1>8, <1>9, <1>10, <1>11, <1>12, <1>13 DEF Uploading

LEMMA CompleteOnce == ASSUME IInv, Once, NEW h \in Handles, Complete(h) PROVE Once'
<1> DEFINE s == handle[h]
           t == [s EXCEPT !.pc = "completing", !.phase = "unknown", !.call = calls + 1,
                          !.past = @ \cup {calls + 1}, !.tries = 0]
           m == [call |-> calls + 1, by |-> h]
<1>1. /\ s.pc = "due" /\ calls' = calls + 1 /\ Become(h, t) /\ finals' = finals \cup {m}
      /\ UNCHANGED <<applied, saved>>
  BY DEF Complete
<1>2. s \in Handle /\ Placed(s) /\ calls \in Nat /\ handle \in [Handles -> Handle]
  BY UploadAssumption DEF IInv, Sound, TypeOK
<1>3. /\ t.pc = "completing" /\ t.phase = "unknown" /\ t.call = calls + 1 /\ t.reply = "none"
      /\ t.past = s.past \cup {calls + 1} /\ s.phase = "uploading"
  BY <1>1, <1>2 DEF Handle, Placed, Busy, Probing
<1>5. calls + 1 \notin 1..calls /\ 1..calls \subseteq 1..(calls + 1) /\ calls + 1 \in 1..(calls + 1)
  BY <1>2
<1>12. m.call = calls + 1
  OBVIOUS
<1> HIDE DEF t, m
<1>4. AtLarge' = AtLarge \cup {calls + 1} /\ m.call = calls + 1
  <2>1. AtLarge' = applied \cup {q.call : q \in finals \cup {m}}
    BY <1>1 DEF AtLarge
  <2>2. {q.call : q \in finals \cup {m}} = {q.call : q \in finals} \cup {calls + 1}
    BY <1>12
  <2> QED BY <1>12, <2>1, <2>2 DEF AtLarge
<1>6. AtLarge' \subseteq 1..calls'
  BY <1>1, <1>4, <1>5 DEF Once
<1>7. \A q \in finals : q.call \in AtLarge
  BY DEF AtLarge
<1>8. applied \subseteq AtLarge
  BY DEF AtLarge
<1>9. Distinct'
  BY <1>1, <1>4, <1>5, <1>7, <1>8 DEF Once, Distinct
<1>10. handle' = [handle EXCEPT ![h] = t]
  BY <1>1 DEF Become
<1>11. ASSUME NEW g \in Handles PROVE Careful(handle'[g], AtLarge', calls')
  <2>1. CASE g = h
    <3>1. handle'[g] = t /\ s.past \cap AtLarge = {} /\ s.past \subseteq 1..calls
      BY <1>2, <1>3, <1>10, <2>1 DEF Once, Careful
    <3>2. t.past \subseteq 1..calls'
      BY <1>1, <1>3, <1>5, <3>1
    <3>3. t.past \cap AtLarge' \subseteq {t.call}
      BY <1>3, <1>4, <3>1
    <3> QED BY <1>3, <3>1, <3>2, <3>3 DEF Careful
  <2>2. CASE g # h
    <3>1. handle'[g] = handle[g]
      BY <1>2, <1>10, <2>2
    <3>2. Careful(handle[g], AtLarge, calls) /\ handle[g] \in Handle /\ Placed(handle[g])
      BY DEF Once, IInv, Sound
    <3>3. handle[g].past \cap AtLarge' = handle[g].past \cap AtLarge
      BY <1>4, <1>5, <3>2 DEF Careful
    <3>4. handle[g].past \subseteq 1..calls'
      BY <1>1, <1>5, <3>2 DEF Careful
    <3>5. handle[g].pc = "completing" => handle[g].call \in 1..calls
      BY <3>2 DEF Placed, Careful
    <3>6. handle[g].pc = "completing" /\ handle[g].reply = "refused" => handle[g].call \notin AtLarge'
      BY <1>4, <1>5, <3>2, <3>5 DEF Careful
    <3> QED BY <3>1, <3>2, <3>3, <3>4, <3>6 DEF Careful
  <2> QED BY <2>1, <2>2
<1>13. ASSUME NEW c \in saved'
       PROVE  c.past \subseteq 1..calls' /\ (c.phase = "uploading" => c.past \cap AtLarge' = {})
  <2>1. c.past \subseteq 1..calls /\ (c.phase = "uploading" => c.past \cap AtLarge = {})
    BY <1>1 DEF Once
  <2> QED BY <1>1, <1>4, <1>5, <2>1
<1> QED BY <1>6, <1>9, <1>11, <1>13 DEF Once

LEMMA CompletingOnce ==
  ASSUME Retries = 0, IInv, Once, NEW h \in Handles, Completing(h)
  PROVE  Once'
<1> DEFINE s == handle[h]
           Decided(phase) == [Hangup(s, "idle") EXCEPT !.phase = phase]
<1>1. s \in Handle /\ Placed(s) /\ Careful(s, AtLarge, calls)
  BY DEF IInv, Sound, Once
<1>2. ASSUME NEW phase \in Phases
      PROVE  /\ Decided(phase).past = s.past /\ Decided(phase).call = s.call
             /\ Decided(phase).phase = phase /\ Decided(phase).pc = "idle"
  BY <1>1 DEF Hangup, Handle
<1> HIDE DEF Decided
<1>3. CASE Complete(h)
  BY <1>3, CompleteOnce
<1>4. CASE Resend(h)
  BY <1>1, <1>4 DEF Resend, Handle
<1>5. CASE Completed(h)
  <2>1. Become(h, Decided("complete")) /\ UNCHANGED <<finals, applied, calls, saved>>
    BY <1>5 DEF Completed, Decided, net, app
  <2>2. Careful(Decided("complete"), AtLarge, calls)
    BY <1>1, <1>2, CarefulSame DEF Phases
  <2>3. AtLarge' = AtLarge /\ Distinct'
    BY <2>1 DEF Once, AtLarge, Distinct
  <2> QED BY <2>1, <2>2, <2>3, OnceStep
<1>6. CASE CompletionUnknown(h)
  <2> DEFINE t == Hangup(s, "idle")
  <2>1. Become(h, t) /\ UNCHANGED <<applied, calls, saved>>
    BY <1>6 DEF CompletionUnknown, app
  <2>2. t.past = s.past /\ t.call = s.call /\ t.phase = s.phase /\ t.pc = "idle"
    BY <1>1 DEF Hangup, Handle
  <2>3. AtLarge' \subseteq AtLarge /\ Distinct'
    <3>1. CASE UNCHANGED finals
      BY <2>1, <3>1 DEF Once, AtLarge, Distinct
    <3>2. CASE finals' \in Orphans(finals, h)
      BY <2>1, <3>2, OnceOrphaned
    <3> QED BY <1>6, <3>1, <3>2 DEF CompletionUnknown
  <2> HIDE DEF t
  <2>4. Careful(t, AtLarge, calls)
    BY <1>1, <2>2, CarefulSame
  <2> QED BY <2>1, <2>3, <2>4, OnceStep
<1>7. CASE CompletionRefused(h)
  <2>1. /\ s.pc = "completing" /\ Become(h, Decided("uploading"))
        /\ UNCHANGED <<applied, calls, saved>>
        /\ \/ s.reply = "refused" /\ UNCHANGED finals
           \/ Mine(finals, h) # {} /\ finals' = finals \ Mine(finals, h)
    BY <1>7 DEF CompletionRefused, Decided, app
  <2>2. AtLarge' \subseteq AtLarge /\ Distinct'
    BY <2>1 DEF Once, AtLarge, Distinct
  <2>3. s.call \notin AtLarge'
    <3>1. CASE s.reply = "refused" /\ UNCHANGED finals
      BY <1>1, <2>1, <3>1 DEF Careful, AtLarge
    <3>2. CASE Mine(finals, h) # {} /\ finals' = finals \ Mine(finals, h)
      <4>1. PICK m \in finals : m.by = h
        BY <3>2 DEF Mine
      <4>2. m.call = s.call
        BY <4>1, UploadAssumption DEF IInv, Wired, Final
      <4>3. \A q \in finals : q.call = s.call => q = m
        BY <4>2 DEF Once, Distinct
      <4>4. s.call \notin applied
        BY <4>2 DEF Once, Distinct
      <4> QED BY <2>1, <3>2, <4>1, <4>3, <4>4 DEF AtLarge, Mine
    <3> QED BY <2>1, <3>1, <3>2
  <2>4. handle' = [handle EXCEPT ![h] = Decided("uploading")] /\ handle \in [Handles -> Handle]
    BY <2>1 DEF Become, IInv, TypeOK
  <2>5. ASSUME NEW g \in Handles PROVE Careful(handle'[g], AtLarge', calls')
    <3>1. CASE g = h
      <4>1. handle'[g] = Decided("uploading")
        BY <2>4, <3>1
      <4>2. s.past \cap AtLarge' = {}
        BY <1>1, <2>2, <2>3 DEF Careful
      <4> QED BY <1>1, <1>2, <2>1, <4>1, <4>2 DEF Careful, Phases
    <3>2. CASE g # h
      <4>1. handle'[g] = handle[g] /\ Careful(handle[g], AtLarge, calls)
        BY <2>4, <3>2 DEF Once
      <4> QED BY <2>1, <2>2, <4>1 DEF Careful
    <3> QED BY <3>1, <3>2
  <2> QED BY <2>1, <2>2, <2>5 DEF Once
<1> QED BY <1>3, <1>4, <1>5, <1>6, <1>7 DEF Completing

LEMMA OwningOnce == ASSUME IInv, Once, NEW h \in Handles, Owning(h) PROVE Once'
<1> DEFINE s == handle[h]
<1>1. s \in Handle /\ Placed(s) /\ Careful(s, AtLarge, calls)
  BY DEF IInv, Sound, Once
<1>2. CASE Checkpoint(h)
  <2> DEFINE c == [confirmed |-> s.confirmed, phase |-> s.phase, past |-> s.past]
  <2>1. saved' = {c} /\ UNCHANGED <<handle, finals, applied, calls>>
    BY <1>2 DEF Checkpoint, net
  <2>2. c.past \subseteq 1..calls /\ (c.phase = "uploading" => c.past \cap AtLarge = {})
    BY <1>1 DEF Careful
  <2> QED BY <2>1, <2>2 DEF Once, AtLarge, Distinct
<1>3. CASE Close(h)
  <2> DEFINE t == [s EXCEPT !.pc = "closed"]
  <2>1. Become(h, t) /\ UNCHANGED <<finals, applied, calls, saved>>
    BY <1>3 DEF Close, net, app
  <2>2. t.past = s.past /\ t.call = s.call /\ t.phase = s.phase /\ t.pc # "completing"
    BY <1>1 DEF Handle
  <2> HIDE DEF t
  <2>3. Careful(t, AtLarge, calls) /\ AtLarge' = AtLarge /\ Distinct'
    BY <1>1, <2>1, <2>2, CarefulSame DEF Once, AtLarge, Distinct
  <2> QED BY <2>1, <2>3, OnceStep
<1>4. CASE Crash(h)
  <2> DEFINE t == Hangup(s, "none")
  <2>1. /\ Become(h, t) /\ finals' \in Orphans(finals, h)
        /\ UNCHANGED <<applied, calls, saved>>
    BY <1>4 DEF Crash, app
  <2>2. t.past = s.past /\ t.call = s.call /\ t.phase = s.phase /\ t.pc # "completing"
    BY <1>1 DEF Hangup, Handle
  <2> HIDE DEF t
  <2>3. Careful(t, AtLarge, calls) /\ AtLarge' \subseteq AtLarge /\ Distinct'
    BY <1>1, <2>1, <2>2, CarefulSame, OnceOrphaned
  <2> QED BY <2>1, <2>3, OnceStep
<1>5. CASE Resume(h)
  <2> DEFINE Resumed(c) ==
        [s EXCEPT !.pc = "resuming", !.phase = c.phase, !.confirmed = c.confirmed,
                  !.verify = TRUE, !.high = Size, !.goal = 0, !.changed = FALSE,
                  !.call = 0, !.past = c.past, !.tries = 0]
  <2>1. PICK c \in saved : /\ c.phase = "uploading" /\ Become(h, Resumed(c))
                           /\ UNCHANGED <<net, app, faults>>
    BY <1>5 DEF Resume
  <2> DEFINE t == Resumed(c)
  <2>2. t.past = c.past /\ t.pc = "resuming"
    BY <1>1 DEF Handle
  <2>3. c.past \subseteq 1..calls /\ c.past \cap AtLarge = {}
    BY <2>1 DEF Once
  <2>4. AtLarge' = AtLarge /\ Distinct' /\ UNCHANGED <<calls, saved>>
    BY <2>1 DEF Once, AtLarge, Distinct, net, app
  <2>5. Become(h, t)
    BY <2>1
  <2> HIDE DEF t
  <2>6. Careful(t, AtLarge, calls)
    BY <2>2, <2>3 DEF Careful
  <2> QED BY <2>4, <2>5, <2>6, OnceStep
<1> QED BY <1>2, <1>3, <1>4, <1>5 DEF Owning

\* An answer to a caller leaves all careful, if the refused completion is under way no more.
LEMMA AnswerOnce ==
  ASSUME IInv, Once, NEW by \in Callers, NEW kind, Answer(by, kind),
         UNCHANGED <<calls, saved>>, AtLarge' \subseteq AtLarge, Distinct',
         by # Nobody /\ handle[by].pc = "completing" /\ kind = "refused" =>
           handle[by].call \notin AtLarge'
  PROVE  Once'
<1>1. handle \in [Handles -> Handle]
  BY DEF IInv, TypeOK
<1>2. ASSUME NEW g \in Handles PROVE Careful(handle'[g], AtLarge', calls')
  <2>1. Careful(handle[g], AtLarge, calls)
    BY DEF Once
  <2>2. CASE handle'[g] = handle[g]
    BY <2>1, <2>2 DEF Careful
  <2>3. CASE g = by /\ by # Nobody
    <3> DEFINE t == [handle[g] EXCEPT !.reply = kind]
    <3>1. handle'[g] = t
      BY <1>1, <2>3 DEF Answer, Become
    <3>2. /\ t.past = handle[g].past /\ t.call = handle[g].call /\ t.phase = handle[g].phase
          /\ t.pc = handle[g].pc /\ t.reply = kind
      BY <1>1 DEF Handle
    <3> HIDE DEF t
    <3> QED BY <2>1, <2>3, <3>1, <3>2 DEF Careful
  <2> QED BY <1>1, <2>2, <2>3 DEF Answer, Become
<1>3. \A c \in saved' : /\ c.past \subseteq 1..calls'
                        /\ c.phase = "uploading" => c.past \cap AtLarge' = {}
  BY DEF Once
<1> QED BY <1>2, <1>3 DEF Once

LEMMA ServingOnce ==
  ASSUME IInv, Once
  PROVE  /\ \A h \in Handles : ServeProbe(h) => Once'
         /\ \A m \in wire : ServeAppend(m) => Once'
         /\ \A m \in finals : ServeCompletion(m) => Once'
<1>1. ASSUME NEW h \in Handles, ServeProbe(h) PROVE Once'
  <2> DEFINE s == handle[h]
             t == [s EXCEPT !.reply = "ok", !.offer = remote]
  <2>1. Become(h, t) /\ UNCHANGED <<finals, applied, calls, saved>>
    BY <1>1 DEF ServeProbe, net, app
  <2>2. s \in Handle /\ Careful(s, AtLarge, calls)
    BY DEF IInv, Sound, Once
  <2>3. t.past = s.past /\ t.call = s.call /\ t.phase = s.phase /\ t.reply = "ok"
    BY <2>2 DEF Handle
  <2> HIDE DEF t
  <2>4. Careful(t, AtLarge, calls) /\ AtLarge' = AtLarge /\ Distinct'
    BY <2>1, <2>2, <2>3, CarefulSame DEF Once, AtLarge, Distinct
  <2> QED BY <2>1, <2>4, OnceStep
<1>2. ASSUME NEW m \in wire, ServeAppend(m) PROVE Once'
  <2>1. m.by \in Callers /\ (m.by # Nobody => handle[m.by].pc = "appending")
    BY DEF IInv, TypeOK, Wired, Awaited, Appends
  <2>2. UNCHANGED <<finals, applied, calls, saved>> /\ \E kind : Answer(m.by, kind)
    BY <1>2 DEF ServeAppend, KeepAppend, RefuseAppend, GatewayAppend, app
  <2>3. AtLarge' = AtLarge /\ Distinct'
    BY <2>2 DEF Once, AtLarge, Distinct
  <2> QED BY <2>1, <2>2, <2>3, AnswerOnce
<1>3. ASSUME NEW m \in finals, ServeCompletion(m) PROVE Once'
  <2>1. m \in Completions /\ m.by \in Callers /\ (m.by # Nobody => handle[m.by].call = m.call)
    BY DEF IInv, TypeOK, Wired, Final, Completions
  <2>2. UNCHANGED <<calls, saved>>
    BY <1>3 DEF ServeCompletion, ApplyCompletion, RefuseCompletion, GatewayCompletion, app
  <2>3. \A q \in finals : q.call = m.call => q = m
    BY DEF Once, Distinct
  <2>4. CASE ApplyCompletion(m)
    <3>1. /\ finals' = finals \ {m} /\ applied' = applied \cup {m.call}
          /\ \E kind \in {"ok", "none", "gateway"} : Answer(m.by, kind)
      BY <2>4 DEF ApplyCompletion
    <3>2. AtLarge' \subseteq AtLarge
      BY <3>1 DEF AtLarge
    <3>3. Distinct'
      BY <2>3, <3>1 DEF Once, Distinct
    <3> QED BY <2>1, <2>2, <3>1, <3>2, <3>3, AnswerOnce
  <2>5. CASE RefuseCompletion(m)
    <3>1. finals' = finals \ {m} /\ applied' = applied /\ Answer(m.by, "refused")
      BY <2>5 DEF RefuseCompletion
    <3>2. AtLarge' \subseteq AtLarge /\ Distinct'
      BY <3>1 DEF Once, AtLarge, Distinct
    <3>3. m.call \notin AtLarge'
      BY <2>3, <3>1 DEF Once, Distinct, AtLarge
    <3> QED BY <2>1, <2>2, <3>1, <3>2, <3>3, AnswerOnce
  <2>6. CASE GatewayCompletion(m)
    <3> DEFINE o == [m EXCEPT !.by = Nobody]
    <3>1. finals' = (finals \ {m}) \cup {o} /\ applied' = applied /\ Answer(m.by, "gateway")
      BY <2>6 DEF GatewayCompletion
    <3>2. o.call = m.call
      BY <2>1 DEF Completions
    <3> HIDE DEF o
    <3>3. AtLarge' \subseteq AtLarge
      BY <3>1, <3>2 DEF AtLarge
    <3>4. Distinct'
      BY <2>3, <3>1, <3>2 DEF Once, Distinct
    <3> QED BY <2>1, <2>2, <3>1, <3>3, <3>4, AnswerOnce
  <2> QED BY <1>3, <2>4, <2>5, <2>6 DEF ServeCompletion
<1> QED BY <1>1, <1>2, <1>3

\* Where a completion is not retried inside its call, none of unknown outcome is sent again, by its
\* handle or by one resumed from a checkpoint, with any number of handles (_complete,
\* _completion_failed, _resume_start); UploadRetried shows what a shared retry changes.
THEOREM AppliedOnce ==
  ASSUME Retries = 0
  PROVE  Spec => []CompletionAppliedOnce
<1>1. Init => Once
  <2> SUFFICES ASSUME Init PROVE Once
    OBVIOUS
  <2>1. AtLarge = {} /\ Distinct /\ saved = {}
    BY DEF Init, AtLarge, Distinct
  <2>2. \A h \in Handles : handle[h].past = {} /\ handle[h].reply = "none"
    BY DEF Init, Fresh
  <2> QED BY <2>1, <2>2 DEF Once, Careful
<1>2. IInv /\ Once /\ [Next]_vars => Once'
  <2> SUFFICES ASSUME IInv, Once, [Next]_vars PROVE Once'
    OBVIOUS
  <2>1. CASE ChangeSource \/ UNCHANGED vars
    <3>1. UNCHANGED <<handle, finals, applied, calls, saved>>
      BY <2>1 DEF ChangeSource, vars, net
    <3> QED BY <3>1 DEF Once, AtLarge, Distinct
  <2> QED
    BY <2>1, UploadingOnce, CompletingOnce, OwningOnce, ServingOnce DEF Next
<1>3. Once => CompletionAppliedOnce
  <2> SUFFICES ASSUME Once, NEW h \in Handles
               PROVE  Cardinality(handle[h].past \cap AtLarge) <= 1
    BY DEF CompletionAppliedOnce, AtLarge
  <2>1. handle[h].past \cap AtLarge \subseteq {handle[h].call}
    BY DEF Once, Careful
  <2>2. handle[h].past \cap AtLarge \in {{}, {handle[h].call}}
    BY <2>1
  <2> QED BY <2>2, FS_EmptySet, FS_Singleton
<1> QED BY <1>1, <1>2, <1>3, Invariance, PTL DEF Spec
-----------------------------------------------------------------------------
(* An honest server's offset is not refused while one process at a time has the upload. *)

\* An offset the probe's check lets pass, where the server commits whole chunks only
Edge(n) == PartialCommit \/ n % Chunk = 0 \/ n = Size

\* A server that was at an offset is within the chunk from there on.
InChunk(n, from) ==
  from <= n /\ n <= ChunkEnd(from) /\ (PartialCommit \/ n \in {from, ChunkEnd(from)})

\* The server is in the chunk after n, and no append of a later one is on its way.
Ahead(n, r, w) == InChunk(r, n) /\ \A m \in w : m.off <= n

Sane(s, r, w) ==
  /\ ~s.refused
  /\ s.pc \notin {"none", "resuming"} =>
       Ahead(s.confirmed, r, w) /\ r <= s.high /\ \A m \in w : m.end <= s.high
  /\ s.pc \in Probing /\ s.reply = "ok" =>
       Ahead(s.offer, r, w) /\ s.confirmed <= s.offer /\ Edge(s.offer)
  /\ s.pc \in {"verifying", "settling"} /\ s.reply = "ok" =>
       s.offer <= s.high /\ InChunk(s.offer, s.confirmed)
  /\ s.pc = "resuming" => s.high = Size
  /\ s.pc \in {"sending", "appending", "settling"} => s.goal = ChunkEnd(s.confirmed)

Honest ==
  /\ Sane(handle[First], remote, wire) /\ Edge(remote)
  /\ \A m \in wire : m.off <= remote /\ m.end = ChunkEnd(m.off)

LEMMA Product == ASSUME NEW a \in Nat, NEW b \in Nat PROVE a * b \in Nat
OBVIOUS

\* The quotient is the number of whole chunks.
LEMMA Quotient ==
  ASSUME NEW k \in Nat, NEW n \in Nat, k * Chunk <= n, n < (k + 1) * Chunk
  PROVE  n \div Chunk = k /\ n % Chunk = n - k * Chunk
<1> USE UploadAssumption
<1> DEFINE q == n \div Chunk
<1>1. q \in Nat /\ n % Chunk \in 0..(Chunk - 1) /\ n = Chunk * q + (n % Chunk)
  OBVIOUS
<1>2. q * Chunk <= n /\ n < (q + 1) * Chunk
  <2>1. q * Chunk = Chunk * q /\ (q + 1) * Chunk = Chunk * q + Chunk /\ Chunk * q \in Nat
    BY <1>1
  <2> QED BY <1>1, <2>1
<1> HIDE DEF q
<1>3. ~(q < k)
  <2> SUFFICES ASSUME q < k PROVE FALSE
    OBVIOUS
  <2>1. k - (q + 1) \in Nat
    BY <1>1
  <2>2. (k - (q + 1)) * Chunk \in Nat
    BY <2>1, Product
  <2>3. k * Chunk = (q + 1) * Chunk + (k - (q + 1)) * Chunk
    BY <1>1
  <2>4. k * Chunk \in Nat /\ (q + 1) * Chunk \in Nat
    BY <1>1, Product
  <2> QED BY <1>2, <2>2, <2>3, <2>4
<1>4. ~(k < q)
  <2> SUFFICES ASSUME k < q PROVE FALSE
    OBVIOUS
  <2>1. q - (k + 1) \in Nat
    BY <1>1
  <2>2. (q - (k + 1)) * Chunk \in Nat
    BY <2>1, Product
  <2>3. q * Chunk = (k + 1) * Chunk + (q - (k + 1)) * Chunk
    BY <1>1
  <2>4. q * Chunk \in Nat /\ (k + 1) * Chunk \in Nat
    BY <1>1, Product
  <2> QED BY <1>2, <2>2, <2>3, <2>4
<1>5. q = k
  BY <1>1, <1>3, <1>4
<1>6. Chunk * q = k * Chunk /\ k * Chunk \in Nat
  BY <1>5, Product
<1> QED BY <1>1, <1>5, <1>6 DEF q

\* The chunk an offset is in has bounds: whole chunks below and at its end.
LEMMA InsideChunk ==
  ASSUME NEW n \in Nat
  PROVE  /\ n \div Chunk \in Nat
         /\ (n \div Chunk) * Chunk <= n /\ n < (n \div Chunk + 1) * Chunk
<1> USE UploadAssumption
<1>1. n \div Chunk \in Nat /\ n % Chunk \in 0..(Chunk - 1) /\ n = Chunk * (n \div Chunk) + (n % Chunk)
  OBVIOUS
<1>2. /\ (n \div Chunk) * Chunk = Chunk * (n \div Chunk)
      /\ (n \div Chunk + 1) * Chunk = Chunk * (n \div Chunk) + Chunk
      /\ Chunk * (n \div Chunk) \in Nat
  BY <1>1
<1> QED BY <1>1, <1>2

\* A chunk ends at an edge, not before its start.
LEMMA ChunkEnds ==
  ASSUME NEW n \in Offsets
  PROVE  ChunkEnd(n) \in Offsets /\ n <= ChunkEnd(n) /\ Edge(ChunkEnd(n))
<1> USE UploadAssumption
<1> DEFINE k == n \div Chunk
           e == (k + 1) * Chunk
<1>1. n \in Nat /\ n <= Size /\ Size \in Nat
  BY DEF Offsets
<1>2. k \in Nat /\ n < e
  BY <1>1, InsideChunk
<1>3. e \in Nat
  BY <1>2, Product
<1>4. e % Chunk = 0
  <2>1. (k + 1) + 1 \in Nat /\ ((k + 1) + 1) * Chunk = (k + 1) * Chunk + Chunk
    BY <1>2
  <2> QED BY <1>2, <1>3, <2>1, Quotient
<1>5. ChunkEnd(n) = IF e < Size THEN e ELSE Size
  BY DEF ChunkEnd
<1> HIDE DEF e
<1> QED BY <1>1, <1>2, <1>3, <1>4, <1>5 DEF Offsets, Edge

\* An offset inside a chunk is in the same chunk as its start.
LEMMA SameChunk ==
  ASSUME NEW c \in Offsets, NEW n \in Offsets, c <= n, n < ChunkEnd(c)
  PROVE  ChunkEnd(n) = ChunkEnd(c)
<1> USE UploadAssumption
<1> DEFINE k == c \div Chunk
           e == (k + 1) * Chunk
<1>1. c \in Nat /\ n \in Nat /\ Size \in Nat
  BY DEF Offsets
<1>2. k \in Nat /\ k * Chunk <= c /\ k * Chunk \in Nat /\ e \in Nat
  BY <1>1, InsideChunk, Product
<1>3. ChunkEnd(c) = IF e < Size THEN e ELSE Size
  BY DEF ChunkEnd
<1>4. k * Chunk <= n /\ n < e
  BY <1>1, <1>2, <1>3
<1>5. n \div Chunk = k
  BY <1>1, <1>2, <1>4, Quotient
<1> QED BY <1>5 DEF ChunkEnd

\* What stays of sanity while requests are lost or answered.
LEMMA SaneFewer ==
  ASSUME NEW s, NEW r, NEW w, NEW v, Sane(s, r, w),
         \A m \in v : \E q \in w : m.off = q.off /\ m.end = q.end
  PROVE  Sane(s, r, v)
<1>1. ASSUME NEW n, Ahead(n, r, w) PROVE Ahead(n, r, v)
  BY <1>1 DEF Ahead
<1>2. \A n : (\A m \in w : m.end <= n) => \A m \in v : m.end <= n
  OBVIOUS
<1> QED BY <1>1, <1>2 DEF Sane

\* A step of the one handle to a sane state, with no new append under way
LEMMA HonestStep ==
  ASSUME IInv, Honest, NEW s, Become(First, s), remote' = remote,
         \A m \in wire' : \E q \in wire : m.off = q.off /\ m.end = q.end,
         Sane(s, remote, wire)
  PROVE  Honest'
<1>1. handle'[First] = s
  BY UploadAssumption DEF Become, IInv, TypeOK
<1>2. Sane(s, remote, wire')
  BY SaneFewer
<1>3. ASSUME NEW m \in wire' PROVE m.off <= remote' /\ m.end = ChunkEnd(m.off)
  <2>1. PICK q \in wire : m.off = q.off /\ m.end = q.end
    OBVIOUS
  <2> QED BY <2>1 DEF Honest
<1>4. Edge(remote')
  BY DEF Honest
<1>5. \A m \in wire' : ChunkEnd(m.off)' = ChunkEnd(m.off)
  BY DEF ChunkEnd
<1>6. Sane(handle[First], remote, wire)'
  BY <1>1, <1>2 DEF Sane, Ahead, InChunk, Edge, ChunkEnd
<1> QED BY <1>3, <1>4, <1>5, <1>6 DEF Honest, Edge

\* A caller that gives up leaves appends of no other bytes.
LEMMA SameAppends ==
  ASSUME IInv, NEW h \in Handles, wire' \in Orphans(wire, h)
  PROVE  \A m \in wire' : \E q \in wire : m.off = q.off /\ m.end = q.end
<1> SUFFICES ASSUME NEW m \in wire' PROVE \E q \in wire : m.off = q.off /\ m.end = q.end
  OBVIOUS
<1>1. CASE m \in wire
  BY <1>1
<1>2. CASE \E q \in wire : q.by = h /\ m = [q EXCEPT !.by = Nobody]
  <2>1. PICK q \in wire : m = [q EXCEPT !.by = Nobody]
    BY <1>2
  <2>2. q \in Appends
    BY DEF IInv, TypeOK
  <2>3. m.off = q.off /\ m.end = q.end
    BY <2>1, <2>2 DEF Appends
  <2> QED BY <2>3
<1> QED BY <1>1, <1>2, OrphansBelong
\* A handle that ends a call, knowing what it knew
LEMMA SaneHangup ==
  ASSUME NEW s \in Handle, NEW r, NEW w, Sane(s, r, w), s.pc \notin {"none", "resuming"},
         NEW pc, pc \notin {"resuming"},
         pc \in {"sending", "appending", "settling"} => s.goal = ChunkEnd(s.confirmed)
  PROVE  Sane(Hangup(s, pc), r, w)
<1> DEFINE t == Hangup(s, pc)
<1>1. /\ t.pc = pc /\ t.reply = "none" /\ t.confirmed = s.confirmed /\ t.high = s.high
      /\ t.goal = s.goal /\ t.refused = s.refused
  BY DEF Hangup, Handle
<1> HIDE DEF t
<1> QED BY <1>1 DEF Sane, t

\* A handle told of an offset the server is in the chunk after
LEMMA SaneSettled ==
  ASSUME NEW s \in Handle, NEW r, NEW w, Sane(s, r, w), NEW n, Ahead(n, r, w),
         r <= s.high /\ \A m \in w : m.end <= s.high,
         NEW pc \in {"idle", "due", "sending"}, pc = "sending" => s.goal = ChunkEnd(n)
  PROVE  Sane(Hangup(Settled(s, n), pc), r, w)
<1> DEFINE t == Hangup(Settled(s, n), pc)
<1>1. /\ t.pc = pc /\ t.reply = "none" /\ t.confirmed = n /\ t.high = s.high
      /\ t.goal = s.goal /\ t.refused = s.refused
  BY DEF Hangup, Settled, Handle
<1> HIDE DEF t
<1> QED BY <1>1 DEF Sane, Probing, t

\* The offset of a probe is one the handle accepts.
LEMMA OffersAccepted ==
  ASSUME IInv, Honest, handle[First].pc \in {"verifying", "resuming"},
         handle[First].reply = "ok"
  PROVE  Acceptable(handle[First], handle[First].offer)
<1> DEFINE s == handle[First]
<1>1. s \in Handle /\ Sane(s, remote, wire)
  BY UploadAssumption DEF IInv, Sound, Honest
<1>2. s.offer \in Offsets /\ s.confirmed <= s.offer /\ Edge(s.offer)
  BY <1>1 DEF Sane, Handle, Probing
<1>3. s.offer <= s.high
  BY <1>1, <1>2, UploadAssumption DEF Sane, Offsets
<1> QED BY <1>2, <1>3 DEF Acceptable, Edge

LEMMA ProbedHonest ==
  ASSUME Handles = {First}, IInv, Honest, Verified(First) \/ ProbeFails(First)
  PROVE  Honest'
<1> DEFINE s == handle[First]
<1>1. s \in Handle /\ Sane(s, remote, wire) /\ remote \in Offsets /\ wire \subseteq Appends
  BY DEF IInv, Sound, Honest, TypeOK
<1>2. remote' = remote /\ \A m \in wire' : \E q \in wire : m.off = q.off /\ m.end = q.end
  BY DEF Verified, ProbeFails, net
<1>3. CASE Verified(First)
  <2> DEFINE n == s.offer
             pc == IF s.pc = "resuming" \/ Whole(n) THEN "idle" ELSE "due"
             t == Hangup(Settled(s, n), pc)
  <2>1. s.pc \in {"verifying", "resuming"} /\ s.reply = "ok"
    BY <1>3 DEF Verified
  <2>2. Become(First, t)
    BY <1>3, <2>1, OffersAccepted DEF Verified
  <2>3. Ahead(n, remote, wire)
    BY <1>1, <2>1 DEF Sane, Probing
  <2>4. remote <= s.high /\ \A m \in wire : m.end <= s.high
    BY <1>1, <2>1, UploadAssumption DEF Sane, Appends, Offsets
  <2>5. pc \in {"idle", "due", "sending"} /\ pc # "sending"
    OBVIOUS
  <2> HIDE DEF n, pc
  <2>6. Sane(t, remote, wire)
    BY <1>1, <2>3, <2>4, <2>5, SaneSettled
  <2> HIDE DEF t
  <2> QED BY <1>2, <2>2, <2>6, HonestStep
<1>4. CASE ProbeFails(First)
  <2> DEFINE pc == IF s.pc = "resuming" THEN "none" ELSE "idle"
             t == Hangup(s, pc)
  <2>1. Become(First, t)
    BY <1>4 DEF ProbeFails
  <2>2. /\ t.pc = pc /\ t.reply = "none" /\ t.confirmed = s.confirmed /\ t.high = s.high
        /\ t.refused = s.refused /\ pc \in {"none", "idle"}
        /\ (pc # "none" => s.pc \in {"verifying", "settling"})
    BY <1>1, <1>4 DEF ProbeFails, Probing, Hangup, Handle
  <2> HIDE DEF t, pc
  <2>3. Sane(t, remote, wire)
    BY <1>1, <2>2 DEF Sane, Probing
  <2> QED BY <1>2, <2>1, <2>3, HonestStep
<1> QED BY <1>3, <1>4

LEMMA BufferedHonest ==
  ASSUME Handles = {First}, IInv, Honest, Step(First) \/ Buffer(First)
  PROVE  Honest'
<1> DEFINE s == handle[First]
<1>1. s \in Handle /\ Placed(s) /\ Sane(s, remote, wire)
  BY DEF IInv, Sound, Honest
<1>2. remote' = remote /\ \A m \in wire' : \E q \in wire : m.off = q.off /\ m.end = q.end
  BY DEF Step, Buffer, net
<1>3. CASE Step(First)
  <2> DEFINE t == [s EXCEPT !.pc = IF s.verify THEN "verifying" ELSE "due"]
  <2>1. Become(First, t)
    BY <1>3 DEF Step
  <2>2. /\ t.pc \in {"verifying", "due"} /\ t.reply = "none" /\ t.confirmed = s.confirmed
        /\ t.high = s.high /\ t.refused = s.refused /\ s.pc = "idle"
    BY <1>1, <1>3 DEF Step, Handle, Placed, Probing
  <2> HIDE DEF t
  <2>3. Sane(t, remote, wire)
    BY <1>1, <2>2 DEF Sane, Probing
  <2> QED BY <1>2, <2>1, <2>3, HonestStep
<1>4. CASE Buffer(First)
  <2> DEFINE t == [s EXCEPT !.pc = "sending", !.goal = ChunkEnd(s.confirmed)]
             u == [s EXCEPT !.pc = "idle", !.changed = TRUE]
  <2>1. Become(First, t) \/ Become(First, u)
    BY <1>4 DEF Buffer
  <2>2. /\ t.pc = "sending" /\ t.confirmed = s.confirmed /\ t.goal = ChunkEnd(s.confirmed)
        /\ t.high = s.high /\ t.refused = s.refused
        /\ u.pc = "idle" /\ u.confirmed = s.confirmed /\ u.high = s.high
        /\ u.refused = s.refused /\ s.pc = "due"
    BY <1>1, <1>4 DEF Buffer, Handle
  <2> HIDE DEF t, u
  <2>3. Sane(t, remote, wire) /\ Sane(u, remote, wire)
    BY <1>1, <2>2 DEF Sane, Probing
  <2> QED BY <1>2, <2>1, <2>3, HonestStep
<1> QED BY <1>3, <1>4

LEMMA SentHonest ==
  ASSUME Handles = {First}, IInv, Honest, Send(First)
  PROVE  Honest'
<1> DEFINE s == handle[First]
           t == [Sending(s) EXCEPT !.pc = "appending"]
           m == [off |-> s.confirmed, end |-> s.goal, by |-> First]
<1>1. /\ s.pc = "sending" /\ Become(First, t) /\ wire' = wire \cup {m} /\ remote' = remote
  BY DEF Send
<1>2. s \in Handle /\ Placed(s) /\ Known(s, remote, applied) /\ Sane(s, remote, wire)
  BY DEF IInv, Sound, Honest
<1>3. remote \in Offsets /\ wire \subseteq Appends /\ handle \in [Handles -> Handle]
  BY DEF IInv, TypeOK
<1>4. /\ t.pc = "appending" /\ t.confirmed = s.confirmed /\ t.goal = s.goal
      /\ t.refused = s.refused /\ t.high = IF s.high < s.goal THEN s.goal ELSE s.high
  BY <1>2 DEF Sending, Handle
<1>5. m.off = s.confirmed /\ m.end = s.goal /\ s.goal = ChunkEnd(s.confirmed)
  BY <1>1, <1>2 DEF Sane
<1> HIDE DEF t, m
<1>6. s.goal \in Offsets /\ s.high \in Offsets /\ s.confirmed \in Offsets
  BY <1>2 DEF Handle
<1>7. s.high <= t.high /\ s.goal <= t.high /\ t.high \in Offsets
  BY <1>4, <1>6, UploadAssumption DEF Offsets
<1>8. Ahead(s.confirmed, remote, wire) /\ remote <= s.high /\ \A q \in wire : q.end <= s.high
  BY <1>1, <1>2 DEF Sane
<1>9. Ahead(s.confirmed, remote, wire')
  BY <1>1, <1>5, <1>6, <1>8, UploadAssumption DEF Ahead, Offsets
<1>10. remote <= t.high
  BY <1>3, <1>6, <1>7, <1>8, UploadAssumption DEF Offsets
<1>11. \A q \in wire' : q.end <= t.high
  BY <1>1, <1>3, <1>5, <1>6, <1>7, <1>8, UploadAssumption DEF Appends, Offsets
<1>12. Sane(t, remote, wire')
  BY <1>1, <1>2, <1>4, <1>5, <1>9, <1>10, <1>11 DEF Sane, Probing
<1>13. \A q \in wire' : q.off <= remote /\ q.end = ChunkEnd(q.off)
  BY <1>1, <1>2, <1>5 DEF Honest, Known
<1>14. handle'[First] = t
  BY <1>1, <1>3, UploadAssumption DEF Become
<1>15. Sane(handle[First], remote, wire)'
  BY <1>1, <1>12, <1>14 DEF Sane, Ahead, InChunk, Edge, ChunkEnd
<1>16. \A q \in wire' : ChunkEnd(q.off)' = ChunkEnd(q.off)
  BY DEF ChunkEnd
<1> QED BY <1>1, <1>13, <1>15, <1>16 DEF Honest, Edge

LEMMA AppendedHonest ==
  ASSUME Handles = {First}, IInv, Honest,
         Appended(First) \/ AppendRaises(First) \/ AppendUncertain(First)
  PROVE  Honest'
<1> DEFINE s == handle[First]
<1>1. s \in Handle /\ Placed(s) /\ Known(s, remote, applied) /\ Sane(s, remote, wire)
  BY DEF IInv, Sound, Honest
<1>2. s.pc = "appending" /\ s.goal = ChunkEnd(s.confirmed) /\ s.confirmed < s.goal
  BY <1>1 DEF Appended, AppendRaises, AppendUncertain, Sane, Placed
<1>3. CASE Appended(First)
  <2> DEFINE t == Hangup(Settled(s, s.goal), "idle")
  <2>1. s.reply = "ok" /\ Become(First, t) /\ remote' = remote /\ wire' = wire
    BY <1>3 DEF Appended, net
  <2>2. /\ InChunk(remote, s.confirmed) /\ (\A m \in wire : m.off <= s.confirmed)
        /\ remote <= s.high /\ \A m \in wire : m.end <= s.high
    BY <1>1, <1>2 DEF Sane, Ahead
  <2>3. /\ remote \in Offsets /\ s.goal \in Offsets /\ s.confirmed \in Offsets
        /\ wire \subseteq Appends
    BY <1>1 DEF IInv, TypeOK, Handle
  <2>4. remote = s.goal
    BY <1>1, <1>2, <2>1, <2>2, <2>3, UploadAssumption DEF Known, InChunk, Offsets
  <2>5. Ahead(s.goal, remote, wire)
    <3>1. s.goal <= ChunkEnd(s.goal) /\ s.goal <= s.goal
      BY <2>3, ChunkEnds, UploadAssumption DEF Offsets
    <3>2. \A m \in wire : m.off <= s.goal
      BY <1>2, <2>2, <2>3, UploadAssumption DEF Appends, Offsets
    <3> QED BY <2>4, <3>1, <3>2 DEF Ahead, InChunk
  <2>6. Sane(t, remote, wire)
    BY <1>1, <2>2, <2>5, SaneSettled
  <2> HIDE DEF t
  <2> QED BY <2>1, <2>6, HonestStep
<1>4. ASSUME NEW pc \in {"idle", "settling"}, Become(First, Hangup(s, pc)),
             wire' \in Orphans(wire, First), remote' = remote
      PROVE  Honest'
  <2>1. Sane(Hangup(s, pc), remote, wire)
    BY <1>1, <1>2, SaneHangup
  <2>2. \A m \in wire' : \E q \in wire : m.off = q.off /\ m.end = q.end
    BY <1>4, SameAppends
  <2> QED BY <1>4, <2>1, <2>2, HonestStep
<1> QED BY <1>3, <1>4 DEF AppendRaises, AppendUncertain

LEMMA ReconciledHonest ==
  ASSUME Handles = {First}, IInv, Honest, Reconciled(First)
  PROVE  Honest'
<1> DEFINE s == handle[First]
           n == s.offer
<1>1. s \in Handle /\ Placed(s) /\ Sane(s, remote, wire)
  BY DEF IInv, Sound, Honest
<1>2. /\ s.pc = "settling" /\ s.reply = "ok" /\ remote' = remote
      /\ \A m \in wire' : \E q \in wire : m.off = q.off /\ m.end = q.end
  BY DEF Reconciled, net
<1>3. /\ s.goal = ChunkEnd(s.confirmed) /\ InChunk(n, s.confirmed) /\ Ahead(n, remote, wire)
      /\ remote <= s.high /\ \A m \in wire : m.end <= s.high
  BY <1>1, <1>2 DEF Sane, Probing
<1>4. n \in Offsets /\ s.confirmed \in Offsets /\ s.goal \in Offsets
  BY <1>1 DEF Handle
<1>5. \/ n = s.confirmed /\ Become(First, Hangup(s, "sending"))
      \/ n = s.goal /\ Become(First, Hangup(Settled(s, n), "idle"))
      \/ s.confirmed < n /\ n < s.goal /\ Become(First, Hangup(Settled(s, n), "sending"))
  <2>1. n \notin {s.confirmed, s.goal} => PartialCommit /\ s.confirmed < n /\ n < s.goal
    BY <1>3, <1>4, UploadAssumption DEF InChunk, Offsets
  <2> QED BY <2>1 DEF Reconciled
<1>6. CASE Become(First, Hangup(s, "sending"))
  <2>1. Sane(Hangup(s, "sending"), remote, wire)
    BY <1>1, <1>2, <1>3, SaneHangup
  <2> QED BY <1>2, <1>6, <2>1, HonestStep
<1>7. CASE n = s.goal /\ Become(First, Hangup(Settled(s, n), "idle"))
  <2>1. Sane(Hangup(Settled(s, n), "idle"), remote, wire)
    BY <1>1, <1>3, SaneSettled
  <2> QED BY <1>2, <1>7, <2>1, HonestStep
<1>8. CASE /\ s.confirmed < n /\ n < s.goal
           /\ Become(First, Hangup(Settled(s, n), "sending"))
  <2>1. s.confirmed <= n
    BY <1>4, <1>8, UploadAssumption DEF Offsets
  <2>2. s.goal = ChunkEnd(n)
    BY <1>3, <1>4, <1>8, <2>1, SameChunk
  <2>3. Sane(Hangup(Settled(s, n), "sending"), remote, wire)
    BY <1>1, <1>3, <2>2, SaneSettled
  <2> QED BY <1>2, <1>8, <2>3, HonestStep
<1> QED BY <1>5, <1>6, <1>7, <1>8

LEMMA CompletingHonest ==
  ASSUME Handles = {First}, IInv, Honest, Completing(First)
  PROVE  Honest'
<1> DEFINE s == handle[First]
<1>1. s \in Handle /\ Sane(s, remote, wire)
  BY DEF IInv, Sound, Honest
<1>2. s.pc \in {"due", "completing"} /\ remote' = remote /\ wire' = wire
  BY DEF Completing, Complete, Resend, Completed, CompletionRefused, CompletionUnknown, net
<1>3. ASSUME NEW t, Become(First, t), t.pc \in {"completing", "idle"}, t.refused = s.refused,
             t.confirmed = s.confirmed, t.high = s.high
      PROVE  Honest'
  <2>1. Sane(t, remote, wire)
    BY <1>1, <1>2, <1>3 DEF Sane, Probing
  <2> QED BY <1>2, <1>3, <2>1, HonestStep
<1>4. CASE Complete(First)
  <2> DEFINE t == [s EXCEPT !.pc = "completing", !.phase = "unknown", !.call = calls + 1,
                            !.past = @ \cup {calls + 1}, !.tries = 0]
  <2>1. /\ t.pc = "completing" /\ t.refused = s.refused /\ t.confirmed = s.confirmed
        /\ t.high = s.high
    BY <1>1 DEF Handle
  <2>2. Become(First, t)
    BY <1>4 DEF Complete
  <2> HIDE DEF t
  <2> QED BY <1>3, <2>1, <2>2
<1>5. CASE Resend(First)
  <2> DEFINE t == [Hangup(s, "completing") EXCEPT !.tries = @ + 1]
  <2>1. /\ t.pc = "completing" /\ t.refused = s.refused /\ t.confirmed = s.confirmed
        /\ t.high = s.high
    BY <1>1 DEF Hangup, Handle
  <2>2. Become(First, t)
    BY <1>5 DEF Resend
  <2> HIDE DEF t
  <2> QED BY <1>3, <2>1, <2>2
<1>6. ASSUME NEW phase, Become(First, [Hangup(s, "idle") EXCEPT !.phase = phase]) PROVE Honest'
  <2> DEFINE t == [Hangup(s, "idle") EXCEPT !.phase = phase]
  <2>1. t.pc = "idle" /\ t.refused = s.refused /\ t.confirmed = s.confirmed /\ t.high = s.high
    BY <1>1 DEF Hangup, Handle
  <2> HIDE DEF t
  <2> QED BY <1>3, <1>6, <2>1 DEF t
<1>7. CASE CompletionUnknown(First)
  <2> DEFINE t == Hangup(s, "idle")
  <2>1. t.pc = "idle" /\ t.refused = s.refused /\ t.confirmed = s.confirmed /\ t.high = s.high
    BY <1>1 DEF Hangup, Handle
  <2>2. Become(First, t)
    BY <1>7 DEF CompletionUnknown
  <2> HIDE DEF t
  <2> QED BY <1>3, <2>1, <2>2
<1> QED BY <1>4, <1>5, <1>6, <1>7 DEF Completing, Completed, CompletionRefused

LEMMA OwningHonest ==
  ASSUME Handles = {First}, IInv, Honest, Owning(First)
  PROVE  Honest'
<1> DEFINE s == handle[First]
<1>1. s \in Handle /\ Placed(s) /\ Sane(s, remote, wire)
  BY DEF IInv, Sound, Honest
<1>2. CASE Checkpoint(First)
  BY <1>2 DEF Checkpoint, net, Honest, Sane, Ahead, InChunk, Edge, ChunkEnd
<1>3. CASE Close(First)
  <2> DEFINE t == [s EXCEPT !.pc = "closed"]
  <2>1. Become(First, t) /\ remote' = remote /\ wire' = wire /\ s.pc = "idle"
    BY <1>3 DEF Close, net
  <2>2. t.pc = "closed" /\ t.refused = s.refused /\ t.confirmed = s.confirmed /\ t.high = s.high
    BY <1>1 DEF Handle
  <2> HIDE DEF t
  <2>3. Sane(t, remote, wire)
    BY <1>1, <2>1, <2>2 DEF Sane, Probing
  <2> QED BY <2>1, <2>3, HonestStep
<1>4. CASE Crash(First)
  <2> DEFINE t == Hangup(s, "none")
  <2>1. Become(First, t) /\ remote' = remote /\ wire' \in Orphans(wire, First)
    BY <1>4 DEF Crash
  <2>2. t.pc = "none" /\ t.refused = s.refused
    BY <1>1 DEF Hangup, Handle
  <2> HIDE DEF t
  <2>3. Sane(t, remote, wire)
    BY <1>1, <2>2 DEF Sane, Probing
  <2> QED BY <2>1, <2>3, SameAppends, HonestStep
<1>5. CASE Resume(First)
  <2> DEFINE Resumed(c) ==
        [s EXCEPT !.pc = "resuming", !.phase = c.phase, !.confirmed = c.confirmed,
                  !.verify = TRUE, !.high = Size, !.goal = 0, !.changed = FALSE,
                  !.call = 0, !.past = c.past, !.tries = 0]
  <2>1. PICK c \in saved : s.pc = "none" /\ Become(First, Resumed(c)) /\ UNCHANGED net
    BY <1>5 DEF Resume
  <2> DEFINE t == Resumed(c)
  <2>2. /\ t.pc = "resuming" /\ t.reply = "none" /\ t.high = Size /\ t.refused = s.refused
    BY <1>1, <2>1 DEF Handle, Placed, Probing
  <2>3. Become(First, t) /\ remote' = remote /\ wire' = wire
    BY <2>1 DEF net
  <2> HIDE DEF t
  <2>4. Sane(t, remote, wire)
    BY <1>1, <2>2 DEF Sane
  <2> QED BY <2>3, <2>4, HonestStep
<1> QED BY <1>2, <1>3, <1>4, <1>5 DEF Owning

LEMMA ProbeServedHonest ==
  ASSUME Handles = {First}, IInv, Honest, ServeProbe(First)
  PROVE  Honest'
<1> DEFINE s == handle[First]
           t == [s EXCEPT !.reply = "ok", !.offer = remote]
<1>1. s \in Handle /\ Known(s, remote, applied) /\ Sane(s, remote, wire) /\ remote \in Offsets
  BY DEF IInv, Sound, Honest, TypeOK
<1>2. s.pc \in Probing /\ Become(First, t) /\ remote' = remote /\ wire' = wire
  BY DEF ServeProbe, net
<1>3. /\ t.pc = s.pc /\ t.reply = "ok" /\ t.offer = remote /\ t.confirmed = s.confirmed
      /\ t.high = s.high /\ t.goal = s.goal /\ t.refused = s.refused
  BY <1>1 DEF Handle
<1> HIDE DEF t
<1>4. remote <= remote /\ remote <= ChunkEnd(remote)
  BY <1>1, ChunkEnds, UploadAssumption DEF Offsets
<1>5. Ahead(remote, remote, wire)
  BY <1>4 DEF Ahead, InChunk, Honest
<1>6. s.confirmed <= remote /\ Edge(remote)
  BY <1>1 DEF Known, Honest
<1>7. Sane(t, remote, wire)
  BY <1>1, <1>3, <1>5, <1>6 DEF Sane, Ahead
<1> QED BY <1>2, <1>7, HonestStep

\* An append that is kept takes the server no further than the chunk a handle is in.
LEMMA KeptAhead ==
  ASSUME IInv, Honest, NEW m \in wire, KeepAppend(m), NEW n \in Offsets,
         Ahead(n, remote, wire)
  PROVE  Ahead(n, remote', wire') /\ remote' <= m.end
<1>1. /\ m \in Appends /\ remote \in Offsets /\ m.off = remote /\ m.end = ChunkEnd(m.off)
      /\ m.off < m.end
  BY DEF IInv, TypeOK, Wired, Honest, KeepAppend
<1>2. /\ wire' \subseteq wire
      /\ remote' = m.end \/ (PartialCommit /\ remote' \in (m.off + 1)..(m.end - 1))
  BY DEF KeepAppend
<1>3. n = remote
  BY <1>1, UploadAssumption DEF Ahead, InChunk, Offsets
<1>4. InChunk(remote', n) /\ remote' <= m.end
  BY <1>1, <1>2, <1>3, UploadAssumption DEF InChunk, Appends, Offsets
<1> QED BY <1>2, <1>4 DEF Ahead

\* An answered caller keeps what it knew, in its place.
LEMMA AnsweredSane ==
  ASSUME Handles = {First}, IInv, NEW by \in Callers, NEW kind, Answer(by, kind),
         by = First => handle[First].pc \in {"appending", "completing"},
         NEW r, NEW w, Sane(handle[First], r, w)
  PROVE  Sane(handle'[First], r, w)
<1> DEFINE s == handle[First]
           t == [s EXCEPT !.reply = kind]
<1>1. s \in Handle /\ handle \in [Handles -> Handle]
  BY DEF IInv, Sound, TypeOK
<1>2. CASE handle' = handle
  BY <1>2
<1>3. CASE by = First /\ handle'[First] = t
  <2>1. /\ t.pc = s.pc /\ t.confirmed = s.confirmed /\ t.high = s.high /\ t.goal = s.goal
        /\ t.refused = s.refused
    BY <1>1 DEF Handle
  <2> HIDE DEF t
  <2> QED BY <1>3, <2>1 DEF Sane, Probing
<1> QED BY <1>1, <1>2, <1>3 DEF Answer, Become, Callers

LEMMA ServedHonest ==
  ASSUME Handles = {First}, IInv, Honest, NEW m \in wire, ServeAppend(m)
  PROVE  Honest'
<1> DEFINE s == handle[First]
<1>1. s \in Handle /\ Placed(s) /\ Known(s, remote, applied) /\ Sane(s, remote, wire)
  BY DEF IInv, Sound, Honest
<1>2. /\ remote \in Offsets /\ wire \subseteq Appends /\ m.by \in Callers
      /\ m.by = First => s.pc = "appending"
  BY UploadAssumption DEF IInv, TypeOK, Wired, Awaited, Appends
<1>3. PICK kind : Answer(m.by, kind)
  BY DEF ServeAppend, KeepAppend, RefuseAppend, GatewayAppend
<1>4. ASSUME Sane(s, remote', wire'), Edge(remote'),
             \A q \in wire' : q.off <= remote' /\ q.end = ChunkEnd(q.off)
      PROVE  Honest'
  <2>1. Sane(handle'[First], remote', wire')
    BY <1>2, <1>3, <1>4, AnsweredSane
  <2>2. \A q \in wire' : ChunkEnd(q.off)' = ChunkEnd(q.off)
    BY DEF ChunkEnd
  <2>3. Sane(handle[First], remote, wire)'
    BY <2>1 DEF Sane, Ahead, InChunk, Edge, ChunkEnd
  <2> QED BY <1>4, <2>2, <2>3 DEF Honest, Edge
<1>5. CASE RefuseAppend(m) \/ GatewayAppend(m)
  <2>1. remote' = remote
    BY <1>5 DEF RefuseAppend, GatewayAppend
  <2>2. \A q \in wire' : \E p \in wire : q.off = p.off /\ q.end = p.end
    <3> DEFINE o == [m EXCEPT !.by = Nobody]
    <3>1. o.off = m.off /\ o.end = m.end
      BY <1>2 DEF Appends
    <3>2. wire' \subseteq wire \cup {o}
      BY <1>5 DEF RefuseAppend, GatewayAppend
    <3> HIDE DEF o
    <3> QED BY <3>1, <3>2
  <2>3. Sane(s, remote', wire')
    BY <1>1, <2>1, <2>2, SaneFewer
  <2>4. ASSUME NEW q \in wire' PROVE q.off <= remote' /\ q.end = ChunkEnd(q.off)
    <3>1. PICK p \in wire : q.off = p.off /\ q.end = p.end
      BY <2>2
    <3> QED BY <2>1, <3>1 DEF Honest
  <2> QED BY <1>4, <2>1, <2>3, <2>4 DEF Honest
<1>6. CASE KeepAppend(m)
  <2>1. wire' \subseteq wire /\ m.off = remote /\ m.end = ChunkEnd(m.off) /\ m.off < m.end
    BY <1>6 DEF KeepAppend, Honest, IInv, Wired
  <2>2. m \in Appends
    BY <1>2
  <2>3. remote' = m.end \/ (PartialCommit /\ remote' \in (m.off + 1)..(m.end - 1))
    BY <1>6 DEF KeepAppend
  <2>4. remote' \in Offsets /\ remote <= remote' /\ remote' <= m.end
    BY <1>2, <2>1, <2>2, <2>3, UploadAssumption DEF Appends, Offsets
  <2>5. Edge(remote')
    <3>1. Edge(m.end)
      BY <2>1, <2>2, ChunkEnds DEF Appends
    <3> QED BY <2>3, <3>1 DEF Edge
  <2>6. \A q \in wire' : q.off <= remote' /\ q.end = ChunkEnd(q.off)
    BY <1>2, <2>1, <2>4, UploadAssumption DEF Honest, Appends, Offsets
  <2>7. \A n \in Offsets : Ahead(n, remote, wire) => Ahead(n, remote', wire')
    BY <1>6, KeptAhead
  <2>8. s.confirmed \in Offsets /\ s.offer \in Offsets /\ s.high \in Offsets
    BY <1>1 DEF Handle
  <2>9. s.pc \notin {"none", "resuming"} => remote' <= s.high /\ \A q \in wire' : q.end <= s.high
    BY <1>1, <2>1, <2>2, <2>4, <2>8, UploadAssumption DEF Sane, Appends, Offsets
  <2>10. Sane(s, remote', wire')
    BY <1>1, <2>7, <2>8, <2>9 DEF Sane
  <2> QED BY <1>4, <2>5, <2>6, <2>10
<1> QED BY <1>5, <1>6 DEF ServeAppend

\* While one process at a time has the upload, no probe's offset is refused, for any size, chunk
\* and schedule of faults, with partial commits and without (_verified, _reconciled, _sending).
THEOREM OffsetsAccepted ==
  ASSUME Handles = {First}
  PROVE  Spec => []NoOffsetRefused
<1>1. Init => Honest
  <2> SUFFICES ASSUME Init PROVE Honest
    OBVIOUS
  <2> DEFINE s == handle[First]
  <2>1. /\ s.pc = "idle" /\ ~s.refused /\ s.confirmed = 0 /\ s.high = 0 /\ remote = 0 /\ wire = {}
    BY UploadAssumption DEF Init, Fresh
  <2>2. 0 \in Offsets /\ 0 <= ChunkEnd(0) /\ 0 % Chunk = 0
    <3>1. 0 \in Offsets
      BY UploadAssumption DEF Offsets
    <3>2. 0 % Chunk = 0
      BY UploadAssumption
    <3> QED BY <3>1, <3>2, ChunkEnds
  <2> QED BY <2>1, <2>2 DEF Honest, Sane, Ahead, InChunk, Edge, Probing
<1>2. IInv /\ Honest /\ [Next]_vars => Honest'
  <2> SUFFICES ASSUME IInv, Honest, [Next]_vars PROVE Honest'
    OBVIOUS
  <2>1. ASSUME UNCHANGED <<handle, remote, wire>> PROVE Honest'
    BY <2>1 DEF Honest, Sane, Ahead, InChunk, Edge, ChunkEnd
  <2>2. CASE Uploading(First)
    BY <2>2, ProbedHonest, BufferedHonest, SentHonest, AppendedHonest, ReconciledHonest
    DEF Uploading
  <2>3. ASSUME NEW m \in finals, ServeCompletion(m) PROVE Honest'
    <3>1. /\ m.by \in Callers /\ (m.by = First => handle[First].pc = "completing")
          /\ remote' = remote /\ wire' = wire /\ \E kind : Answer(m.by, kind)
      BY <2>3, UploadAssumption
      DEF IInv, TypeOK, Wired, Final, Completions, ServeCompletion, ApplyCompletion,
          RefuseCompletion, GatewayCompletion
    <3>2. Sane(handle'[First], remote, wire)
      BY <3>1, AnsweredSane DEF Honest
    <3> QED BY <3>1, <3>2 DEF Honest, Sane, Ahead, InChunk, Edge, ChunkEnd
  <2>4. CASE ChangeSource \/ UNCHANGED vars
    BY <2>1, <2>4 DEF ChangeSource, vars, net
  <2> QED
    BY <2>2, <2>3, <2>4, CompletingHonest, OwningHonest, ProbeServedHonest, ServedHonest DEF Next
<1>3. Honest => NoOffsetRefused
  BY DEF Honest, Sane, NoOffsetRefused
<1> QED BY <1>1, <1>2, <1>3, Invariance, PTL DEF Spec
-----------------------------------------------------------------------------
(* Upload implements UploadService: every step of the handles, the network and the server *)
(* is a step of the service its callers see, or none.                                     *)

Told == [h \in Handles |-> handle[h].confirmed]
Done == {h \in Handles : handle[h].phase = "complete"}

\* A handle that goes on to another place, no wiser, shows its callers nothing.
LEMMA SameToCallers ==
  ASSUME NEW h \in Handles, NEW s, IInv, Become(h, s), remote' = remote,
         s.confirmed = handle[h].confirmed,
         (s.phase = "complete") = (handle[h].phase = "complete")
  PROVE  UNCHANGED Service!vars
<1>1. handle' = [handle EXCEPT ![h] = s] /\ DOMAIN handle = Handles
  BY DEF Become, IInv, TypeOK
<1>2. \A g \in Handles : /\ handle'[g].confirmed = handle[g].confirmed
                         /\ (handle'[g].phase = "complete") = (handle[g].phase = "complete")
  BY <1>1
<1>3. Told' = Told
  BY <1>2 DEF Told
<1>4. Done' = Done
  BY <1>2 DEF Done
<1> QED BY <1>3, <1>4 DEF Service!vars, Told, Done

\* A handle told of more bytes learns what the server keeps, and reports the last.
LEMMA LearnsMore ==
  ASSUME NEW h \in Handles, NEW s, IInv, Become(h, s), remote' = remote,
         s.confirmed \in Offsets, handle[h].confirmed <= s.confirmed, s.confirmed <= remote,
         handle[h].phase # "complete", s.phase = "complete" => s.confirmed = Size
  PROVE  Service!Learn(h)
<1> DEFINE n == s.confirmed
<1>1. handle' = [handle EXCEPT ![h] = s] /\ DOMAIN handle = Handles
  BY DEF Become, IInv, TypeOK
<1>2. handle[h].confirmed \in Offsets /\ remote \in Offsets
  BY DEF IInv, TypeOK, Handle
<1>3. n \in Told[h]..remote
  BY <1>2, UploadAssumption DEF Told, Offsets
<1>4. Told' = [Told EXCEPT ![h] = n]
  BY <1>1 DEF Told
<1>5. Done' = IF s.phase = "complete" THEN Done \cup {h} ELSE Done
  BY <1>1 DEF Done
<1>6. Done' \in {Done, Done \cup (IF n = Size THEN {h} ELSE {})}
  BY <1>5
<1>7. h \notin Done
  BY DEF Done
<1> HIDE DEF n
<1> QED BY <1>3, <1>4, <1>6, <1>7 DEF Service!Learn, Told, Done

\* A resumed handle rejoins from a checkpoint.
LEMMA ResumeRejoins == ASSUME IInv, NEW h \in Handles, Resume(h) PROVE Service!Rejoin(h)
<1> DEFINE s == handle[h]
           Resumed(c) ==
             [s EXCEPT !.pc = "resuming", !.phase = c.phase, !.confirmed = c.confirmed,
                       !.verify = TRUE, !.high = Size, !.goal = 0, !.changed = FALSE,
                       !.call = 0, !.past = c.past, !.tries = 0]
<1>1. PICK c \in saved : c.phase = "uploading" /\ Become(h, Resumed(c)) /\ UNCHANGED net
  BY DEF Resume
<1> DEFINE t == Resumed(c)
<1>2. handle' = [handle EXCEPT ![h] = t] /\ DOMAIN handle = Handles /\ s \in Handle
  BY <1>1 DEF Become, IInv, TypeOK
<1>3. t.confirmed = c.confirmed /\ t.phase = "uploading"
  BY <1>1, <1>2 DEF Handle
<1>4. c.confirmed \in 0..remote
  BY UploadAssumption DEF IInv, TypeOK, Resumable, Checkpoints, Offsets
<1> HIDE DEF t
<1>5. Told' = [Told EXCEPT ![h] = c.confirmed]
  BY <1>2, <1>3 DEF Told
<1>6. Done' = Done \ {h}
  BY <1>2, <1>3 DEF Done
<1> QED BY <1>1, <1>4, <1>5, <1>6 DEF Service!Rejoin, Told, Done, net

\* An answer reaches a handle that cannot tell yet what it means.
LEMMA AnswerUnseen ==
  ASSUME IInv, NEW by \in Callers, NEW kind, Answer(by, kind)
  PROVE  UNCHANGED <<Told, Done>>
<1>1. CASE by = Nobody
  BY <1>1 DEF Answer, Told, Done
<1>2. CASE by # Nobody
  <2>1. by \in Handles /\ handle \in [Handles -> Handle]
    BY <1>2 DEF Callers, IInv, TypeOK
  <2>2. handle' = [handle EXCEPT ![by] = [handle[by] EXCEPT !.reply = kind]]
    BY <1>2 DEF Answer, Become
  <2>3. \A g \in Handles : /\ handle'[g].confirmed = handle[g].confirmed
                           /\ handle'[g].phase = handle[g].phase
    BY <2>1, <2>2 DEF Handle
  <2> QED BY <2>3 DEF Told, Done
<1> QED BY <1>1, <1>2

LEMMA UploadingImplements ==
  ASSUME IInv, NEW h \in Handles, Uploading(h)
  PROVE  Service!Learn(h) \/ UNCHANGED Service!vars
<1> DEFINE s == handle[h]
<1>1. s \in Handle /\ Placed(s) /\ Known(s, remote, applied)
  BY DEF IInv, Sound
<1>2. remote' = remote
  BY DEF Uploading, Step, Verified, ProbeFails, Buffer, Send, Appended, AppendRaises,
     AppendUncertain, Reconciled, net
<1>3. CASE Step(h)
  <2> DEFINE t == [s EXCEPT !.pc = IF s.verify THEN "verifying" ELSE "due"]
  <2>1. Become(h, t) /\ t.confirmed = s.confirmed /\ t.phase = s.phase
    BY <1>1, <1>3 DEF Step, Handle
  <2> QED BY <1>2, <2>1, SameToCallers
<1>4. ASSUME NEW pc, Become(h, Hangup(s, pc)) PROVE UNCHANGED Service!vars
  <2>1. Hangup(s, pc).confirmed = s.confirmed /\ Hangup(s, pc).phase = s.phase
    BY <1>1 DEF Hangup, Handle
  <2> QED BY <1>2, <1>4, <2>1, SameToCallers
<1>5. ASSUME NEW pc, Become(h, [Hangup(s, pc) EXCEPT !.refused = TRUE])
      PROVE  UNCHANGED Service!vars
  <2> DEFINE t == [Hangup(s, pc) EXCEPT !.refused = TRUE]
  <2>1. t.confirmed = s.confirmed /\ t.phase = s.phase
    BY <1>1 DEF Hangup, Handle
  <2> QED BY <1>2, <1>5, <2>1, SameToCallers
<1>6. ASSUME NEW pc, NEW n \in Offsets, Become(h, Hangup(Settled(s, n), pc)),
             s.confirmed <= n, n <= remote, s.phase = "uploading"
      PROVE  Service!Learn(h)
  <2> DEFINE t == Hangup(Settled(s, n), pc)
  <2>1. t.confirmed = n /\ (t.phase = "complete" => n = Size)
    BY <1>1, <1>6 DEF Hangup, Settled, Whole, Handle
  <2> QED BY <1>2, <1>6, <2>1, LearnsMore
<1>7. CASE Verified(h)
  <2>1. s.phase = "uploading" /\ s.offer \in Offsets /\ s.offer <= remote
    BY <1>1, <1>7 DEF Verified, Placed, Known, Handle, Busy, Probing
  <2>2. \/ \E pc \in Steps : /\ Become(h, Hangup(Settled(s, s.offer), pc))
                             /\ s.confirmed <= s.offer
        \/ \E pc \in Steps : Become(h, [Hangup(s, pc) EXCEPT !.refused = TRUE])
    BY <1>7 DEF Verified, Acceptable, Steps
  <2> QED BY <1>5, <1>6, <2>1, <2>2
<1>8. CASE ProbeFails(h)
  BY <1>4, <1>8 DEF ProbeFails
<1>9. CASE Buffer(h)
  <2> DEFINE t == [s EXCEPT !.pc = "sending", !.goal = ChunkEnd(s.confirmed)]
             u == [s EXCEPT !.pc = "idle", !.changed = TRUE]
  <2>1. Become(h, t) \/ Become(h, u)
    BY <1>9 DEF Buffer
  <2>2. /\ t.confirmed = s.confirmed /\ t.phase = s.phase
        /\ u.confirmed = s.confirmed /\ u.phase = s.phase
    BY <1>1 DEF Handle
  <2> HIDE DEF t, u
  <2> QED BY <1>2, <2>1, <2>2, SameToCallers
<1>10. CASE Send(h)
  <2> DEFINE t == [Sending(s) EXCEPT !.pc = "appending"]
  <2>1. Become(h, t) /\ t.confirmed = s.confirmed /\ t.phase = s.phase
    BY <1>1, <1>10 DEF Send, Sending, Handle
  <2> QED BY <1>2, <2>1, SameToCallers
<1>11. CASE Appended(h)
  <2>1. /\ s.phase = "uploading" /\ s.goal \in Offsets /\ s.goal <= remote
        /\ s.confirmed <= s.goal
    BY <1>1, <1>11, UploadAssumption
    DEF Appended, Placed, Known, Handle, Busy, Offsets
  <2> QED BY <1>6, <1>11, <2>1 DEF Appended
<1>12. CASE AppendRaises(h) \/ AppendUncertain(h)
  BY <1>4, <1>12 DEF AppendRaises, AppendUncertain
<1>13. CASE Reconciled(h)
  <2>1. /\ s.phase = "uploading" /\ s.offer \in Offsets /\ s.offer <= remote
        /\ s.confirmed < s.goal
    BY <1>1, <1>13 DEF Reconciled, Placed, Known, Handle, Busy, Probing
  <2>2. \/ \E pc \in Steps : Become(h, Hangup(s, pc))
        \/ \E pc \in Steps : /\ Become(h, Hangup(Settled(s, s.offer), pc))
                             /\ s.offer = s.goal \/ s.confirmed < s.offer
        \/ \E pc \in Steps : Become(h, [Hangup(s, pc) EXCEPT !.refused = TRUE])
    BY <1>13 DEF Reconciled, Steps
  <2>3. s.offer = s.goal \/ s.confirmed < s.offer => s.confirmed <= s.offer
    BY <1>1, <2>1, UploadAssumption DEF Handle, Offsets
  <2> QED BY <1>4, <1>5, <1>6, <2>1, <2>2, <2>3
<1> QED
  BY <1>3, <1>7, <1>8, <1>9, <1>10, <1>11, <1>12, <1>13 DEF Uploading

LEMMA CompletingImplements ==
  ASSUME IInv, NEW h \in Handles, Completing(h)
  PROVE  Service!Learn(h) \/ UNCHANGED Service!vars
<1> DEFINE s == handle[h]
           Decided(phase) == [Hangup(s, "idle") EXCEPT !.phase = phase]
<1>1. s \in Handle /\ Placed(s) /\ Known(s, remote, applied)
  BY DEF IInv, Sound
<1>2. remote' = remote
  BY DEF Completing, Complete, Resend, Completed, CompletionRefused, CompletionUnknown, net
<1>3. \A phase \in Phases : Decided(phase).confirmed = s.confirmed /\ Decided(phase).phase = phase
  BY <1>1 DEF Hangup, Handle
<1>4. CASE Complete(h)
  <2> DEFINE t == [s EXCEPT !.pc = "completing", !.phase = "unknown", !.call = calls + 1,
                            !.past = @ \cup {calls + 1}, !.tries = 0]
  <2>1. Become(h, t) /\ s.phase = "uploading"
    BY <1>1, <1>4 DEF Complete, Placed, Busy
  <2>2. t.confirmed = s.confirmed /\ t.phase = "unknown"
    BY <1>1 DEF Handle
  <2> HIDE DEF t
  <2> QED BY <1>2, <2>1, <2>2, SameToCallers
<1>5. CASE Resend(h)
  <2> DEFINE t == [Hangup(s, "completing") EXCEPT !.tries = @ + 1]
  <2>1. Become(h, t)
    BY <1>5 DEF Resend
  <2>2. t.confirmed = s.confirmed /\ t.phase = s.phase
    BY <1>1 DEF Hangup, Handle
  <2> HIDE DEF t
  <2> QED BY <1>2, <2>1, <2>2, SameToCallers
<1>6. CASE Completed(h)
  <2>1. /\ Become(h, Decided("complete")) /\ s.phase = "unknown" /\ s.confirmed = Size
        /\ s.confirmed \in Offsets /\ s.confirmed <= s.confirmed /\ s.confirmed <= remote
    BY <1>1, <1>6, UploadAssumption DEF Completed, Placed, Known, Handle, Offsets
  <2> HIDE DEF Decided
  <2> QED BY <1>2, <1>3, <2>1, LearnsMore DEF Phases
<1>7. CASE CompletionRefused(h)
  <2>1. Become(h, Decided("uploading")) /\ s.phase = "unknown"
    BY <1>1, <1>7 DEF CompletionRefused, Placed
  <2> HIDE DEF Decided
  <2> QED BY <1>2, <1>3, <2>1, SameToCallers DEF Phases
<1>8. CASE CompletionUnknown(h)
  <2>1. Become(h, Hangup(s, "idle"))
    BY <1>8 DEF CompletionUnknown
  <2>2. Hangup(s, "idle").confirmed = s.confirmed /\ Hangup(s, "idle").phase = s.phase
    BY <1>1 DEF Hangup, Handle
  <2> QED BY <1>2, <2>1, <2>2, SameToCallers
<1> QED BY <1>4, <1>5, <1>6, <1>7, <1>8 DEF Completing

LEMMA OwningImplements ==
  ASSUME IInv, NEW h \in Handles, Owning(h)
  PROVE  Service!Rejoin(h) \/ UNCHANGED Service!vars
<1> DEFINE s == handle[h]
<1>1. s \in Handle
  BY DEF IInv, Sound
<1>2. CASE Checkpoint(h)
  BY <1>2 DEF Checkpoint, net, Service!vars
<1>3. CASE Close(h)
  <2> DEFINE t == [s EXCEPT !.pc = "closed"]
  <2>1. Become(h, t) /\ remote' = remote /\ t.confirmed = s.confirmed /\ t.phase = s.phase
    BY <1>1, <1>3 DEF Close, net, Handle
  <2> QED BY <2>1, SameToCallers
<1>4. CASE Crash(h)
  <2> DEFINE t == Hangup(s, "none")
  <2>1. Become(h, t) /\ remote' = remote /\ t.confirmed = s.confirmed /\ t.phase = s.phase
    BY <1>1, <1>4 DEF Crash, Hangup, Handle
  <2> QED BY <2>1, SameToCallers
<1>5. CASE Resume(h)
  BY <1>5, ResumeRejoins
<1> QED BY <1>2, <1>3, <1>4, <1>5 DEF Owning

LEMMA ServingImplements ==
  ASSUME IInv
  PROVE  /\ \A h \in Handles : ServeProbe(h) => UNCHANGED Service!vars
         /\ \A m \in wire : ServeAppend(m) => Service!Keep \/ UNCHANGED Service!vars
         /\ \A m \in finals : ServeCompletion(m) => UNCHANGED Service!vars
<1>1. ASSUME NEW h \in Handles, ServeProbe(h) PROVE UNCHANGED Service!vars
  <2> DEFINE s == handle[h]
             t == [s EXCEPT !.reply = "ok", !.offer = remote]
  <2>1. Become(h, t) /\ remote' = remote /\ t.confirmed = s.confirmed /\ t.phase = s.phase
    BY <1>1 DEF ServeProbe, net, IInv, Sound, Handle
  <2> QED BY <2>1, SameToCallers
<1>2. ASSUME NEW m \in wire, ServeAppend(m) PROVE Service!Keep \/ UNCHANGED Service!vars
  <2>1. m \in Appends /\ m.off < m.end /\ remote \in Offsets /\ m.by \in Callers
    BY DEF IInv, TypeOK, Wired, Appends
  <2>2. UNCHANGED <<Told, Done>>
    BY <1>2, <2>1, AnswerUnseen DEF ServeAppend, KeepAppend, RefuseAppend, GatewayAppend
  <2>3. remote' = remote \/ remote' \in (remote + 1)..Size
    BY <1>2, <2>1, UploadAssumption
    DEF ServeAppend, KeepAppend, RefuseAppend, GatewayAppend, Appends, Offsets
  <2> QED BY <2>2, <2>3 DEF Service!Keep, Service!vars, Told, Done
<1>3. ASSUME NEW m \in finals, ServeCompletion(m) PROVE UNCHANGED Service!vars
  <2>1. m.by \in Callers /\ remote' = remote
    BY <1>3 DEF IInv, TypeOK, Completions, ServeCompletion, ApplyCompletion, RefuseCompletion,
       GatewayCompletion
  <2>2. UNCHANGED <<Told, Done>>
    BY <1>3, <2>1, AnswerUnseen
    DEF ServeCompletion, ApplyCompletion, RefuseCompletion, GatewayCompletion
  <2> QED BY <2>1, <2>2 DEF Service!vars, Told, Done
<1> QED BY <1>1, <1>2, <1>3

\* The upload implements the service its callers see: what is kept only grows, a client
\* knows of no more than that, forgets only to resume, and reports only the whole of it.
THEOREM Implements == Spec => ImplementsService
<1>1. Init => Service!Init
  <2> SUFFICES ASSUME Init PROVE Service!Init
    OBVIOUS
  <2>1. Told = [h \in Handles |-> 0]
    BY DEF Init, Told, Fresh
  <2>2. Done \in SUBSET (IF Size = 0 THEN Handles ELSE {})
    BY DEF Init, Done, Fresh, Whole
  <2> QED BY <2>1, <2>2 DEF Init, Service!Init, Told, Done
<1>2. IInv /\ [Next]_vars => [Service!Next]_(Service!vars)
  <2> SUFFICES ASSUME IInv, [Next]_vars PROVE Service!Next \/ UNCHANGED Service!vars
    OBVIOUS
  <2>1. CASE ChangeSource
    BY <2>1 DEF ChangeSource, net, Service!vars
  <2>2. CASE UNCHANGED vars
    BY <2>2 DEF vars, Service!vars
  <2> QED
    BY <2>1, <2>2, UploadingImplements, CompletingImplements, OwningImplements,
       ServingImplements DEF Next, Service!Next
<1> QED BY <1>1, <1>2, Invariance, PTL DEF Spec, Service!Spec, ImplementsService
=============================================================================
