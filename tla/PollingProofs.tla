---------------------------- MODULE PollingProofs ----------------------------
(***************************************************************************)
(* Proofs about Polling: its state is well typed, a handle settles as the  *)
(* server said and stays settled, what is read beside a step comes from    *)
(* one response, no poll is early and none is past the limit.              *)
(* All follow from one inductive invariant, IInv.                          *)
(***************************************************************************)
EXTENDS Polling, TLAPS

InStep(s) == s.op \in {"status", "wait"}
Polls(s)  == s.pc = "waiting" /\ ~s.fetch

\* The place of thread t in state s: a step holds the lock l, and settles under the guard g.
Placed(t, s, l, g) ==
  /\ s.pc = "idle" <=> s.op = "none"
  /\ s.pc \in {"cancelling", "cancelled"} <=> s.op = "cancel"
  /\ InStep(s) => l = t
  /\ s.pc \in {"settling", "binding"} <=> g = t

\* An answered poll says what the operation, in state o, is.
Said(s, o) == IF s.reply = "pending" THEN s.gives \in Tags ELSE o = s.reply

Unfetched(h) == h.phase = "succeeded" /\ ~h.result

\* What a thread in state s relies on, of the handle h, the operation o, the wait d and the
\* polls a.
Fits(s, h, o, d, a) ==
  /\ s.op = "cancel" => s.gives \in Tags
  /\ s.pc \in {"checking", "due", "sleeping", "sending"} => s.reply = "none"
  /\ s.pc \in {"due", "sleeping", "sending", "waiting"} =>
       IF s.fetch THEN Unfetched(h) ELSE h.phase = "pending"
  /\ s.pc \in {"sleeping", "sending", "waiting"} /\ ~s.fetch => h.polls < MaxPolls
  /\ s.pc \in {"sending", "waiting"} => d = 0
  /\ Polls(s) => s.moved /\ a <= h.polls + 1
  /\ s.pc = "waiting" /\ s.reply \in Phases => ~s.fetch /\ Said(s, o)
  /\ s.pc = "waiting" /\ s.reply = "result" => s.fetch
  /\ s.pc \in {"settling", "binding"} =>
       s.reply \in Phases /\ ~s.fetch /\ Said(s, o) /\ h.phase = s.reply
  /\ s.pc = "settling" => ~h.result
  /\ s.pc = "binding" =>
       /\ s.reply = "pending" => h.bound = s.gives
       /\ Unfetched(h) => h.bound = "fetch"

Sound(t, s, l, g, h, o, d, a) == Placed(t, s, l, g) /\ Fits(s, h, o, d, a)

Outcome ==
  /\ handle.phase # "pending" => handle.phase = op
  /\ handle.result => handle.phase = "succeeded"

\* With the guard free, the values of the handle come from one response.
Together ==
  guard = Nobody =>
    /\ handle.phase = "pending" => handle.bound \in Tags /\ handle.cancel = handle.bound
    /\ Unfetched(handle) => handle.bound = "fetch"

Kept ==
  \A c \in saved :
    IF c.phase = "pending" THEN c.bound \in Tags /\ c.cancel = c.bound
    ELSE c.bound = "fetch" /\ op = "succeeded"

\* Every poll sent counts, but one that is waited for.
Count == (\A t \in Threads : ~Polls(thread[t])) => asked <= handle.polls

IInv ==
  /\ TypeOK
  /\ \A t \in Threads : Sound(t, thread[t], lock, guard, handle, op, due, asked)
  /\ Outcome /\ Together /\ Kept /\ Count /\ quiet = due
-----------------------------------------------------------------------------
\* A thread in no step relies on nothing but what its cancel carries.
LEMMA BesideSound ==
  ASSUME NEW t \in Threads, NEW s, NEW l, NEW g, NEW m, NEW k, NEW h, NEW o, NEW d, NEW a,
         NEW i, NEW p, NEW e, NEW b,
         Sound(t, s, m, k, i, p, e, b), ~InStep(s), s \in Thread, g # t
  PROVE  Sound(t, s, l, g, h, o, d, a)
BY DEF Sound, Placed, Fits, InStep, Polls, Thread, Places

\* Two threads are not in a step at once.
LEMMA Alone ==
  ASSUME IInv, NEW t \in Threads, NEW u \in Threads \ {t}, InStep(thread[t])
  PROVE  ~InStep(thread[u])
BY DEF IInv, Sound, Placed

\* A step of one thread, alone in a step, keeps the others sound.
LEMMA StepSound ==
  ASSUME IInv, NEW t \in Threads, NEW s \in Thread, InStep(thread[t]), Goes(t, s),
         guard' \in {t, Nobody},
         Sound(t, s, lock', guard', handle', op', due', asked')
  PROVE  /\ thread' \in [Threads -> Thread]
         /\ \A u \in Threads : Sound(u, thread'[u], lock', guard', handle', op', due', asked')
<1>1. thread \in [Threads -> Thread] /\ thread' = [thread EXCEPT ![t] = s]
  BY DEF IInv, TypeOK, Goes
<1>2. ASSUME NEW u \in Threads \ {t}
      PROVE  Sound(u, thread'[u], lock', guard', handle', op', due', asked')
  <2>1. thread'[u] = thread[u] /\ thread[u] \in Thread /\ ~InStep(thread[u])
    BY <1>1, Alone
  <2>2. Sound(u, thread[u], lock, guard, handle, op, due, asked)
    BY DEF IInv
  <2>3. guard' # u
    BY PollingAssumption
  <2> QED BY <2>1, <2>2, <2>3, BesideSound
<1> QED BY <1>1, <1>2

\* A step that leaves the handle alone, and goes on to another place of its own.
LEMMA StepSafe ==
  ASSUME IInv, NEW t \in Threads, NEW s \in Thread, InStep(thread[t]), Goes(t, s),
         ~Polls(thread[t]), ~Polls(s),
         Sound(t, s, lock', guard, handle, op, due, asked),
         lock' \in Threads \cup {Nobody}, guard \in {t, Nobody},
         UNCHANGED <<handle, guard, timers, server, saved, asked>>,
         cancels' = cancels, faults' \in 0..MaxFaults
  PROVE  IInv'
<1>1. UNCHANGED <<handle, guard, due, left, quiet, op, tag, saved, asked, cancels>>
  BY DEF timers, server
<1>2. thread' \in [Threads -> Thread] /\ thread' = [thread EXCEPT ![t] = s]
      /\ \A u \in Threads : Sound(u, thread'[u], lock', guard', handle', op', due', asked')
  BY <1>1, StepSound DEF Goes
<1>3. TypeOK'
  BY <1>1, <1>2 DEF IInv, TypeOK
<1>4. Outcome' /\ Together' /\ Kept' /\ (quiet = due)'
  BY <1>1 DEF IInv, Outcome, Together, Kept
<1>5. Count'
  <2>1. ASSUME NEW u \in Threads PROVE Polls(thread'[u]) <=> Polls(thread[u])
    BY <1>2 DEF IInv, TypeOK
  <2> QED BY <2>1, <1>1 DEF IInv, Count
<1> QED BY <1>2, <1>3, <1>4, <1>5 DEF IInv

\* What a thread in a step has.
LEMMA StepFacts ==
  ASSUME IInv, NEW t \in Threads, thread[t].pc \notin {"idle", "cancelling", "cancelled"}
  PROVE  /\ thread[t] \in Thread /\ InStep(thread[t]) /\ lock = t
         /\ guard = IF thread[t].pc \in {"settling", "binding"} THEN t ELSE Nobody
         /\ Fits(thread[t], handle, op, due, asked)
         /\ handle \in Handle /\ handle.polls \in 0..MaxPolls
<1>1. /\ thread[t] \in Thread /\ handle \in Handle /\ guard \in Threads \cup {Nobody}
      /\ Placed(t, thread[t], lock, guard) /\ Fits(thread[t], handle, op, due, asked)
  BY DEF IInv, TypeOK, Sound
<1>2. InStep(thread[t]) /\ lock = t
  BY <1>1 DEF Placed, InStep, Thread
<1>3. ASSUME NEW u \in Threads, guard = u PROVE u = t
  <2>1. thread[u].pc \in {"settling", "binding"} /\ thread[u] \in Thread
        /\ Placed(u, thread[u], lock, guard)
    BY <1>3 DEF IInv, TypeOK, Sound, Placed
  <2>2. InStep(thread[u])
    BY <2>1 DEF Placed, InStep, Thread
  <2> QED BY <2>2, <1>2, Alone
<1> QED BY <1>1, <1>2, <1>3 DEF Placed, Handle

\* A thread that is idle relies on nothing.
LEMMA IdleSound ==
  ASSUME NEW t \in Threads, NEW l, NEW g, NEW h, NEW o, NEW d, NEW a, g # t
  PROVE  /\ Idle \in Thread /\ ~InStep(Idle) /\ ~Polls(Idle)
         /\ Sound(t, Idle, l, g, h, o, d, a)
BY DEF Idle, Thread, Places, Values, Answers, Sound, Placed, Fits, InStep, Polls

LEMMA FaultBound ==
  ASSUME IInv, Fault \/ UNCHANGED faults
  PROVE  faults' \in 0..MaxFaults
BY PollingAssumption DEF IInv, TypeOK, Fault
-----------------------------------------------------------------------------
\* One lemma for each action: it keeps the invariant.
LEMMA EnterSafe == ASSUME IInv, NEW t \in Threads, Enter(t) PROVE IInv'
<1>1. PICK o \in {"status", "wait"} : Goes(t, [Idle EXCEPT !.op = o, !.pc = "checking"])
  BY DEF Enter
<1> DEFINE s == [Idle EXCEPT !.op = o, !.pc = "checking"]
<1>2. /\ thread[t].pc = "idle" /\ lock = Nobody /\ lock' = t
      /\ UNCHANGED <<handle, guard, due, left, quiet, op, tag, saved, asked, cancels, faults>>
  BY DEF Enter, timers, server, bounds
<1>3. thread' = [thread EXCEPT ![t] = s] /\ thread \in [Threads -> Thread]
  BY <1>1 DEF Goes, IInv, TypeOK
<1>4. s \in Thread /\ s.pc = "checking" /\ s.op = o /\ s.reply = "none" /\ ~Polls(s)
  BY DEF Idle, Thread, Places, Values, Answers, Polls
<1>5. guard # t
  BY <1>2 DEF IInv, Sound, Placed
<1>6. Sound(t, s, t, guard, handle, op, due, asked)
  BY <1>4, <1>5 DEF Sound, Placed, Fits, InStep, Polls
<1>7. ASSUME NEW u \in Threads PROVE Sound(u, thread'[u], lock', guard', handle', op', due', asked')
  <2>1. CASE u = t
    BY <2>1, <1>2, <1>3, <1>6
  <2>2. CASE u # t
    <3>1. /\ thread'[u] = thread[u] /\ thread[u] \in Thread
          /\ Sound(u, thread[u], lock, guard, handle, op, due, asked)
      BY <2>2, <1>3 DEF IInv
    <3>2. ~InStep(thread[u])
      BY <3>1, <1>2, PollingAssumption DEF Sound, Placed
    <3>3. Placed(u, thread[u], lock', guard')
      BY <3>1, <3>2, <1>2 DEF Sound, Placed
    <3> QED BY <3>1, <3>3, <1>2 DEF Sound
  <2> QED BY <2>1, <2>2
<1>8. TypeOK'
  BY <1>2, <1>3, <1>4 DEF IInv, TypeOK
<1>9. Outcome' /\ Together' /\ Kept' /\ (quiet = due)'
  BY <1>2 DEF IInv, Outcome, Together, Kept
<1>10. Count'
  <2>1. ASSUME NEW u \in Threads PROVE Polls(thread'[u]) <=> Polls(thread[u])
    BY <1>2, <1>3, <1>4 DEF Polls
  <2> QED BY <2>1, <1>2 DEF IInv, Count
<1> QED BY <1>7, <1>8, <1>9, <1>10 DEF IInv

LEMMA CheckSafe == ASSUME IInv, NEW t \in Threads, Check(t) PROVE IInv'
<1> DEFINE fetches == handle.phase = "succeeded" /\ ~handle.result /\ thread[t].op = "wait"
           s == [thread[t] EXCEPT !.pc = "due", !.fetch = fetches]
<1>1. /\ thread[t].pc = "checking"
      /\ UNCHANGED <<handle, guard, timers, server, saved, asked, cancels>>
      /\ faults' \in 0..MaxFaults
  BY DEF Check, bounds, IInv, TypeOK
<1>2. /\ thread[t] \in Thread /\ InStep(thread[t]) /\ lock = t /\ guard = Nobody
      /\ Fits(thread[t], handle, op, due, asked) /\ ~Polls(thread[t])
  BY <1>1, StepFacts DEF Polls
<1>3. CASE (handle.phase = "pending" \/ fetches) /\ Goes(t, s) /\ UNCHANGED lock
  <2>1. s \in Thread /\ s.pc = "due" /\ s.op = thread[t].op /\ s.fetch = fetches /\ s.reply = "none"
    BY <1>1, <1>2 DEF Thread, Places, Fits
  <2>2. Sound(t, s, lock', guard, handle, op, due, asked)
    BY <2>1, <1>2, <1>3, PollingAssumption DEF Sound, Placed, Fits, InStep, Polls, Unfetched
  <2>3. ~Polls(s)
    BY <2>1 DEF Polls
  <2> QED BY <1>1, <1>2, <1>3, <2>1, <2>2, <2>3, StepSafe DEF IInv, TypeOK
<1>4. CASE Leave(t)
  BY <1>1, <1>2, <1>4, IdleSound, StepSafe, PollingAssumption DEF Leave
<1> QED BY <1>3, <1>4 DEF Check

LEMMA DueSafe == ASSUME IInv, NEW t \in Threads, Due(t) PROVE IInv'
<1> DEFINE spent == ~thread[t].fetch /\ handle.polls >= MaxPolls
           s == [thread[t] EXCEPT !.pc = IF due > 0 THEN "sleeping" ELSE "sending", !.moved = FALSE]
<1>1. /\ thread[t].pc = "due"
      /\ UNCHANGED <<handle, guard, timers, server, saved, asked, cancels>>
      /\ faults' \in 0..MaxFaults
  BY DEF Due, bounds, IInv, TypeOK
<1>2. /\ thread[t] \in Thread /\ InStep(thread[t]) /\ lock = t /\ guard = Nobody
      /\ Fits(thread[t], handle, op, due, asked) /\ ~Polls(thread[t])
      /\ handle.polls \in 0..MaxPolls /\ due \in Nat
  BY <1>1, StepFacts DEF Polls, IInv, TypeOK
<1>3. CASE ~spent /\ Goes(t, s) /\ UNCHANGED lock
  <2>1. /\ s \in Thread /\ s.pc = IF due > 0 THEN "sleeping" ELSE "sending"
        /\ s.op = thread[t].op /\ s.fetch = thread[t].fetch /\ s.reply = "none"
    BY <1>1, <1>2 DEF Thread, Places, Fits
  <2>2. ~s.fetch => handle.polls < MaxPolls
    BY <2>1, <1>2, <1>3, PollingAssumption
  <2>3. IF s.fetch THEN Unfetched(handle) ELSE handle.phase = "pending"
    BY <2>1, <1>1, <1>2 DEF Fits
  <2>4. Sound(t, s, lock', guard, handle, op, due, asked)
    BY <2>1, <2>2, <2>3, <1>2, <1>3, PollingAssumption DEF Sound, Placed, Fits, InStep, Polls
  <2>5. ~Polls(s)
    BY <2>1 DEF Polls
  <2> QED BY <1>1, <1>2, <1>3, <2>1, <2>4, <2>5, StepSafe DEF IInv, TypeOK
<1>4. CASE Leave(t)
  BY <1>1, <1>2, <1>4, IdleSound, StepSafe, PollingAssumption DEF Leave
<1> QED BY <1>3, <1>4 DEF Due

LEMMA WakeSafe == ASSUME IInv, NEW t \in Threads, Wake(t) PROVE IInv'
<1> DEFINE s == [thread[t] EXCEPT !.pc = "sending", !.moved = FALSE]
<1>1. /\ thread[t].pc = "sleeping" /\ due = 0
      /\ UNCHANGED <<handle, guard, timers, server, saved, asked, cancels>>
      /\ faults' \in 0..MaxFaults
  BY DEF Wake, bounds, IInv, TypeOK
<1>2. /\ thread[t] \in Thread /\ InStep(thread[t]) /\ lock = t /\ guard = Nobody
      /\ Fits(thread[t], handle, op, due, asked) /\ ~Polls(thread[t])
  BY <1>1, StepFacts DEF Polls
<1>3. CASE Goes(t, s) /\ UNCHANGED lock
  <2>1. /\ s \in Thread /\ s.pc = "sending"
        /\ s.op = thread[t].op /\ s.fetch = thread[t].fetch /\ s.reply = "none"
    BY <1>1, <1>2 DEF Thread, Places, Fits
  <2>2. Sound(t, s, lock', guard, handle, op, due, asked)
    BY <2>1, <1>1, <1>2, <1>3, PollingAssumption DEF Sound, Placed, Fits, InStep, Polls
  <2>3. ~Polls(s)
    BY <2>1 DEF Polls
  <2> QED BY <1>1, <1>2, <1>3, <2>1, <2>2, <2>3, StepSafe DEF IInv, TypeOK
<1>4. CASE Leave(t)
  BY <1>1, <1>2, <1>4, IdleSound, StepSafe, PollingAssumption DEF Leave
<1> QED BY <1>3, <1>4 DEF Wake

LEMMA InterruptSafe == ASSUME IInv, NEW t \in Threads, Interrupt(t) PROVE IInv'
<1>1. /\ thread[t].pc = "sleeping" /\ Leave(t)
      /\ UNCHANGED <<handle, guard, timers, server, saved, asked, cancels>>
      /\ faults' \in 0..MaxFaults
  BY FaultBound DEF Interrupt
<1>2. /\ InStep(thread[t]) /\ lock = t /\ guard = Nobody /\ ~Polls(thread[t])
  BY <1>1, StepFacts DEF Polls
<1> QED BY <1>1, <1>2, IdleSound, StepSafe, PollingAssumption DEF Leave

\* With no poll under way, every poll sent counts.
LEMMA Counts ==
  ASSUME IInv, NEW t \in Threads, InStep(thread[t]), ~Polls(thread[t])
  PROVE  asked <= handle.polls
<1>1. ASSUME NEW u \in Threads PROVE ~Polls(thread[u])
  <2>1. CASE u # t
    <3>1. ~InStep(thread[u]) /\ thread[u] \in Thread /\ Placed(u, thread[u], lock, guard)
      BY <2>1, Alone DEF IInv, TypeOK, Sound
    <3> QED BY <3>1 DEF Placed, InStep, Polls, Thread
  <2> QED BY <2>1
<1> QED BY <1>1 DEF IInv, Count

\* A step that changes the handle, its waits or its values.
LEMMA ChangeSafe ==
  ASSUME IInv, NEW t \in Threads, NEW s \in Thread, InStep(thread[t]), Goes(t, s),
         lock' \in Threads \cup {Nobody}, guard' \in {t, Nobody},
         Sound(t, s, lock', guard', handle', op', due', asked'),
         Polls(s) \/ asked' <= handle'.polls,
         handle' \in Handle, due' \in Nat, quiet' = due', asked' \in 0..(MaxPolls + 1),
         UNCHANGED <<left, op, tag, saved, cancels>>, faults' \in 0..MaxFaults,
         Outcome', Together'
  PROVE  IInv'
<1>1. thread' \in [Threads -> Thread] /\ thread'[t] = s
      /\ \A u \in Threads : Sound(u, thread'[u], lock', guard', handle', op', due', asked')
  BY StepSound DEF Goes, IInv, TypeOK
<1>2. TypeOK'
  BY <1>1 DEF IInv, TypeOK
<1>3. Kept'
  BY DEF IInv, Kept
<1>4. Count'
  BY <1>1 DEF Count
<1> QED BY <1>1, <1>2, <1>3, <1>4 DEF IInv

LEMMA AskSafe == ASSUME IInv, NEW t \in Threads, Ask(t) PROVE IInv'
<1> DEFINE s == [thread[t] EXCEPT !.pc = "waiting", !.moved = TRUE]
<1>1. /\ thread[t].pc = "sending" /\ Sent(t, s)
      /\ asked' = IF thread[t].fetch \/ asked > MaxPolls THEN asked ELSE asked + 1
      /\ UNCHANGED <<handle, lock, guard, due, left, quiet, op, tag, saved, cancels, faults>>
  BY DEF Ask, locks, timers, server, bounds
<1>2. /\ thread[t] \in Thread /\ InStep(thread[t]) /\ lock = t /\ guard = Nobody
      /\ Fits(thread[t], handle, op, due, asked) /\ ~Polls(thread[t])
      /\ handle.polls \in 0..MaxPolls /\ asked \in 0..(MaxPolls + 1)
  BY <1>1, StepFacts DEF Polls, IInv, TypeOK
<1>3. asked <= handle.polls
  BY <1>2, Counts
<1>4. Goes(t, s)
  <2>1. thread \in [Threads -> Thread]
    BY DEF IInv, TypeOK
  <2>2. ASSUME NEW u \in Threads PROVE thread'[u] = [thread EXCEPT ![t] = s][u]
    BY <1>1, <1>2, <2>1, Alone DEF Sent, InStep
  <2> QED BY <1>1, <2>1, <2>2 DEF Goes, Sent
<1>5. /\ s \in Thread /\ s.pc = "waiting" /\ s.moved
      /\ s.op = thread[t].op /\ s.fetch = thread[t].fetch /\ s.reply = "none"
  BY <1>1, <1>2 DEF Thread, Places, Fits
<1>6. asked' \in 0..(MaxPolls + 1) /\ (s.fetch => asked' = asked) /\ asked' <= handle.polls + 1
  BY <1>1, <1>2, <1>3, <1>5, PollingAssumption
<1>7. Sound(t, s, lock', guard', handle', op', due', asked')
  <2>1. Placed(t, s, lock', guard')
    BY <1>1, <1>2, <1>5, PollingAssumption DEF Placed, InStep
  <2>2. Fits(s, handle', op', due', asked')
    BY <1>1, <1>2, <1>5, <1>6, PollingAssumption DEF Fits, InStep, Polls, Phases
  <2> QED BY <2>1, <2>2 DEF Sound
<1>8. Polls(s) \/ asked' <= handle'.polls
  BY <1>1, <1>3, <1>5, <1>6 DEF Polls
<1>9. Outcome' /\ Together'
  BY <1>1 DEF IInv, Outcome, Together
<1>10. faults \in 0..MaxFaults /\ handle \in Handle /\ due \in Nat /\ quiet = due
       /\ lock \in Threads \cup {Nobody}
  BY DEF IInv, TypeOK
<1> QED BY <1>1, <1>2, <1>4, <1>5, <1>6, <1>7, <1>8, <1>9, <1>10, ChangeSafe

\* A poll's end counts it, if it was sent.
LEMMA CountedHandle ==
  ASSUME IInv, NEW t \in Threads, thread[t].pc \in {"sending", "waiting"}
  PROVE  /\ Counted(t) \in Handle /\ asked <= Counted(t).polls
         /\ Counted(t) = [handle EXCEPT !.polls = Counted(t).polls]
<1>1. /\ thread[t] \in Thread /\ InStep(thread[t]) /\ handle \in Handle
      /\ Fits(thread[t], handle, op, due, asked) /\ handle.polls \in 0..MaxPolls
      /\ asked \in 0..(MaxPolls + 1)
  BY StepFacts DEF IInv, TypeOK
<1>2. CASE thread[t].fetch \/ ~thread[t].moved
  <2>1. Counted(t) = handle /\ ~Polls(thread[t])
    BY <1>1, <1>2 DEF Counted, Fits, Polls
  <2> QED BY <1>1, <2>1, Counts DEF Handle
<1>3. CASE ~thread[t].fetch /\ thread[t].moved
  <2>1. Counted(t) = [handle EXCEPT !.polls = @ + 1] /\ handle.polls < MaxPolls
    BY <1>1, <1>3 DEF Counted, Fits
  <2>2. asked <= handle.polls + 1
    BY <1>1, Counts DEF Fits
  <2> QED BY <1>1, <2>1, <2>2, PollingAssumption DEF Handle
<1> QED BY <1>2, <1>3

LEMMA RaisesSafe == ASSUME IInv, NEW t \in Threads, Raises(t) PROVE IInv'
<1>1. /\ thread[t].pc = "waiting" /\ handle' = Counted(t) /\ Goes(t, Idle) /\ lock' = Nobody
      /\ due' = thread[t].after /\ quiet' = thread[t].after
      /\ UNCHANGED <<guard, left, op, tag, saved, asked, cancels, faults>>
  BY DEF Raises, Failed, Leave, server, bounds
<1>2. /\ thread[t] \in Thread /\ InStep(thread[t]) /\ guard = Nobody /\ due' \in Nat
      /\ handle' \in Handle /\ asked <= handle'.polls /\ faults \in 0..MaxFaults
      /\ asked \in 0..(MaxPolls + 1)
      /\ handle'.phase = handle.phase /\ handle'.result = handle.result
      /\ handle'.bound = handle.bound /\ handle'.cancel = handle.cancel
  BY <1>1, StepFacts, CountedHandle, PollingAssumption DEF Thread, Handle, IInv, TypeOK
<1>3. Outcome' /\ Together'
  BY <1>1, <1>2 DEF IInv, Outcome, Together, Unfetched
<1>4. Idle \in Thread /\ Sound(t, Idle, lock', guard', handle', op', due', asked')
  BY <1>1, <1>2, IdleSound, PollingAssumption
<1> QED BY <1>1, <1>2, <1>3, <1>4, ChangeSafe

LEMMA LostSafe == ASSUME IInv, NEW t \in Threads, Lost(t) PROVE IInv'
<1>1. /\ thread[t].pc \in {"sending", "waiting"} /\ handle' = Counted(t)
      /\ Goes(t, Idle) /\ lock' = Nobody /\ faults' \in 0..MaxFaults
      /\ UNCHANGED <<guard, due, quiet, left, op, tag, saved, asked, cancels>>
  BY FaultBound DEF Lost, Leave, timers, server
<1>2. /\ InStep(thread[t]) /\ guard = Nobody /\ due \in Nat /\ quiet = due
      /\ handle' \in Handle /\ asked <= handle'.polls /\ asked \in 0..(MaxPolls + 1)
      /\ handle'.phase = handle.phase /\ handle'.result = handle.result
      /\ handle'.bound = handle.bound /\ handle'.cancel = handle.cancel
  BY <1>1, StepFacts, CountedHandle DEF Handle, IInv, TypeOK
<1>3. Outcome' /\ Together'
  BY <1>1, <1>2 DEF IInv, Outcome, Together, Unfetched
<1>4. Idle \in Thread /\ Sound(t, Idle, lock', guard', handle', op', due', asked')
  BY <1>1, <1>2, IdleSound, PollingAssumption
<1> QED BY <1>1, <1>2, <1>3, <1>4, ChangeSafe

LEMMA PolledSafe == ASSUME IInv, NEW t \in Threads, Polled(t) PROVE IInv'
<1> DEFINE r == thread[t].reply
           s == [thread[t] EXCEPT !.pc = "settling"]
<1>1. /\ thread[t].pc = "waiting" /\ r \in Phases /\ handle' = [Counted(t) EXCEPT !.phase = r]
      /\ Goes(t, s) /\ guard' = t /\ due' = thread[t].after /\ quiet' = thread[t].after
      /\ UNCHANGED <<lock, left, op, tag, saved, asked, cancels, faults>>
  BY DEF Polled, Moves, server, bounds
<1>2. /\ thread[t] \in Thread /\ InStep(thread[t]) /\ lock = t
      /\ Fits(thread[t], handle, op, due, asked)
      /\ Counted(t) \in Handle /\ asked <= Counted(t).polls /\ asked \in 0..(MaxPolls + 1)
      /\ Counted(t).phase = handle.phase /\ Counted(t).result = handle.result
      /\ faults \in 0..MaxFaults
  BY <1>1, StepFacts, CountedHandle DEF Handle, IInv, TypeOK
<1>3. ~thread[t].fetch /\ Said(thread[t], op) /\ handle.phase = "pending" /\ ~handle.result
  BY <1>1, <1>2 DEF Fits, IInv, Outcome
<1>4. handle' \in Handle /\ handle'.phase = r /\ ~handle'.result /\ asked <= handle'.polls
  BY <1>1, <1>2, <1>3 DEF Handle
<1>5. /\ s \in Thread /\ s.pc = "settling" /\ s.op = thread[t].op /\ ~s.fetch /\ s.reply = r
      /\ s.gives = thread[t].gives
  BY <1>2, <1>3 DEF Thread, Places
<1>6. Sound(t, s, lock', guard', handle', op', due', asked')
  <2>1. Placed(t, s, lock', guard')
    BY <1>1, <1>2, <1>5 DEF Placed, InStep
  <2>2. Said(s, op)
    BY <1>3, <1>5 DEF Said
  <2>3. Fits(s, handle', op', due', asked')
    BY <1>1, <1>2, <1>4, <1>5, <2>2 DEF Fits, InStep, Polls
  <2> QED BY <2>1, <2>3 DEF Sound
<1>7. Outcome'
  BY <1>1, <1>3, <1>4 DEF Outcome, Said
<1>8. Together'
  BY <1>1, PollingAssumption DEF Together
<1>9. due' \in Nat
  BY <1>1, <1>2, PollingAssumption DEF Thread
<1> QED BY <1>1, <1>2, <1>4, <1>5, <1>6, <1>7, <1>8, <1>9, ChangeSafe

LEMMA SettleBoundSafe == ASSUME IInv, NEW t \in Threads, SettleBound(t) PROVE IInv'
<1> DEFINE r == thread[t].reply
           b == IF r = "pending" THEN thread[t].gives
                ELSE IF r = "succeeded" /\ HasFetch THEN "fetch" ELSE "none"
           s == [thread[t] EXCEPT !.pc = "binding"]
<1>1. /\ thread[t].pc = "settling" /\ Goes(t, s)
      /\ handle' = [handle EXCEPT !.bound = b, !.result = r = "succeeded" /\ ~HasFetch]
      /\ UNCHANGED <<lock, guard, due, quiet, left, op, tag, saved, asked, cancels, faults>>
  BY DEF SettleBound, Moves, locks, timers, server, bounds
<1>2. /\ thread[t] \in Thread /\ InStep(thread[t]) /\ lock = t /\ guard = t
      /\ Fits(thread[t], handle, op, due, asked) /\ handle \in Handle /\ ~Polls(thread[t])
      /\ due \in Nat /\ quiet = due /\ asked \in 0..(MaxPolls + 1) /\ faults \in 0..MaxFaults
  BY <1>1, StepFacts DEF IInv, TypeOK, Polls
<1>3. r \in Phases /\ ~thread[t].fetch /\ Said(thread[t], op) /\ handle.phase = r
  BY <1>1, <1>2 DEF Fits
<1>4. /\ handle' \in Handle /\ handle'.phase = r /\ handle'.polls = handle.polls
      /\ handle'.result = (r = "succeeded" /\ ~HasFetch) /\ handle'.bound = b
  BY <1>1, <1>2, <1>3 DEF Handle, Thread, Values
<1>5. /\ s \in Thread /\ s.pc = "binding" /\ s.op = thread[t].op /\ ~s.fetch /\ s.reply = r
      /\ s.gives = thread[t].gives
  BY <1>2, <1>3 DEF Thread, Places
<1>6. Sound(t, s, lock', guard', handle', op', due', asked')
  <2>1. Placed(t, s, lock', guard')
    BY <1>1, <1>2, <1>5 DEF Placed, InStep
  <2>2. Said(s, op)
    BY <1>3, <1>5 DEF Said
  <2>3. Fits(s, handle', op', due', asked')
    BY <1>1, <1>2, <1>3, <1>4, <1>5, <2>2 DEF Fits, InStep, Polls, Unfetched
  <2> QED BY <2>1, <2>3 DEF Sound
<1>7. Outcome'
  BY <1>1, <1>3, <1>4 DEF Outcome, IInv
<1>8. Together'
  BY <1>1, <1>2, PollingAssumption DEF Together
<1>9. asked' <= handle'.polls
  BY <1>1, <1>2, <1>4, Counts
<1> QED BY <1>1, <1>2, <1>4, <1>5, <1>6, <1>7, <1>8, <1>9, ChangeSafe

LEMMA SettleCancelSafe == ASSUME IInv, NEW t \in Threads, SettleCancel(t) PROVE IInv'
<1> DEFINE r == thread[t].reply
           s == [Idle EXCEPT !.op = "wait", !.pc = "checking"]
<1>1. /\ thread[t].pc = "binding" /\ guard' = Nobody
      /\ handle' = [handle EXCEPT !.cancel = IF r = "pending" THEN thread[t].gives ELSE "none"]
      /\ UNCHANGED <<due, quiet, left, op, tag, saved, asked, cancels, faults>>
      /\ \/ Goes(t, s) /\ UNCHANGED lock
         \/ Goes(t, Idle) /\ lock' = Nobody
  BY DEF SettleCancel, Leave, timers, server, bounds
<1>2. /\ thread[t] \in Thread /\ InStep(thread[t]) /\ lock = t /\ guard = t
      /\ Fits(thread[t], handle, op, due, asked) /\ handle \in Handle /\ ~Polls(thread[t])
      /\ due \in Nat /\ quiet = due /\ asked \in 0..(MaxPolls + 1) /\ faults \in 0..MaxFaults
  BY <1>1, StepFacts DEF IInv, TypeOK, Polls
<1>3. /\ r \in Phases /\ Said(thread[t], op) /\ handle.phase = r
      /\ r = "pending" => handle.bound = thread[t].gives
      /\ Unfetched(handle) => handle.bound = "fetch"
  BY <1>1, <1>2 DEF Fits
<1>4. /\ handle' \in Handle /\ handle'.phase = r /\ handle'.polls = handle.polls
      /\ handle'.result = handle.result /\ handle'.bound = handle.bound
      /\ r = "pending" => handle'.cancel = thread[t].gives
  BY <1>1, <1>2, <1>3 DEF Handle, Thread, Values
<1>5. s \in Thread /\ s.pc = "checking" /\ s.op = "wait" /\ s.reply = "none" /\ ~Polls(s)
  BY DEF Idle, Thread, Places, Values, Answers, Polls
<1>6. Sound(t, s, t, guard', handle', op', due', asked')
  BY <1>1, <1>5, PollingAssumption DEF Sound, Placed, Fits, InStep, Polls
<1>7. Outcome'
  BY <1>1, <1>3, <1>4 DEF Outcome, IInv
<1>8. Together'
  BY <1>1, <1>3, <1>4 DEF Together, Said, Unfetched
<1>9. asked' <= handle'.polls
  BY <1>1, <1>2, <1>4, Counts
<1>10. CASE Goes(t, s) /\ UNCHANGED lock
  BY <1>1, <1>2, <1>4, <1>5, <1>6, <1>7, <1>8, <1>9, <1>10, ChangeSafe
<1>11. CASE Goes(t, Idle) /\ lock' = Nobody
  <2>1. Idle \in Thread /\ Sound(t, Idle, lock', guard', handle', op', due', asked')
    BY <1>1, IdleSound, PollingAssumption
  <2> QED BY <1>1, <1>2, <1>4, <1>7, <1>8, <1>9, <1>11, <2>1, ChangeSafe
<1> QED BY <1>1, <1>10, <1>11

LEMMA FetchedSafe == ASSUME IInv, NEW t \in Threads, Fetched(t) PROVE IInv'
<1>1. /\ thread[t].pc = "waiting" /\ thread[t].reply = "result" /\ Goes(t, Idle) /\ lock' = Nobody
      /\ handle' = [handle EXCEPT !.result = TRUE, !.bound = "none"]
      /\ UNCHANGED <<guard, due, quiet, left, op, tag, saved, asked, cancels, faults>>
  BY DEF Fetched, Leave, timers, server, bounds
<1>2. /\ InStep(thread[t]) /\ guard = Nobody /\ handle \in Handle
      /\ Fits(thread[t], handle, op, due, asked)
      /\ due \in Nat /\ quiet = due /\ asked \in 0..(MaxPolls + 1) /\ faults \in 0..MaxFaults
  BY <1>1, StepFacts DEF IInv, TypeOK
<1>3. thread[t].fetch /\ handle.phase = "succeeded" /\ ~Polls(thread[t])
  BY <1>1, <1>2 DEF Fits, Unfetched, Polls
<1>4. /\ handle' \in Handle /\ handle'.phase = "succeeded" /\ handle'.result
      /\ handle'.polls = handle.polls
  BY <1>1, <1>2, <1>3 DEF Handle, Values
<1>5. Outcome' /\ Together'
  BY <1>1, <1>3, <1>4 DEF IInv, Outcome, Together, Unfetched
<1>6. Idle \in Thread /\ Sound(t, Idle, lock', guard', handle', op', due', asked')
  BY <1>1, <1>2, IdleSound, PollingAssumption
<1>7. asked' <= handle'.polls
  BY <1>1, <1>2, <1>3, <1>4, Counts
<1> QED BY <1>1, <1>2, <1>4, <1>5, <1>6, <1>7, ChangeSafe

\* A thread outside a step changes only itself, and notes a send in the others.
LEMMA BesideSafe ==
  ASSUME IInv, NEW t \in Threads, NEW s \in Thread, ~InStep(thread[t]), ~InStep(s),
         thread' \in [Threads -> Thread], thread'[t] = s,
         \A u \in Threads \ {t} :
           thread'[u] = thread[u] \/ thread'[u] = [thread[u] EXCEPT !.moved = TRUE],
         \/ s.pc = "idle" /\ s.op = "none"
         \/ s.pc \in {"cancelling", "cancelled"} /\ s.op = "cancel" /\ s.gives \in Tags,
         op' \in Phases, op # "pending" => op' = op,
         UNCHANGED <<handle, locks, timers, tag, saved, asked>>,
         cancels' \in 0..MaxCancels, faults' \in 0..MaxFaults
  PROVE  IInv'
<1>1. UNCHANGED <<handle, lock, guard, due, left, quiet, tag, saved, asked>>
  BY DEF locks, timers
<1>2. ASSUME NEW u \in Threads PROVE Sound(u, thread[u], lock, guard, handle, op, due, asked)
                                     /\ thread[u] \in Thread
  BY DEF IInv, TypeOK
<1>3. ASSUME NEW u \in Threads \ {t}
      PROVE  /\ Sound(u, thread'[u], lock', guard', handle', op', due', asked')
             /\ Polls(thread'[u]) <=> Polls(thread[u])
  <2>1. /\ thread'[u] \in Thread /\ thread'[u].op = thread[u].op /\ thread'[u].pc = thread[u].pc
        /\ thread'[u].fetch = thread[u].fetch /\ thread'[u].reply = thread[u].reply
        /\ thread'[u].gives = thread[u].gives /\ (thread[u].moved => thread'[u].moved)
    BY <1>2 DEF Thread
  <2>2. Polls(thread'[u]) <=> Polls(thread[u])
    BY <2>1 DEF Polls
  <2>3. Placed(u, thread'[u], lock', guard')
    BY <1>1, <1>2, <2>1 DEF Sound, Placed, InStep
  <2>4. Said(thread[u], op) /\ thread[u].reply \in Phases => Said(thread'[u], op')
    BY <2>1 DEF Said, Phases
  <2>5. Fits(thread'[u], handle', op', due', asked')
    BY <1>1, <1>2, <2>1, <2>2, <2>4 DEF Sound, Fits
  <2> QED BY <2>2, <2>3, <2>5 DEF Sound
<1>4. /\ Sound(t, s, lock', guard', handle', op', due', asked')
      /\ ~Polls(s) /\ ~Polls(thread[t])
  <2>1. guard # t
    BY <1>2 DEF Sound, Placed, InStep, Thread
  <2>2. ~Polls(thread[t])
    BY <1>2 DEF Sound, Placed, InStep, Thread, Polls
  <2>3. Placed(t, s, lock', guard')
    BY <1>1, <2>1 DEF Placed, InStep
  <2>4. Fits(s, handle', op', due', asked') /\ ~Polls(s)
    BY DEF Fits, Polls
  <2> QED BY <2>2, <2>3, <2>4 DEF Sound
<1>5. TypeOK'
  BY <1>1 DEF IInv, TypeOK
<1>6. Outcome' /\ Together' /\ Kept' /\ (quiet = due)'
  BY <1>1 DEF IInv, Outcome, Together, Kept, Phases
<1>7. Count'
  BY <1>1, <1>3, <1>4 DEF IInv, Count
<1> QED BY <1>3, <1>4, <1>5, <1>6, <1>7 DEF IInv

LEMMA CancellingSafe == ASSUME IInv, NEW t \in Threads, Cancelling(t) PROVE IInv'
<1> DEFINE s == [Idle EXCEPT !.op = "cancel", !.pc = "cancelling", !.gives = handle.cancel]
<1>1. /\ thread[t].pc = "idle" /\ guard = Nobody /\ handle.phase = "pending" /\ Goes(t, s)
      /\ UNCHANGED <<handle, locks, timers, op, tag, saved, asked, faults>>
      /\ cancels' = cancels + 1 /\ cancels < MaxCancels
  BY DEF Cancelling, server
<1>2. handle.cancel \in Tags /\ op \in Phases /\ faults \in 0..MaxFaults
      /\ cancels' \in 0..MaxCancels /\ thread \in [Threads -> Thread] /\ ~InStep(thread[t])
  BY <1>1, PollingAssumption DEF IInv, Together, TypeOK, Sound, Placed, InStep
<1>3. /\ s \in Thread /\ s.pc = "cancelling" /\ s.op = "cancel" /\ s.gives \in Tags
      /\ ~InStep(s)
  BY <1>2 DEF Idle, Thread, Places, Values, Answers, InStep
<1>4. thread' = [thread EXCEPT ![t] = s]
  BY <1>1 DEF Goes
<1> HIDE DEF s
<1> QED BY <1>1, <1>2, <1>3, <1>4, BesideSafe

LEMMA SendCancelSafe == ASSUME IInv, NEW t \in Threads, SendCancel(t) PROVE IInv'
<1> DEFINE s == [thread[t] EXCEPT !.pc = "cancelled"]
<1>1. /\ thread[t].pc = "cancelling" /\ Sent(t, s)
      /\ UNCHANGED <<handle, locks, timers, op, tag, saved, asked, cancels, faults>>
  BY DEF SendCancel, server, bounds
<1>2. /\ thread \in [Threads -> Thread] /\ thread[t].op = "cancel" /\ thread[t].gives \in Tags
      /\ op \in Phases /\ cancels \in 0..MaxCancels /\ faults \in 0..MaxFaults
  BY <1>1 DEF IInv, TypeOK, Sound, Placed, Fits
<1>3. /\ s \in Thread /\ s.pc = "cancelled" /\ s.op = "cancel" /\ s.gives \in Tags
      /\ ~InStep(s) /\ ~InStep(thread[t])
  BY <1>2 DEF Thread, Places, InStep
<1>4. ASSUME NEW u \in Threads \ {t}
      PROVE  /\ thread'[u] = thread[u] \/ thread'[u] = [thread[u] EXCEPT !.moved = TRUE]
             /\ thread'[u] \in Thread
  BY <1>1, <1>2 DEF Sent, Thread
<1>5. thread' \in [Threads -> Thread] /\ thread'[t] = s
  <2>1. thread'[t] = s /\ thread' = [u \in Threads |-> thread'[u]]
    BY <1>1 DEF Sent
  <2> HIDE DEF s
  <2> QED BY <2>1, <1>3, <1>4
<1> HIDE DEF s
<1> QED BY <1>1, <1>2, <1>3, <1>4, <1>5, BesideSafe

LEMMA CancelEndsSafe == ASSUME IInv, NEW t \in Threads, CancelEnds(t) PROVE IInv'
<1>1. /\ thread[t].pc \in {"cancelling", "cancelled"} /\ Goes(t, Idle)
      /\ UNCHANGED <<handle, locks, timers, op, tag, saved, asked, cancels>>
      /\ faults' \in 0..MaxFaults
  BY FaultBound DEF CancelEnds, server
<1>2. /\ thread \in [Threads -> Thread] /\ ~InStep(thread[t])
      /\ op \in Phases /\ cancels \in 0..MaxCancels
  BY <1>1 DEF IInv, TypeOK, Sound, Placed, InStep
<1>3. Idle \in Thread /\ ~InStep(Idle) /\ Idle.pc = "idle" /\ Idle.op = "none"
  BY DEF Idle, Thread, Places, Values, Answers, InStep
<1>4. thread' = [thread EXCEPT ![t] = Idle]
  BY <1>1 DEF Goes
<1> QED BY <1>1, <1>2, <1>3, <1>4, BesideSafe

LEMMA CheckpointSafe == ASSUME IInv, Checkpoint PROVE IInv'
<1> DEFINE c == IF handle.phase = "pending"
                  THEN [phase |-> "pending", bound |-> handle.bound, cancel |-> handle.cancel]
                  ELSE [phase |-> "fetch", bound |-> handle.bound, cancel |-> "none"]
<1>1. /\ guard = Nobody /\ saved' = {c} /\ (handle.phase = "pending" \/ Unfetched(handle))
      /\ UNCHANGED <<handle, lock, guard, thread, due, left, quiet, op, tag, asked, cancels, faults>>
  BY DEF Checkpoint, FetchDue, Unfetched, locks, timers, server, bounds
<1>2. TypeOK'
  BY <1>1 DEF IInv, TypeOK, Handle, Checkpoints, Values
<1>3. Kept'
  BY <1>1 DEF IInv, Kept, Together, Outcome, Unfetched
<1> QED BY <1>1, <1>2, <1>3 DEF IInv, Outcome, Together, Count

LEMMA CloseSafe == ASSUME IInv, Close PROVE IInv'
<1>1. /\ handle' = [handle EXCEPT !.closed = TRUE] /\ handle \in Handle
      /\ UNCHANGED <<lock, guard, thread, due, left, quiet, op, tag, saved, asked, cancels, faults>>
  BY DEF Close, locks, timers, server, bounds, IInv, TypeOK
<1>2. /\ handle' \in Handle /\ handle'.phase = handle.phase /\ handle'.result = handle.result
      /\ handle'.polls = handle.polls /\ handle'.bound = handle.bound
      /\ handle'.cancel = handle.cancel
  BY <1>1 DEF Handle
<1>3. ASSUME NEW u \in Threads PROVE Sound(u, thread'[u], lock', guard', handle', op', due', asked')
  BY <1>1, <1>2 DEF IInv, Sound, Fits, Unfetched
<1>4. TypeOK' /\ Outcome' /\ Together' /\ Kept' /\ Count' /\ (quiet = due)'
  BY <1>1, <1>2 DEF IInv, TypeOK, Outcome, Together, Kept, Count, Unfetched
<1> QED BY <1>3, <1>4 DEF IInv

LEMMA ResumeSafe == ASSUME IInv, Resume PROVE IInv'
<1>1. PICK c \in saved :
        /\ Fault
        /\ handle' = [phase |-> IF c.phase = "fetch" THEN "succeeded" ELSE "pending",
                      bound |-> c.bound, cancel |-> c.cancel, result |-> FALSE, polls |-> 0,
                      closed |-> FALSE]
        /\ lock' = Nobody /\ guard' = Nobody /\ thread' = [t \in Threads |-> Idle]
        /\ due' = 0 /\ quiet' = 0 /\ left' \in Totals /\ asked' = 0
        /\ UNCHANGED <<op, tag, saved, cancels>>
  BY DEF Resume, server
<1>2. /\ c \in Checkpoints /\ faults' \in 0..MaxFaults
      /\ IF c.phase = "pending" THEN c.bound \in Tags /\ c.cancel = c.bound
         ELSE c.phase = "fetch" /\ c.bound = "fetch" /\ op = "succeeded"
  BY <1>1, FaultBound DEF IInv, TypeOK, Kept, Checkpoints
<1>3. handle' \in Handle
  BY <1>1, <1>2, PollingAssumption DEF Handle, Checkpoints, Phases
<1>4. ASSUME NEW u \in Threads
      PROVE  /\ Sound(u, thread'[u], lock', guard', handle', op', due', asked')
             /\ thread'[u] \in Thread /\ ~Polls(thread'[u])
  BY <1>1, IdleSound, PollingAssumption
<1>5. TypeOK'
  BY <1>1, <1>2, <1>3, <1>4, PollingAssumption DEF IInv, TypeOK
<1>6. Outcome' /\ Together' /\ Kept' /\ Count' /\ (quiet = due)'
  BY <1>1, <1>2 DEF IInv, Outcome, Together, Kept, Count, Unfetched
<1> QED BY <1>4, <1>5, <1>6 DEF IInv

LEMMA SettlesSafe == ASSUME IInv, Settles PROVE IInv'
<1>1. /\ op = "pending" /\ op' \in Phases
      /\ UNCHANGED <<handle, lock, guard, thread, due, left, quiet, tag, saved, asked, cancels, faults>>
  BY DEF Settles, locks, timers, bounds
<1>2. ASSUME NEW u \in Threads PROVE Sound(u, thread'[u], lock', guard', handle', op', due', asked')
  BY <1>1 DEF IInv, Sound, Fits, Said, Phases
<1>3. TypeOK' /\ Outcome' /\ Together' /\ Kept' /\ Count' /\ (quiet = due)'
  BY <1>1 DEF IInv, TypeOK, Outcome, Together, Kept, Count, Phases
<1> QED BY <1>2, <1>3 DEF IInv

\* An answer to a thread that waits for one.
LEMMA AnswerSafe ==
  ASSUME IInv, NEW t \in Threads, NEW s \in Thread, thread[t].pc = "waiting",
         thread[t].reply = "none", Goes(t, s),
         s.op = thread[t].op, s.pc = "waiting", s.fetch = thread[t].fetch,
         s.moved = thread[t].moved, s.reply \in Phases => ~s.fetch /\ Said(s, op),
         s.reply = "result" => s.fetch,
         UNCHANGED <<handle, locks, timers, op, saved, asked, cancels>>,
         tag' \in Tags, faults' \in 0..MaxFaults
  PROVE  IInv'
<1>1. UNCHANGED <<handle, lock, guard, due, left, quiet, op, saved, asked, cancels>>
  BY DEF locks, timers
<1>2. /\ thread[t] \in Thread /\ InStep(thread[t]) /\ lock = t /\ guard = Nobody
      /\ Fits(thread[t], handle, op, due, asked)
  BY StepFacts
<1>3. Sound(t, s, lock', guard', handle', op', due', asked')
  <2>1. Placed(t, s, lock', guard')
    BY <1>1, <1>2, PollingAssumption DEF Placed, InStep
  <2>2. Fits(s, handle', op', due', asked')
    BY <1>1, <1>2 DEF Fits, InStep, Polls
  <2> QED BY <2>1, <2>2 DEF Sound
<1>4. /\ \A u \in Threads : Sound(u, thread'[u], lock', guard', handle', op', due', asked')
      /\ thread' \in [Threads -> Thread]
  BY <1>1, <1>2, <1>3, StepSound
<1>5. TypeOK' /\ Outcome' /\ Together' /\ Kept' /\ (quiet = due)'
  BY <1>1, <1>4 DEF IInv, TypeOK, Outcome, Together, Kept
<1>6. ASSUME NEW u \in Threads PROVE Polls(thread'[u]) <=> Polls(thread[u])
  BY DEF Goes, Polls, IInv, TypeOK
<1>7. Count'
  BY <1>1, <1>6 DEF IInv, Count
<1> QED BY <1>4, <1>5, <1>7 DEF IInv

LEMMA ServePollSafe == ASSUME IInv, NEW t \in Threads, ServePoll(t) PROVE IInv'
<1>1. PICK d \in Delays :
        Goes(t, [thread[t] EXCEPT !.reply = op, !.gives = tag,
                                  !.after = IF op = "pending" THEN d ELSE 0])
  BY DEF ServePoll
<1> DEFINE s == [thread[t] EXCEPT !.reply = op, !.gives = tag,
                                  !.after = IF op = "pending" THEN d ELSE 0]
<1>2. /\ thread[t].pc = "waiting" /\ ~thread[t].fetch /\ thread[t].reply = "none"
      /\ UNCHANGED <<handle, locks, timers, op, saved, asked, cancels, faults>>
      /\ tag' = IF op = "pending" THEN CHOOSE x \in Tags : x # tag ELSE tag
  BY DEF ServePoll, bounds
<1>3. thread[t] \in Thread /\ op \in Phases /\ tag \in Tags /\ faults \in 0..MaxFaults
  BY DEF IInv, TypeOK
<1>4. tag' \in Tags
  <2>1. \E x \in Tags : x # tag
    BY DEF Tags
  <2> QED BY <2>1, <1>2, <1>3
<1>5. /\ s \in Thread /\ s.op = thread[t].op /\ s.pc = "waiting" /\ ~s.fetch
      /\ s.fetch = thread[t].fetch /\ s.moved = thread[t].moved /\ s.reply = op /\ s.gives = tag
  BY <1>2, <1>3 DEF Thread, Answers, Values
<1>6. Said(s, op) /\ s.reply # "result"
  BY <1>3, <1>5 DEF Said, Phases
<1>7. Goes(t, s)
  BY <1>1
<1> HIDE DEF s
<1> QED BY <1>2, <1>3, <1>4, <1>5, <1>6, <1>7, AnswerSafe

LEMMA ServeFetchSafe == ASSUME IInv, NEW t \in Threads, ServeFetch(t) PROVE IInv'
<1> DEFINE s == [thread[t] EXCEPT !.reply = "result"]
<1>1. /\ thread[t].pc = "waiting" /\ thread[t].fetch /\ thread[t].reply = "none" /\ Goes(t, s)
      /\ UNCHANGED <<handle, locks, timers, op, tag, saved, asked, cancels, faults>>
  BY DEF ServeFetch, bounds, server
<1>2. thread[t] \in Thread /\ tag \in Tags /\ faults \in 0..MaxFaults
  BY DEF IInv, TypeOK
<1>3. /\ s \in Thread /\ s.op = thread[t].op /\ s.pc = "waiting" /\ s.fetch
      /\ s.moved = thread[t].moved /\ s.reply = "result" /\ s.reply \notin Phases
  BY <1>1, <1>2 DEF Thread, Answers, Phases
<1> HIDE DEF s
<1> QED BY <1>1, <1>2, <1>3, AnswerSafe

LEMMA ServeErrorSafe == ASSUME IInv, NEW t \in Threads, ServeError(t) PROVE IInv'
<1>1. PICK d \in Delays : Goes(t, [thread[t] EXCEPT !.reply = "error", !.after = d])
  BY DEF ServeError
<1> DEFINE s == [thread[t] EXCEPT !.reply = "error", !.after = d]
<1>2. /\ thread[t].pc = "waiting" /\ thread[t].reply = "none" /\ faults' \in 0..MaxFaults
      /\ UNCHANGED <<handle, locks, timers, op, tag, saved, asked, cancels>>
  BY FaultBound DEF ServeError, server
<1>3. thread[t] \in Thread /\ tag \in Tags
  BY DEF IInv, TypeOK
<1>4. /\ s \in Thread /\ s.op = thread[t].op /\ s.pc = "waiting" /\ s.fetch = thread[t].fetch
      /\ s.moved = thread[t].moved /\ s.reply = "error" /\ s.reply \notin Phases
  BY <1>2, <1>3 DEF Thread, Answers, Phases
<1>5. Goes(t, s)
  BY <1>1
<1> HIDE DEF s
<1> QED BY <1>2, <1>3, <1>4, <1>5, AnswerSafe

LEMMA ServeCancelSafe == ASSUME IInv, NEW t \in Threads, ServeCancel(t) PROVE IInv'
<1> DEFINE s == [thread[t] EXCEPT !.reply = "result"]
<1>1. /\ thread[t].pc = "cancelled" /\ Goes(t, s)
      /\ op' \in {op, IF op = "pending" THEN "cancelled" ELSE op}
      /\ UNCHANGED <<handle, locks, timers, tag, saved, asked, cancels, faults>>
  BY DEF ServeCancel, bounds
<1>2. /\ thread \in [Threads -> Thread] /\ thread[t].op = "cancel" /\ thread[t].gives \in Tags
      /\ op \in Phases /\ cancels \in 0..MaxCancels /\ faults \in 0..MaxFaults
  BY <1>1 DEF IInv, TypeOK, Sound, Placed, Fits
<1>3. /\ s \in Thread /\ s.pc = "cancelled" /\ s.op = "cancel" /\ s.gives \in Tags
      /\ ~InStep(s) /\ ~InStep(thread[t])
  BY <1>1, <1>2 DEF Thread, Answers, InStep
<1>4. thread' = [thread EXCEPT ![t] = s] /\ op' \in Phases /\ (op # "pending" => op' = op)
  BY <1>1, <1>2 DEF Goes, Phases
<1> HIDE DEF s
<1> QED BY <1>1, <1>2, <1>3, <1>4, BesideSafe

LEMMA TickSafe == ASSUME IInv, Tick PROVE IInv'
<1>1. /\ due' = Less(due) /\ quiet' = Less(quiet)
      /\ left' = IF Deadline THEN Less(left) ELSE left
      /\ UNCHANGED <<handle, lock, guard, thread, op, tag, saved, asked, cancels, faults>>
  BY DEF Tick, locks, server, bounds
<1>2. due \in Nat /\ quiet = due /\ left \in Nat \cup {Never}
  BY DEF IInv, TypeOK
<1>3. due' \in Nat /\ quiet' = due' /\ left' \in Nat \cup {Never} /\ (due = 0 => due' = 0)
  BY <1>1, <1>2 DEF Less, Deadline, Never
<1>4. ASSUME NEW u \in Threads PROVE Sound(u, thread'[u], lock', guard', handle', op', due', asked')
  BY <1>1, <1>3 DEF IInv, Sound, Fits
<1>5. TypeOK' /\ Outcome' /\ Together' /\ Kept' /\ Count'
  BY <1>1, <1>3 DEF IInv, TypeOK, Outcome, Together, Kept, Count
<1> QED BY <1>3, <1>4, <1>5 DEF IInv
-----------------------------------------------------------------------------
LEMMA InitSafe == Init => IInv
<1> SUFFICES ASSUME Init PROVE IInv
  OBVIOUS
<1>1. /\ handle \in Handle /\ handle.phase = "pending" /\ ~handle.result /\ handle.polls = 0
      /\ handle.bound = "a" /\ handle.cancel = "a"
  BY PollingAssumption DEF Init, Handle, Phases, Values, Tags
<1>2. ASSUME NEW u \in Threads
      PROVE  /\ Sound(u, thread[u], lock, guard, handle, op, due, asked)
             /\ thread[u] \in Thread /\ ~Polls(thread[u])
  BY IdleSound, PollingAssumption DEF Init
<1>3. TypeOK
  BY <1>1, <1>2, PollingAssumption DEF Init, TypeOK, Phases, Tags
<1>4. Outcome /\ Together /\ Kept /\ Count /\ quiet = due
  BY <1>1 DEF Init, Outcome, Together, Kept, Count, Unfetched, Tags
<1> QED BY <1>2, <1>3, <1>4 DEF IInv

LEMMA NextSafe == IInv /\ [Next]_vars => IInv'
<1> SUFFICES ASSUME IInv, [Next]_vars PROVE IInv'
  OBVIOUS
<1>1. ASSUME NEW t \in Threads, Enter(t) \/ Stepping(t) PROVE IInv'
  BY <1>1, EnterSafe, CheckSafe, DueSafe, WakeSafe, AskSafe, RaisesSafe, LostSafe,
     InterruptSafe, PolledSafe, SettleBoundSafe, SettleCancelSafe, FetchedSafe DEF Stepping
<1>2. ASSUME NEW t \in Threads, RemoteCancel(t) \/ Serve(t) PROVE IInv'
  BY <1>2, CancellingSafe, SendCancelSafe, CancelEndsSafe, ServePollSafe, ServeFetchSafe,
     ServeErrorSafe, ServeCancelSafe DEF RemoteCancel, Serve
<1>3. CASE UNCHANGED vars
  BY <1>3 DEF vars, locks, timers, server, bounds, IInv, TypeOK, Outcome, Together, Kept, Count
<1> QED
  BY <1>1, <1>2, <1>3, CheckpointSafe, CloseSafe, ResumeSafe, SettlesSafe, TickSafe DEF Next

LEMMA Invariance == Spec => []IInv
BY InitSafe, NextSafe, PTL DEF Spec

\* The state of the handle and its threads is always well typed.
THEOREM PollingTypeCorrect == Spec => []TypeOK
<1>1. IInv => TypeOK
  BY DEF IInv
<1> QED BY <1>1, Invariance, PTL

\* A handle is settled only by what the server said, and has a result only of a success.
THEOREM OutcomeTrue == Spec => []OutcomeIsServers
<1>1. IInv => OutcomeIsServers
  BY DEF IInv, Outcome, OutcomeIsServers
<1> QED BY <1>1, Invariance, PTL

\* A checkpoint or a remote cancel carries the values of one response.
THEOREM OneResponse == Spec => []ReadTogether
<1>1. IInv => ReadTogether
  BY DEF IInv, Kept, Sound, Placed, Fits, ReadTogether
<1> QED BY <1>1, Invariance, PTL

\* A session never sends more than max_polls polls.
THEOREM PollLimit == Spec => []PollsBounded
<1>1. IInv => PollsBounded
  <2> SUFFICES ASSUME IInv PROVE asked <= MaxPolls
    BY DEF PollsBounded
  <2>1. handle.polls \in 0..MaxPolls /\ asked \in 0..(MaxPolls + 1)
    BY DEF IInv, TypeOK, Handle
  <2>2. CASE \A t \in Threads : ~Polls(thread[t])
    BY <2>1, <2>2, PollingAssumption DEF IInv, Count
  <2>3. CASE \E t \in Threads : Polls(thread[t])
    <3>1. PICK t \in Threads : Polls(thread[t])
      BY <2>3
    <3>2. asked <= handle.polls + 1 /\ handle.polls < MaxPolls
      BY <3>1 DEF IInv, Sound, Fits, Polls
    <3> QED BY <2>1, <3>2, PollingAssumption
  <2> QED BY <2>2, <2>3
<1> QED BY <1>1, Invariance, PTL
-----------------------------------------------------------------------------
\* Only Ask takes a thread from sending to waiting.
LEMMA AsksOnly ==
  ASSUME IInv, Next, NEW t \in Threads, thread[t].pc = "sending", thread'[t].pc = "waiting"
  PROVE  Ask(t)
<1>1. thread \in [Threads -> Thread]
  BY DEF IInv, TypeOK
<1>2. ASSUME NEW u \in Threads, Enter(u) PROVE FALSE
  BY <1>1, <1>2 DEF Enter, Goes, Idle
<1>3. ASSUME NEW u \in Threads, Stepping(u), ~Ask(u) PROVE FALSE
  <2>1. CASE Check(u) \/ Due(u) \/ Wake(u)
    BY <1>1, <2>1 DEF Check, Due, Wake, Leave, Goes, Idle, Thread
  <2>2. CASE Raises(u) \/ Lost(u) \/ Interrupt(u) \/ Fetched(u)
    BY <1>1, <2>2 DEF Raises, Lost, Interrupt, Fetched, Leave, Goes, Idle, Thread
  <2>3. CASE Polled(u) \/ SettleBound(u) \/ SettleCancel(u)
    BY <1>1, <2>3 DEF Polled, SettleBound, SettleCancel, Moves, Leave, Goes, Idle, Thread
  <2> QED BY <1>3, <2>1, <2>2, <2>3 DEF Stepping
<1>4. ASSUME NEW u \in Threads, Ask(u), u # t PROVE FALSE
  BY <1>1, <1>4 DEF Ask, Sent, Thread
<1>5. ASSUME NEW u \in Threads, RemoteCancel(u) PROVE FALSE
  BY <1>1, <1>5 DEF RemoteCancel, Cancelling, SendCancel, CancelEnds, Sent, Goes, Idle, Thread
<1>6. ASSUME NEW u \in Threads, Serve(u) PROVE FALSE
  BY <1>1, <1>6 DEF Serve, ServePoll, ServeFetch, ServeError, ServeCancel, Goes, Thread
<1>7. CASE Checkpoint \/ Close \/ Settles \/ Tick
  BY <1>7 DEF Checkpoint, Close, Settles, Tick
<1>8. CASE Resume
  BY <1>8 DEF Resume, Idle
<1> QED BY <1>2, <1>3, <1>4, <1>5, <1>6, <1>7, <1>8 DEF Next

\* A poll is sent of a pending handle, a fetch of one that is due, and neither early.
LEMMA AskDue ==
  ASSUME IInv, NEW t \in Threads, Ask(t)
  PROVE  (handle.phase = "pending" \/ FetchDue) /\ quiet = 0
<1>1. Fits(thread[t], handle, op, due, asked) /\ thread[t].pc = "sending" /\ quiet = due
  BY DEF Ask, IInv, Sound
<1> QED BY <1>1 DEF Fits, FetchDue, Unfetched

\* The phase and the result of a settled handle stay.
LEMMA Final ==
  ASSUME IInv, Next, ~Resume
  PROVE  /\ handle.phase # "pending" => handle'.phase = handle.phase
         /\ handle.result => handle'.result
<1>1. handle \in Handle
  BY DEF IInv, TypeOK
<1>2. CASE UNCHANGED handle
  BY <1>2
<1>3. ASSUME NEW t \in Threads, Raises(t) \/ Lost(t)
      PROVE  handle'.phase = handle.phase /\ handle'.result = handle.result
  <2>1. handle' = Counted(t)
    BY <1>3 DEF Raises, Lost
  <2> QED BY <1>1, <2>1 DEF Counted, Handle
<1>4. ASSUME NEW t \in Threads, Polled(t) PROVE handle.phase = "pending" /\ ~handle.result
  <2>1. thread[t].pc = "waiting" /\ thread[t].reply \in Phases
    BY <1>4 DEF Polled
  <2>2. Fits(thread[t], handle, op, due, asked)
    BY DEF IInv, Sound
  <2>3. handle.phase = "pending"
    BY <2>1, <2>2 DEF Fits
  <2> QED BY <2>3 DEF IInv, Outcome
<1>5. ASSUME NEW t \in Threads, SettleBound(t)
      PROVE  handle'.phase = handle.phase /\ ~handle.result
  <2>1. Fits(thread[t], handle, op, due, asked)
    BY DEF IInv, Sound
  <2> QED BY <1>1, <1>5, <2>1 DEF SettleBound, Fits, Handle
<1>6. ASSUME NEW t \in Threads, SettleCancel(t)
      PROVE  handle'.phase = handle.phase /\ handle'.result = handle.result
  BY <1>1, <1>6 DEF SettleCancel, Handle
<1>7. ASSUME NEW t \in Threads, Fetched(t) PROVE handle'.phase = handle.phase /\ handle'.result
  BY <1>1, <1>7 DEF Fetched, Handle
<1>8. ASSUME NEW t \in Threads,
             Enter(t) \/ Check(t) \/ Due(t) \/ Wake(t) \/ Ask(t) \/ Interrupt(t)
      PROVE  UNCHANGED handle
  BY <1>8 DEF Enter, Check, Due, Wake, Ask, Interrupt
<1>9. ASSUME NEW t \in Threads, RemoteCancel(t) \/ Serve(t) PROVE UNCHANGED handle
  BY <1>9 DEF RemoteCancel, Cancelling, SendCancel, CancelEnds, Serve, ServePoll, ServeFetch,
              ServeError, ServeCancel
<1>10. Checkpoint \/ Settles \/ Tick => UNCHANGED handle
  BY DEF Checkpoint, Settles, Tick
<1>11. Close => handle'.phase = handle.phase /\ handle'.result = handle.result
  BY <1>1 DEF Close, Handle
<1> QED
  BY <1>2, <1>3, <1>4, <1>5, <1>6, <1>7, <1>8, <1>9, <1>10, <1>11 DEF Next, Stepping

\* A settled handle stays settled and sends nothing but a result fetch that is due.
THEOREM Settled == Spec => SettledStays
<1> DEFINE A == Resume \/
                /\ handle.phase # "pending" => handle'.phase = handle.phase
                /\ handle.result => handle'.result
                /\ \A t \in Threads :
                     thread[t].pc = "sending" /\ thread'[t].pc = "waiting" =>
                       handle.phase = "pending" \/ FetchDue
<1>1. IInv /\ [Next]_vars => [A]_vars
  BY AsksOnly, AskDue, Final
<1> HIDE DEF A
<1>2. Spec => [][A]_vars
  BY <1>1, Invariance, PTL DEF Spec
<1> QED BY <1>2 DEF SettledStays, A

\* No poll, and no result fetch, is sent before the time the last response asked for.
THEOREM NotEarly == Spec => NeverEarly
<1> DEFINE A == \A t \in Threads :
                  thread[t].pc = "sending" /\ thread'[t].pc = "waiting" => quiet = 0
<1>1. IInv /\ [Next]_vars => [A]_vars
  BY AsksOnly, AskDue
<1> HIDE DEF A
<1>2. Spec => [][A]_vars
  BY <1>1, Invariance, PTL DEF Spec
<1> QED BY <1>2 DEF NeverEarly, A
=============================================================================
