------------------------------- MODULE Polling -------------------------------
(***************************************************************************)
(* The handle of a long-running operation (_runtime/protocols/polling.py): *)
(* threads or tasks poll it, wait for it, cancel it remotely, checkpoint   *)
(* and close it at once.  One step at a time holds the step lock, across   *)
(* its waits and calls; a short guard holds what a step settles together.  *)
(* Time is in intervals; a call and its own retries are one request.       *)
(***************************************************************************)
EXTENDS Integers

CONSTANTS
  Threads,    \* the threads or tasks that use the handle
  Nobody,     \* the holder of a free lock
  Delays,     \* the waits responses ask for, the interval being the least of them
  MaxPolls,   \* max_polls
  MaxWait,    \* max_wait
  Totals,     \* the total_timeouts a session may be given, Never for none
  HasFetch,   \* a success fetches its result; otherwise the final poll carries it
  MaxFaults,  \* bound: lost and refused calls, error answers, interrupts, crashes
  MaxCancels  \* bound: remote cancels

Never == -1

ASSUME PollingAssumption ==
  /\ Nobody \notin Threads
  /\ Delays \subseteq Nat \ {0} /\ Delays # {}
  /\ MaxPolls \in Nat \ {0} /\ MaxWait \in Nat
  /\ Totals \subseteq (Nat \ {0}) \cup {Never} /\ Totals # {}
  /\ HasFetch \in BOOLEAN
  /\ MaxFaults \in Nat /\ MaxCancels \in Nat

VARIABLES
  handle,   \* the handle's attributes
  lock,     \* who holds _lock
  guard,    \* who holds _guard
  thread,   \* what each thread is doing
  due,      \* the time left until _not_before
  left,     \* the time left until the session's deadline, Never without one
  op,       \* the remote operation
  tag,      \* the values its next pending response gives
  saved,    \* the checkpoint the application keeps, if any
  asked,    \* polls the session really sent
  quiet,    \* the time left of what the last response asked for
  cancels, faults

locks   == <<lock, guard>>
server  == <<op, tag>>
timers  == <<due, left, quiet>>
bounds  == <<cancels, faults>>
vars    == <<handle, locks, thread, timers, server, saved, asked, bounds>>

Phases   == {"pending", "succeeded", "failed", "cancelled"}
Tags     == {"a", "b"}  \* two responses in turn give different values
Values   == Tags \cup {"fetch", "none"}

Handle ==
  [phase:  Phases,           \* _phase
   bound:  Values,           \* _bound: what the next poll, or the result fetch, writes
   cancel: Values,           \* _cancel: what a remote cancel writes
   result: BOOLEAN,          \* _result is there
   polls:  0..MaxPolls,      \* _polls
   closed: BOOLEAN]          \* _closed

Answers == Phases \cup {"none", "error", "result"}
Places  == {"idle", "checking", "due", "sleeping", "sending", "waiting", "settling", "binding",
            "cancelling", "cancelled"}

Thread ==
  [op:    {"none", "status", "wait", "cancel"},
   pc:    Places,
   fetch: BOOLEAN,           \* its call is the result fetch
   moved: BOOLEAN,           \* the session sent since the poll began: sends > admitted
   reply: Answers,           \* the answer to its call
   after: Delays \cup {0},   \* how long the answer asks to wait
   gives: Values]            \* the values the answer, or the cancel, carries

Checkpoints == [phase: {"pending", "fetch"}, bound: Values, cancel: Values]

TypeOK ==
  /\ handle \in Handle /\ thread \in [Threads -> Thread]
  /\ lock \in Threads \cup {Nobody} /\ guard \in Threads \cup {Nobody}
  /\ due \in Nat /\ quiet \in Nat /\ left \in Nat \cup {Never}
  /\ op \in Phases /\ tag \in Tags /\ saved \subseteq Checkpoints
  /\ asked \in 0..(MaxPolls + 1)
  /\ cancels \in 0..MaxCancels /\ faults \in 0..MaxFaults

Idle == [op |-> "none", pc |-> "idle", fetch |-> FALSE, moved |-> FALSE, reply |-> "none",
         after |-> 0, gives |-> "none"]

\* `start` returned: _created settled a pending response of the create call.
Init ==
  /\ handle = [phase |-> "pending", bound |-> "a", cancel |-> "a", result |-> FALSE,
               polls |-> 0, closed |-> FALSE]
  /\ lock = Nobody /\ guard = Nobody
  /\ thread = [t \in Threads |-> Idle]
  /\ due \in Delays /\ quiet = due /\ left \in Totals
  /\ op = "pending" /\ tag = "b" /\ saved = {} /\ asked = 0
  /\ cancels = 0 /\ faults = 0

Fault == faults < MaxFaults /\ faults' = faults + 1
Deadline == left # Never
Expired == left = 0
Goes(t, s) == thread' = [thread EXCEPT ![t] = s]
Moves(t, pc) == Goes(t, [thread[t] EXCEPT !.pc = pc])

\* Every request of the session counts as a send for the poll under way, whoever sends it.
Sent(t, s) ==
  thread' = [u \in Threads |-> IF u = t THEN s
                               ELSE IF thread[u].op \in {"status", "wait"}
                                 THEN [thread[u] EXCEPT !.moved = TRUE] ELSE thread[u]]
-----------------------------------------------------------------------------
(* status and wait                                                         *)

\* Mutant: a step does not take the handle for itself.
EnterUnlocked(t) ==
  /\ thread[t].pc = "idle" /\ ~handle.closed
  /\ \E o \in {"status", "wait"} : Goes(t, [Idle EXCEPT !.op = o, !.pc = "checking"])
  /\ lock' = t
  /\ UNCHANGED <<handle, guard, timers, server, saved, asked, bounds>>

\* _enter: a step of another thread, or a closed handle, refuses it.
Enter(t) ==
  /\ thread[t].pc = "idle" /\ lock = Nobody /\ ~handle.closed
  /\ \E o \in {"status", "wait"} : Goes(t, [Idle EXCEPT !.op = o, !.pc = "checking"])
  /\ lock' = t
  /\ UNCHANGED <<handle, guard, timers, server, saved, asked, bounds>>

\* The step returns or raises, and frees the handle.
Leave(t) == Goes(t, Idle) /\ lock' = Nobody

\* Mutant: a failed or cancelled operation has its result fetched.
CheckAny(t) ==
  LET fetches == handle.phase # "pending" /\ ~handle.result /\ thread[t].op = "wait" IN
  /\ thread[t].pc = "checking"
  /\ \/ /\ handle.phase = "pending" \/ fetches
        /\ Goes(t, [thread[t] EXCEPT !.pc = "due", !.fetch = fetches])
        /\ UNCHANGED lock
     \/ handle.phase # "pending" /\ ~fetches /\ Leave(t)
  /\ UNCHANGED <<handle, guard, timers, server, saved, asked, bounds>>

\* A settled handle sends nothing but a result fetch that is due.
Check(t) ==
  LET fetches == handle.phase = "succeeded" /\ ~handle.result /\ thread[t].op = "wait" IN
  /\ thread[t].pc = "checking"
  /\ \/ /\ handle.phase = "pending" \/ fetches
        /\ Goes(t, [thread[t] EXCEPT !.pc = "due", !.fetch = fetches])
        /\ UNCHANGED lock
     \/ handle.phase # "pending" /\ ~fetches /\ Leave(t)
  /\ UNCHANGED <<handle, guard, timers, server, saved, asked, bounds>>

\* Mutant: one poll more than the limit is let through.
DueOver(t) ==
  LET spent    == ~thread[t].fetch /\ handle.polls > MaxPolls
      too_long == due > 0 /\ (due > MaxWait \/ (Deadline /\ due >= left))
  IN
  /\ thread[t].pc = "due"
  /\ \/ (spent \/ too_long) /\ Leave(t)
     \/ /\ ~spent /\ ~too_long
        /\ Goes(t, [thread[t] EXCEPT !.pc = IF due > 0 THEN "sleeping" ELSE "sending",
                                     !.moved = FALSE])
        /\ UNCHANGED lock
  /\ UNCHANGED <<handle, guard, timers, server, saved, asked, bounds>>

\* _due: the poll limit and a wait longer than is allowed, or than the deadline leaves,
\* raise before anything is sent.
Due(t) ==
  LET spent    == ~thread[t].fetch /\ handle.polls >= MaxPolls
      too_long == due > 0 /\ (due > MaxWait \/ (Deadline /\ due >= left))
  IN
  /\ thread[t].pc = "due"
  /\ \/ (spent \/ too_long) /\ Leave(t)
     \/ /\ ~spent /\ ~too_long
        /\ Goes(t, [thread[t] EXCEPT !.pc = IF due > 0 THEN "sleeping" ELSE "sending",
                                     !.moved = FALSE])
        /\ UNCHANGED lock
  /\ UNCHANGED <<handle, guard, timers, server, saved, asked, bounds>>

\* sleep_until; the session's sends are read once it is over.
Wake(t) ==
  /\ thread[t].pc = "sleeping" /\ due = 0
  /\ IF Expired THEN Leave(t)
     ELSE Goes(t, [thread[t] EXCEPT !.pc = "sending", !.moved = FALSE]) /\ UNCHANGED lock
  /\ UNCHANGED <<handle, guard, timers, server, saved, asked, bounds>>

\* The poll or the fetch is admitted and sent.
Ask(t) ==
  /\ thread[t].pc = "sending" /\ ~Expired
  /\ Sent(t, [thread[t] EXCEPT !.pc = "waiting", !.moved = TRUE])
  /\ asked' = IF thread[t].fetch \/ asked > MaxPolls THEN asked ELSE asked + 1
  /\ UNCHANGED <<handle, locks, timers, server, saved, bounds>>

\* Mutant: no poll is counted.
CountedNever(t) == handle

\* _counted
Counted(t) ==
  IF thread[t].fetch \/ ~thread[t].moved THEN handle ELSE [handle EXCEPT !.polls = @ + 1]

\* Mutant: an error leaves the time of the next poll as it was.
FailedEarly(t) == due

\* _failed: an error with a response is waited out as any response is.
Failed(t) == thread[t].after

\* Mutant: a poll an error answers is not counted.
RaisesUncounted(t) ==
  /\ thread[t].pc = "waiting" /\ thread[t].reply = "error"
  /\ due' = Failed(t) /\ quiet' = thread[t].after
  /\ Leave(t)
  /\ UNCHANGED <<handle, guard, left, server, saved, asked, bounds>>

\* The call raises an error that has a response.
Raises(t) ==
  /\ thread[t].pc = "waiting" /\ thread[t].reply = "error"
  /\ handle' = Counted(t)
  /\ due' = Failed(t) /\ quiet' = thread[t].after
  /\ Leave(t)
  /\ UNCHANGED <<guard, left, server, saved, asked, bounds>>

\* It is refused before it is sent, its answer is lost, or an interrupt, or a cancelled
\* task, drops it.
Lost(t) ==
  /\ \/ thread[t].pc \in {"sending", "waiting"} /\ Fault
     \/ thread[t].pc = "sending" /\ Expired /\ UNCHANGED faults
  /\ handle' = Counted(t)
  /\ Leave(t)
  /\ UNCHANGED <<guard, timers, server, saved, asked, cancels>>

\* A wait for the next poll is interrupted.
Interrupt(t) ==
  /\ thread[t].pc = "sleeping" /\ Fault
  /\ Leave(t)
  /\ UNCHANGED <<handle, guard, timers, server, saved, asked, cancels>>

\* A poll's answer is read and counted; _settle takes the guard, and writes the phase,
Polled(t) ==
  /\ thread[t].pc = "waiting" /\ thread[t].reply \in Phases /\ guard = Nobody
  /\ handle' = [Counted(t) EXCEPT !.phase = thread[t].reply]
  /\ due' = thread[t].after /\ quiet' = thread[t].after
  /\ guard' = t /\ Moves(t, "settling")
  /\ UNCHANGED <<lock, left, server, saved, asked, bounds>>

\* then what the next request writes and the result,
SettleBound(t) ==
  LET r == thread[t].reply IN
  /\ thread[t].pc = "settling"
  /\ handle' = [handle EXCEPT
       !.bound = IF r = "pending" THEN thread[t].gives
                 ELSE IF r = "succeeded" /\ HasFetch THEN "fetch" ELSE "none",
       !.result = r = "succeeded" /\ ~HasFetch]
  /\ Moves(t, "binding")
  /\ UNCHANGED <<locks, timers, server, saved, asked, bounds>>

\* then what a cancel writes, and frees the guard; `wait` goes on, `status` returns.
SettleCancel(t) ==
  /\ thread[t].pc = "binding"
  /\ handle' = [handle EXCEPT
       !.cancel = IF thread[t].reply = "pending" THEN thread[t].gives ELSE "none"]
  /\ guard' = Nobody
  /\ IF thread[t].op = "wait"
       THEN Goes(t, [Idle EXCEPT !.op = "wait", !.pc = "checking"]) /\ UNCHANGED lock
       ELSE Leave(t)
  /\ UNCHANGED <<timers, server, saved, asked, bounds>>

\* _fetched: the result is kept, and `wait` returns it.
Fetched(t) ==
  /\ thread[t].pc = "waiting" /\ thread[t].reply = "result" /\ guard = Nobody
  /\ handle' = [handle EXCEPT !.result = TRUE, !.bound = "none"]
  /\ Leave(t)
  /\ UNCHANGED <<guard, timers, server, saved, asked, bounds>>
-----------------------------------------------------------------------------
(* cancel_remote, checkpoint, close and resume                             *)

\* _cancelling, while another thread's step may wait or send
Cancelling(t) ==
  /\ thread[t].pc = "idle" /\ guard = Nobody /\ ~handle.closed /\ handle.phase = "pending"
  /\ cancels < MaxCancels /\ cancels' = cancels + 1
  /\ Goes(t, [Idle EXCEPT !.op = "cancel", !.pc = "cancelling", !.gives = handle.cancel])
  /\ UNCHANGED <<handle, locks, timers, server, saved, asked, faults>>

SendCancel(t) ==
  /\ thread[t].pc = "cancelling" /\ ~Expired
  /\ Sent(t, [thread[t] EXCEPT !.pc = "cancelled"])
  /\ UNCHANGED <<handle, locks, timers, server, saved, asked, bounds>>

\* The receipt, or an error, of the cancel; the handle stays as it is.
CancelEnds(t) ==
  /\ \/ thread[t].pc = "cancelled" /\ thread[t].reply # "none" /\ UNCHANGED faults
     \/ thread[t].pc = "cancelling" /\ Expired /\ UNCHANGED faults
     \/ thread[t].pc \in {"cancelling", "cancelled"} /\ Fault
  /\ Goes(t, Idle)
  /\ UNCHANGED <<handle, locks, timers, server, saved, asked, cancels>>

FetchDue == handle.phase = "succeeded" /\ ~handle.result

\* Mutant: the checkpoint is read without the guard.
CheckpointUnguarded ==
  /\ handle.phase = "pending" \/ FetchDue
  /\ saved' = {IF handle.phase = "pending"
                 THEN [phase |-> "pending", bound |-> handle.bound, cancel |-> handle.cancel]
                 ELSE [phase |-> "fetch", bound |-> handle.bound, cancel |-> "none"]}
  /\ UNCHANGED <<handle, locks, thread, timers, server, asked, bounds>>

\* checkpoint, by any thread, closed or not
Checkpoint ==
  /\ guard = Nobody
  /\ handle.phase = "pending" \/ FetchDue
  /\ saved' = {IF handle.phase = "pending"
                 THEN [phase |-> "pending", bound |-> handle.bound, cancel |-> handle.cancel]
                 ELSE [phase |-> "fetch", bound |-> handle.bound, cancel |-> "none"]}
  /\ UNCHANGED <<handle, locks, thread, timers, server, asked, bounds>>

\* close, which is refused while a step runs
Close ==
  /\ lock = Nobody /\ ~handle.closed
  /\ handle' = [handle EXCEPT !.closed = TRUE]
  /\ UNCHANGED <<locks, thread, timers, server, saved, asked, bounds>>

\* The process dies, or drops the handle, and resumes a checkpoint in a session of its own.
Resume ==
  \E c \in saved :
    /\ Fault
    /\ handle' = [phase |-> IF c.phase = "fetch" THEN "succeeded" ELSE "pending",
                  bound |-> c.bound, cancel |-> c.cancel, result |-> FALSE, polls |-> 0,
                  closed |-> FALSE]
    /\ lock' = Nobody /\ guard' = Nobody /\ thread' = [t \in Threads |-> Idle]
    /\ due' = 0 /\ quiet' = 0 /\ left' \in Totals /\ asked' = 0
    /\ UNCHANGED <<server, saved, cancels>>
-----------------------------------------------------------------------------
(* The server and time, external to the client                             *)

Settles ==
  /\ op = "pending" /\ op' \in Phases \ {"pending"}
  /\ UNCHANGED <<handle, locks, thread, timers, tag, saved, asked, bounds>>

\* A poll is answered with the operation's state and, while that is pending, its next
\* values and a delay.
ServePoll(t) ==
  /\ thread[t].pc = "waiting" /\ ~thread[t].fetch /\ thread[t].reply = "none"
  /\ \E d \in Delays :
       Goes(t, [thread[t] EXCEPT !.reply = op, !.gives = tag,
                                 !.after = IF op = "pending" THEN d ELSE 0])
  /\ tag' = IF op = "pending" THEN CHOOSE x \in Tags : x # tag ELSE tag
  /\ UNCHANGED <<handle, locks, timers, op, saved, asked, bounds>>

ServeFetch(t) ==
  /\ thread[t].pc = "waiting" /\ thread[t].fetch /\ thread[t].reply = "none"
  /\ Goes(t, [thread[t] EXCEPT !.reply = "result"])
  /\ UNCHANGED <<handle, locks, timers, server, saved, asked, bounds>>

\* An error status, or a body the helper cannot use
ServeError(t) ==
  /\ thread[t].pc = "waiting" /\ thread[t].reply = "none" /\ Fault
  /\ \E d \in Delays : Goes(t, [thread[t] EXCEPT !.reply = "error", !.after = d])
  /\ UNCHANGED <<handle, locks, timers, server, saved, asked, cancels>>

\* The server cancels the operation, or accepts the request for later.
ServeCancel(t) ==
  /\ thread[t].pc = "cancelled" /\ thread[t].reply = "none"
  /\ Goes(t, [thread[t] EXCEPT !.reply = "result"])
  /\ op' \in {op, IF op = "pending" THEN "cancelled" ELSE op}
  /\ UNCHANGED <<handle, locks, timers, tag, saved, asked, bounds>>

Less(n) == IF n > 0 THEN n - 1 ELSE 0

Tick ==
  /\ due > 0 \/ quiet > 0 \/ (Deadline /\ left > 0)
  /\ due' = Less(due) /\ quiet' = Less(quiet) /\ left' = IF Deadline THEN Less(left) ELSE left
  /\ UNCHANGED <<handle, locks, thread, server, saved, asked, bounds>>
-----------------------------------------------------------------------------
\* The steps of both handles: the asynchronous one makes the same calls in the same order.
Stepping(t) ==
  \/ Check(t) \/ Due(t) \/ Wake(t) \/ Ask(t) \/ Raises(t) \/ Lost(t) \/ Interrupt(t)
  \/ Polled(t) \/ SettleBound(t) \/ SettleCancel(t) \/ Fetched(t)

RemoteCancel(t) == Cancelling(t) \/ SendCancel(t) \/ CancelEnds(t)

Serve(t) == ServePoll(t) \/ ServeFetch(t) \/ ServeError(t) \/ ServeCancel(t)

Next ==
  \/ \E t \in Threads : Enter(t) \/ Stepping(t) \/ RemoteCancel(t) \/ Serve(t)
  \/ Checkpoint \/ Close \/ Resume \/ Settles \/ Tick

Spec == Init /\ [][Next]_vars

\* A thread in a step goes on with it, the server answers, and time passes.
FairSpec ==
  /\ Spec /\ WF_vars(Tick)
  /\ \A t \in Threads : WF_vars(Stepping(t)) /\ WF_vars(Serve(t))
-----------------------------------------------------------------------------
(* Properties                                                              *)

\* A handle is settled only by what the server said: success is never inferred, and a
\* result is there only when the operation succeeded (_polled, _settle).
OutcomeIsServers ==
  /\ handle.phase # "pending" => handle.phase = op
  /\ handle.result => op = "succeeded"

\* A settled handle stays settled, whichever threads step it: no later or slower answer
\* takes the phase or the result back, and it sends nothing but one result fetch.
SettledStays ==
  [][Resume \/
     /\ handle.phase # "pending" => handle'.phase = handle.phase
     /\ handle.result => handle'.result
     /\ \A t \in Threads :
          thread[t].pc = "sending" /\ thread'[t].pc = "waiting" =>
            handle.phase = "pending" \/ FetchDue]_vars

\* What is checkpointed, or sent by a remote cancel, while another thread settles a poll
\* comes from one response: a resumed handle never polls with the values of another phase.
ReadTogether ==
  /\ \A c \in saved :
       IF c.phase = "pending" THEN c.bound \in Tags /\ c.cancel = c.bound
       ELSE c.bound = "fetch"
  /\ \A t \in Threads : thread[t].pc \in {"cancelling", "cancelled"} => thread[t].gives \in Tags

\* No poll or fetch is sent before the time the last response to this handle asked for,
\* an error's included, whichever thread, or later step, sends it (_after, _failed, _due).
NeverEarly ==
  [][\A t \in Threads :
       thread[t].pc = "sending" /\ thread'[t].pc = "waiting" => quiet = 0]_vars

\* A session sends max_polls polls at most, those that failed or got no answer included.
PollsBounded == asked <= MaxPolls

\* The documentation of progress: it reports the polls sent, and counts none that was
\* refused before it was sent.
CountsOnlyPolls == handle.polls <= asked

\* A wait ends, even for an operation that never settles: it settles, or reaches a limit.
WaitEnds == \A t \in Threads : thread[t].op = "wait" ~> thread[t].op # "wait"
=============================================================================
