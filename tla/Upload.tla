------------------------------- MODULE Upload -------------------------------
(***************************************************************************)
(* A resumable upload of the offset profile (_runtime/protocols/uploads.py)*)
(* handles append the chunks of one source to one upload on a server, over *)
(* a network that loses and delays requests.  A request whose caller gave  *)
(* up stays on the wire addressed to Nobody and may still be served.       *)
(* Processes crash and resume from the last checkpoint kept; with several  *)
(* handles, a process taken for dead goes on beside the one resumed.       *)
(***************************************************************************)
EXTENDS Integers, FiniteSets

CONSTANTS
  Handles,        \* the handles of the upload, each in a process of its own
  First,          \* the handle `start` returned; the others are resumed
  Nobody,         \* the caller of a request nobody waits for any more
  Size, Chunk,    \* the content's size and the chunk size, in bytes
  PartialCommit,  \* partial_commit: the server may keep part of a chunk
  HasCompletion,  \* the helper declares a completion operation
  Retries,        \* shared retries of a completion an error status answered
  Lengths,        \* the sizes the borrowed source may have later on
  MaxFaults,      \* bound: lost calls, error answers, crashes
  MaxCompletions  \* bound: completion calls

ASSUME UploadAssumption ==
  /\ First \in Handles /\ Nobody \notin Handles
  /\ Size \in Nat /\ Chunk \in Nat \ {0}
  /\ PartialCommit \in BOOLEAN /\ HasCompletion \in BOOLEAN
  /\ Retries \in Nat /\ MaxFaults \in Nat /\ MaxCompletions \in Nat
  /\ Lengths \subseteq Nat

VARIABLES
  handle,   \* each handle's attributes, the place of its step and its call's answer
  wire,     \* appends on their way to the server
  finals,   \* completions on their way to the server
  remote,   \* the server's offset
  applied,  \* the completion calls the server applied
  calls,    \* completion calls made so far
  saved,    \* the checkpoint the application keeps, if any
  length,   \* the source's size now
  faults

vars == <<handle, wire, finals, remote, applied, calls, saved, length, faults>>

Offsets == 0..Size
Calls   == 1..MaxCompletions
Callers == Handles \cup {Nobody}

\* "due" is a step past its probe, "settling" the probe after an uncertain append.
Steps   == {"none", "closed", "idle", "verifying", "due", "sending", "appending",
            "settling", "completing", "resuming"}
Probing == {"verifying", "settling", "resuming"}
Phases  == {"uploading", "unknown", "complete"}
Errors  == {"refused", "gateway"}

Handle ==
  [pc:        Steps,
   phase:     Phases,                    \* _phase
   confirmed: Offsets,                   \* _confirmed
   verify:    BOOLEAN,                   \* _verify: the next step probes first
   high:      Offsets,                   \* _high; None is Size, which limits as little
   goal:      Offsets,                   \* the end of the chunk being appended
   changed:   BOOLEAN,                   \* _changed: the source had another size
   refused:   BOOLEAN,                   \* a probe's offset was refused
   call:      0..MaxCompletions,         \* the last completion call it made, or 0
   past:      SUBSET Calls,              \* the completion calls it or its checkpoint made
   tries:     0..Retries,                \* shared retries of the completion call
   reply:     Errors \cup {"none", "ok"},  \* the answer to its call
   offer:     Offsets]                   \* the offset a probe's answer carries

Appends     == [off: Offsets, end: Offsets, by: Callers]
Completions == [call: Calls, by: Callers]
Checkpoints == [confirmed: Offsets, phase: Phases \ {"complete"}, past: SUBSET Calls]

TypeOK ==
  /\ handle \in [Handles -> Handle]
  /\ wire \subseteq Appends /\ finals \subseteq Completions
  /\ remote \in Offsets /\ applied \subseteq Calls /\ calls \in 0..MaxCompletions
  /\ saved \subseteq Checkpoints
  /\ length \in Lengths \cup {Size} /\ faults \in 0..MaxFaults

\* Every byte confirmed is all there is to do.
Whole(n) == n = Size /\ ~HasCompletion

\* `start` returned the first handle: _create read the bindings and settled 0.
Fresh(h) ==
  [pc |-> IF h = First THEN "idle" ELSE "none",
   phase |-> IF h = First /\ Whole(0) THEN "complete" ELSE "uploading",
   confirmed |-> 0, verify |-> FALSE, high |-> 0, goal |-> 0, changed |-> FALSE,
   refused |-> FALSE, call |-> 0, past |-> {}, tries |-> 0, reply |-> "none", offer |-> 0]

Init ==
  /\ handle = [h \in Handles |-> Fresh(h)]
  /\ wire = {} /\ finals = {} /\ remote = 0 /\ applied = {}
  /\ calls = 0 /\ saved = {} /\ length = Size /\ faults = 0
-----------------------------------------------------------------------------
(* Parts of the steps                                                      *)

Become(h, s) == handle' = [handle EXCEPT ![h] = s]

\* _settle
Settled(s, n) ==
  [s EXCEPT !.confirmed = n, !.verify = FALSE,
            !.phase = IF Whole(n) THEN "complete" ELSE @]

\* The call is over, answered or not, and the step goes on elsewhere.
Hangup(s, pc) == [s EXCEPT !.pc = pc, !.reply = "none", !.offer = 0]

Fault == faults < MaxFaults /\ faults' = faults + 1

Mine(reqs, h) == {r \in reqs : r.by = h}

\* What h sent is lost, or goes on to the server with nobody waiting for it.
Orphans(reqs, h) ==
  { (reqs \ Mine(reqs, h)) \cup kept :
      kept \in {{}, {[r EXCEPT !.by = Nobody] : r \in Mine(reqs, h)}} }

\* A caller stops waiting for free only when no answer can come any more.
TimesOut(h, reqs) ==
  IF handle[h].reply = "none" /\ Mine(reqs, h) = {} THEN UNCHANGED faults ELSE Fault

net == <<wire, finals, remote, applied>>
app == <<calls, saved, length>>
-----------------------------------------------------------------------------
(* advance and run                                                         *)

\* _enter, _settled and the first line of _step
Step(h) ==
  LET s == handle[h] IN
  /\ s.pc = "idle" /\ s.phase = "uploading" /\ ~s.changed
  /\ Become(h, [s EXCEPT !.pc = IF s.verify THEN "verifying" ELSE "due"])
  /\ UNCHANGED <<net, app, faults>>

\* Mutant: a handle takes only the offsets of its own last append.
AcceptableOwn(s, n) == n \in {s.confirmed, s.goal}

\* _verified: not below what is confirmed, nor past what this handle ever sent.
Acceptable(s, n) ==
  /\ s.confirmed <= n /\ n <= s.high
  /\ PartialCommit \/ n % Chunk = 0 \/ n = Size

\* The probe of a step, or of `resume`, gave an offset.
Verified(h) ==
  LET s == handle[h]
      resuming == s.pc = "resuming"
  IN
  /\ s.pc \in {"verifying", "resuming"} /\ s.reply = "ok"
  /\ IF Acceptable(s, s.offer)
       THEN Become(h, Hangup(Settled(s, s.offer),
                             IF resuming \/ Whole(s.offer) THEN "idle" ELSE "due"))
       ELSE Become(h, [Hangup(s, IF resuming THEN "none" ELSE "idle") EXCEPT !.refused = TRUE])
  /\ UNCHANGED <<net, app, faults>>

\* A probe raises: `resume` returns no handle, a step leaves it to be probed again.
ProbeFails(h) ==
  LET s == handle[h] IN
  /\ s.pc \in Probing /\ Fault
  /\ Become(h, Hangup(s, IF s.pc = "resuming" THEN "none" ELSE "idle"))
  /\ UNCHANGED <<net, app>>

\* Mutant: the last chunk is as long as the others.
ChunkEndUncapped(n) == (n \div Chunk + 1) * Chunk

ChunkEnd(n) == LET e == (n \div Chunk + 1) * Chunk IN IF e < Size THEN e ELSE Size

\* The bytes there are to read from start, at most to end, or one more at the last end.
ReadLength(start, end) ==
  LET wanted == end - start + (IF end = Size THEN 1 ELSE 0)
      there  == IF length < start THEN 0 ELSE length - start
  IN  IF wanted < there THEN wanted ELSE there

\* _buffer, at the start of _append
Buffer(h) ==
  LET s == handle[h]
      end == ChunkEnd(s.confirmed)
  IN
  /\ s.pc = "due" /\ s.confirmed < Size
  /\ IF ReadLength(s.confirmed, end) = end - s.confirmed
       THEN Become(h, [s EXCEPT !.pc = "sending", !.goal = end])
       ELSE Become(h, [s EXCEPT !.pc = "idle", !.changed = TRUE])
  /\ UNCHANGED <<net, app, faults>>

\* Mutant: a failed append is sent again without a probe.
SendingUnprobed(s) == [s EXCEPT !.high = IF @ < s.goal THEN s.goal ELSE @]

\* Mutant: the end this handle sent to is not kept.
SendingLow(s) == [s EXCEPT !.verify = TRUE]

\* _sending
Sending(s) == [s EXCEPT !.verify = TRUE, !.high = IF @ < s.goal THEN s.goal ELSE @]

\* The append of the rest of the chunk
Send(h) ==
  LET s == handle[h] IN
  /\ s.pc = "sending"
  /\ Become(h, [Sending(s) EXCEPT !.pc = "appending"])
  /\ wire' = wire \cup {[off |-> s.confirmed, end |-> s.goal, by |-> h]}
  /\ UNCHANGED <<finals, remote, applied, app, faults>>

\* Mutant: any response confirms the chunk.
AppendedAny(h) ==
  LET s == handle[h] IN
  /\ s.pc = "appending" /\ s.reply # "none"
  /\ Become(h, Hangup(Settled(s, s.goal), "idle"))
  /\ UNCHANGED <<net, app, faults>>

\* A success response confirms the chunk.
Appended(h) ==
  LET s == handle[h] IN
  /\ s.pc = "appending" /\ s.reply = "ok"
  /\ Become(h, Hangup(Settled(s, s.goal), "idle"))
  /\ UNCHANGED <<net, app, faults>>

\* What _append raises: an error status, an attempt never sent, a cancellation.
AppendRaises(h) ==
  LET s == handle[h] IN
  /\ s.pc = "appending"
  /\ IF s.reply \in Errors THEN UNCHANGED faults ELSE TimesOut(h, wire)
  /\ wire' \in Orphans(wire, h)
  /\ Become(h, Hangup(s, "idle"))
  /\ UNCHANGED <<finals, remote, applied, app>>

\* A transport error after the append may have been sent: _uncertain probes once.
AppendUncertain(h) ==
  LET s == handle[h] IN
  /\ s.pc = "appending" /\ TimesOut(h, wire)
  /\ wire' \in Orphans(wire, h)
  /\ Become(h, Hangup(s, "settling"))
  /\ UNCHANGED <<finals, remote, applied, app>>

\* _reconciled: an unchanged offset sends the range again, the chunk's end confirms it,
\* and an offset inside it the bytes before it, the rest being sent next.
Reconciled(h) ==
  LET s == handle[h]
      n == s.offer
      inside == PartialCommit /\ s.confirmed < n /\ n < s.goal
  IN
  /\ s.pc = "settling" /\ s.reply = "ok"
  /\ \/ n = s.confirmed /\ Become(h, Hangup(s, "sending"))
     \/ n # s.confirmed /\ n = s.goal /\ Become(h, Hangup(Settled(s, n), "idle"))
     \/ inside /\ Become(h, Hangup(Settled(s, n), "sending"))
     \/ /\ n \notin {s.confirmed, s.goal} /\ ~inside
        /\ Become(h, [Hangup(s, "idle") EXCEPT !.refused = TRUE])
  /\ UNCHANGED <<net, app, faults>>
-----------------------------------------------------------------------------
(* The completion                                                          *)

\* _completing, and the completion call
Complete(h) ==
  LET s == handle[h] IN
  /\ s.pc = "due" /\ s.confirmed = Size /\ calls < MaxCompletions
  /\ calls' = calls + 1
  /\ Become(h, [s EXCEPT !.pc = "completing", !.phase = "unknown", !.call = calls + 1,
                         !.past = @ \cup {calls + 1}, !.tries = 0])
  /\ finals' = finals \cup {[call |-> calls + 1, by |-> h]}
  /\ UNCHANGED <<wire, remote, applied, saved, length, faults>>

\* A shared retry: the same call sends the completion again after an error status.
Resend(h) ==
  LET s == handle[h] IN
  /\ s.pc = "completing" /\ s.reply \in Errors /\ s.tries < Retries
  /\ Become(h, [Hangup(s, "completing") EXCEPT !.tries = @ + 1])
  /\ finals' = finals \cup {[call |-> s.call, by |-> h]}
  /\ UNCHANGED <<wire, remote, applied, app, faults>>

\* Mutant: an error status completes the upload.
CompletedAny(h) ==
  LET s == handle[h] IN
  /\ s.pc = "completing" /\ s.reply # "none"
  /\ Become(h, [Hangup(s, "idle") EXCEPT !.phase = "complete"])
  /\ UNCHANGED <<net, app, faults>>

\* _completed
Completed(h) ==
  LET s == handle[h] IN
  /\ s.pc = "completing" /\ s.reply = "ok"
  /\ Become(h, [Hangup(s, "idle") EXCEPT !.phase = "complete"])
  /\ UNCHANGED <<net, app, faults>>

\* Mutant: a gateway's answer counts as the server's refusal.
CompletionRefusedByAny(h) ==
  LET s == handle[h] IN
  /\ s.pc = "completing" /\ s.reply \in Errors
  /\ Become(h, [Hangup(s, "idle") EXCEPT !.phase = "uploading"])
  /\ UNCHANGED <<net, app, faults>>

\* _completion_failed: the last answer, or nothing sent by any try, restores uploading.
CompletionRefused(h) ==
  LET s == handle[h] IN
  /\ s.pc = "completing"
  /\ \/ s.reply = "refused" /\ UNCHANGED <<finals, faults>>
     \/ /\ s.reply = "none" /\ s.tries = 0 /\ Mine(finals, h) # {} /\ Fault
        /\ finals' = finals \ Mine(finals, h)
  /\ Become(h, [Hangup(s, "idle") EXCEPT !.phase = "uploading"])
  /\ UNCHANGED <<wire, remote, applied, app>>

\* A gateway's answer, or no whole one to a completion that may have been sent
CompletionUnknown(h) ==
  LET s == handle[h] IN
  /\ s.pc = "completing"
  /\ \/ s.reply = "gateway" /\ UNCHANGED <<finals, faults>>
     \/ TimesOut(h, finals) /\ finals' \in Orphans(finals, h)
  /\ Become(h, Hangup(s, "idle"))
  /\ UNCHANGED <<wire, remote, applied, app>>
-----------------------------------------------------------------------------
(* checkpoint, close, resume, and the process                              *)

\* checkpoint, from any thread at any time
Checkpoint(h) ==
  LET s == handle[h] IN
  /\ s.pc \notin {"none", "resuming"} /\ s.phase # "complete"
  /\ saved' = {[confirmed |-> s.confirmed, phase |-> s.phase, past |-> s.past]}
  /\ UNCHANGED <<handle, net, calls, length, faults>>

\* close, which is refused while a step runs
Close(h) ==
  /\ handle[h].pc = "idle" /\ Fault
  /\ Become(h, [handle[h] EXCEPT !.pc = "closed"])
  /\ UNCHANGED <<net, app>>

\* The process dies, or the application drops the handle.
Crash(h) ==
  /\ handle[h].pc # "none" /\ Fault
  /\ Become(h, Hangup(handle[h], "none"))
  /\ wire' \in Orphans(wire, h) /\ finals' \in Orphans(finals, h)
  /\ UNCHANGED <<remote, applied, app>>

\* _resume_start and _resumed; an unknown completion raises again, without sending.
Resume(h) ==
  \E c \in saved :
    /\ handle[h].pc = "none" /\ c.phase = "uploading" /\ length = Size
    /\ Become(h, [handle[h] EXCEPT
         !.pc = "resuming", !.phase = c.phase, !.confirmed = c.confirmed, !.verify = TRUE,
         !.high = Size, !.goal = 0, !.changed = FALSE, !.call = 0, !.past = c.past,
         !.tries = 0])
    /\ UNCHANGED <<net, app, faults>>
-----------------------------------------------------------------------------
(* The server and the source, external to the client                       *)

\* The answer reaches its caller, if one still waits.
Answer(by, kind) ==
  IF by = Nobody THEN UNCHANGED handle
  ELSE Become(by, [handle[by] EXCEPT !.reply = kind])

ServeProbe(h) ==
  /\ handle[h].pc \in Probing /\ handle[h].reply = "none"
  /\ Become(h, [handle[h] EXCEPT !.reply = "ok", !.offer = remote])
  /\ UNCHANGED <<net, app, faults>>

\* An append at the server's offset is kept; only a whole one is answered "ok".
KeepAppend(m) ==
  /\ m.off = remote
  /\ wire' = wire \ {m}
  /\ \/ remote' = m.end /\ Answer(m.by, "ok") /\ UNCHANGED faults
     \/ /\ Fault /\ remote' = m.end
        /\ \E kind \in Errors \cup {"none"} : Answer(m.by, kind)
     \/ /\ PartialCommit /\ Fault
        /\ remote' \in (m.off + 1)..(m.end - 1)
        /\ \E kind \in Errors \cup {"none"} : Answer(m.by, kind)
  /\ UNCHANGED <<finals, applied, app>>

\* One at another offset is refused; any may be, by a busy server.
RefuseAppend(m) ==
  /\ wire' = wire \ {m}
  /\ IF m.off = remote THEN Fault ELSE UNCHANGED faults
  /\ Answer(m.by, "refused")
  /\ UNCHANGED <<finals, remote, applied, app>>

\* A gateway answers for a server that may still get the request.
GatewayAppend(m) ==
  /\ m.by # Nobody /\ Fault
  /\ wire' = (wire \ {m}) \cup {[m EXCEPT !.by = Nobody]}
  /\ Answer(m.by, "gateway")
  /\ UNCHANGED <<finals, remote, applied, app>>

ApplyCompletion(m) ==
  /\ remote = Size
  /\ finals' = finals \ {m}
  /\ applied' = applied \cup {m.call}
  /\ \/ Answer(m.by, "ok") /\ UNCHANGED faults
     \/ Fault /\ \E kind \in {"none", "gateway"} : Answer(m.by, kind)
  /\ UNCHANGED <<wire, remote, app>>

RefuseCompletion(m) ==
  /\ finals' = finals \ {m}
  /\ IF remote = Size THEN Fault ELSE UNCHANGED faults
  /\ Answer(m.by, "refused")
  /\ UNCHANGED <<wire, remote, applied, app>>

GatewayCompletion(m) ==
  /\ m.by # Nobody /\ Fault
  /\ finals' = (finals \ {m}) \cup {[m EXCEPT !.by = Nobody]}
  /\ Answer(m.by, "gateway")
  /\ UNCHANGED <<wire, remote, applied, app>>

\* Somebody else writes the borrowed source.
ChangeSource ==
  /\ Fault
  /\ length' \in Lengths \ {length}
  /\ UNCHANGED <<handle, net, calls, saved>>
-----------------------------------------------------------------------------
\* The steps of both handles: the asynchronous one makes the same calls in the same order.
Uploading(h) ==
  \/ Step(h) \/ Verified(h) \/ ProbeFails(h) \/ Buffer(h) \/ Send(h)
  \/ Appended(h) \/ AppendRaises(h) \/ AppendUncertain(h) \/ Reconciled(h)

Completing(h) ==
  \/ Complete(h) \/ Resend(h) \/ Completed(h) \/ CompletionRefused(h) \/ CompletionUnknown(h)

Owning(h) == Checkpoint(h) \/ Close(h) \/ Crash(h) \/ Resume(h)

ServeAppend(m) == KeepAppend(m) \/ RefuseAppend(m) \/ GatewayAppend(m)

ServeCompletion(m) == ApplyCompletion(m) \/ RefuseCompletion(m) \/ GatewayCompletion(m)

Next ==
  \/ \E h \in Handles : Uploading(h) \/ Completing(h) \/ Owning(h) \/ ServeProbe(h)
  \/ \E m \in wire : ServeAppend(m)
  \/ \E m \in finals : ServeCompletion(m)
  \/ ChangeSource

Spec == Init /\ [][Next]_vars

\* `run` steps until the upload ends, and the application calls it again, or resumes,
\* after an error; what a live caller waits for is answered or given up.
FairSpec ==
  /\ Spec
  /\ \A h \in Handles :
       /\ WF_vars(Uploading(h)) /\ WF_vars(Completing(h))
       /\ WF_vars(Resume(h)) /\ WF_vars(ServeProbe(h))
  /\ WF_vars(\E m \in wire : ServeAppend(m))
  /\ WF_vars(\E m \in finals : ServeCompletion(m))
-----------------------------------------------------------------------------
(* Properties                                                              *)

Live(h) == handle[h].pc # "none"

\* A handle, and a checkpoint it gave, never count a byte as confirmed that the
\* server does not hold, whatever was lost, delayed or sent twice: resuming from
\* any checkpoint leaves no gap (_settle, _verified, _reconciled, checkpoint).
ConfirmedIsHeld ==
  /\ \A h \in Handles : handle[h].confirmed <= remote
  /\ \A c \in saved : c.confirmed <= remote

\* A complete upload is complete on the server: it holds every byte, and it applied
\* a completion of this handle's past when the helper declares one.
CompleteIsDone ==
  \A h \in Handles : handle[h].phase = "complete" =>
    /\ remote = Size
    /\ HasCompletion => handle[h].past \cap applied # {}

\* The assertion of _complete: a step with every byte confirmed has a completion to
\* send, since an upload completed by length is complete before it gets there.
CompletionDeclared ==
  \A h \in Handles : handle[h].pc = "due" /\ handle[h].confirmed = Size => HasCompletion

\* A completion of unknown outcome is never sent again, by the handle or by one
\* resumed from its checkpoint: of the completions a handle's past made, the server
\* applies one at most, those still on their way included.
CompletionAppliedOnce ==
  \A h \in Handles : Live(h) =>
    Cardinality(handle[h].past \cap (applied \cup {m.call : m \in finals})) <= 1

\* What docs/python-client-helpers.md promises of a completion of unknown outcome, that it is
\* never sent again, seen from the server: it has applied one completion call of a handle's
\* past at most (_completion_failed).
AppliedAtMostOnce == \A h \in Handles : Cardinality(handle[h].past \cap applied) <= 1

\* While one process at a time has the upload, an honest server's offset is never
\* refused as inconsistent: not after a crash, nor after an append that arrives late.
NoOffsetRefused == \A h \in Handles : ~handle[h].refused

\* The upload implements the service: over all handles, crashes and late requests,
\* no step shows a client more than the server keeps, takes back what one knows but
\* to resume, or reports completion of less than the whole content.
Service == INSTANCE UploadService WITH
  held <- remote,
  known <- [h \in Handles |-> handle[h].confirmed],
  done <- {h \in Handles : handle[h].phase = "complete"}
ImplementsService == Service!Spec

\* What the helper's caller ends with: a complete upload, one whose completion is
\* unknown, a source that changed, a closed handle, or a crash with nothing to resume.
Ended(h) ==
  \/ handle[h].pc = "idle" /\ (handle[h].phase # "uploading" \/ handle[h].changed)
  \/ handle[h].pc = "closed"
  \/ handle[h].pc = "none" /\ (\A c \in saved : c.phase = "unknown" \/ length # Size)

\* Once faults stop, the upload ends: no answer, probe or resend keeps it going for ever.
UploadEnds == <>Ended(First)
=============================================================================
