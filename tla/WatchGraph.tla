------------------------------ MODULE WatchGraph ------------------------------
(***************************************************************************)
(* The dependency graph of one watch session (watch_dependencies.py): what *)
(* the configuration names, what the last generation read, and the         *)
(* candidates of attempts that have not succeeded.  A path stands for its  *)
(* lexical and resolved variants and the symbolic links on its way.        *)
(***************************************************************************)
CONSTANTS
  Files,    \* the local files a generation may depend on
  Root      \* the watched directory each of them is in

Candidates ==
  {c \in [there: BOOLEAN, files: SUBSET Files] : c.there \/ c.files = {}}

Graphs ==
  [static:    SUBSET Files,   \* _static_files
   gen:       SUBSET Files,   \* _generation_files
   failedGen: SUBSET Files,   \* _failed_generation_files
   pending:   Candidates,     \* _pending_static
   failed:    Candidates]     \* _failed_static

NoCandidate == [there |-> FALSE, files |-> {}]
Candidate(fs) == [there |-> TRUE, files |-> fs]

EmptyGraph == [static |-> {}, gen |-> {}, failedGen |-> {},
               pending |-> NoCandidate, failed |-> NoCandidate]

(* The one candidate a snapshot shows beside the committed graph. *)
Shown(g) == IF g.pending.there THEN g.pending ELSE g.failed

(* The files of the published snapshot. *)
Known(g) == g.static \cup Shown(g).files \cup g.gen \cup g.failedGen

(* The files an event is accepted for before outputs are excluded. *)
Recovery(g) == Shown(g).files \cup g.failedGen

Roots(g) == {Root[f] : f \in Known(g)}

SetPending(g, fs) == [g EXCEPT !.pending = Candidate(fs)]

(* Mutant: the candidate is marked as gone, and its files stay. *)
FailLeaving(g, fs) ==
  [g EXCEPT !.failed = g.pending, !.pending.there = FALSE, !.failedGen = fs]

(* A generation that read fs failed: its candidate stays for recovery. *)
Fail(g, fs) ==
  [g EXCEPT !.failed = g.pending, !.pending = NoCandidate, !.failedGen = fs]

(* A generation that read fs succeeded: its candidate is the graph. *)
Commit(g, fs) ==
  [static    |-> IF g.pending.there THEN g.pending.files ELSE g.static,
   gen       |-> fs,
   failedGen |-> {},
   pending   |-> NoCandidate,
   failed    |-> NoCandidate]
=============================================================================
