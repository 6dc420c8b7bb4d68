-------------------------------- MODULE Watch --------------------------------
(***************************************************************************)
(* Watch mode (watch.py): a loop regenerates, and a thread tells it of     *)
(* changes while it does.  The thread filters events by the graph the loop *)
(* last published, which a regeneration replaces at its end.  A path is    *)
(* edited by others at any time; its content is a version, the files it    *)
(* names, and whether a generation can use it.                             *)
(***************************************************************************)
EXTENDS Integers

CONSTANTS
  Files,       \* the local files a generation may depend on
  Root,        \* the watched directory each of them is in
  Project,     \* the project's file, read before a generation begins
  Input,       \* the schema
  Options,     \* the files an option may name
  References,  \* the files the schema may refer to
  Output,      \* the event of what a generation writes, in a watched directory
  Directory,   \* the event of a directory that holds the dependencies
  Modes,       \* what _force_polling may say: whether events are polled for
  MaxEdits,    \* bound: edits of others
  MayFail      \* whether the watcher's thread may fail

ASSUME WatchAssumption ==
  /\ {Project, Input} \subseteq Files /\ Project # Input
  /\ Options \subseteq Files \ {Project, Input}
  /\ References \subseteq Files \ {Project, Input}
  /\ Output \notin Files /\ Directory \notin Files /\ Output # Directory
  /\ Modes \subseteq BOOLEAN /\ Modes # {} /\ MayFail \in BOOLEAN /\ MaxEdits \in Nat

VARIABLES
  polling,   \* _force_polling
  disk,      \* the version of each file
  text,      \* what each file says: the files it names, and its flaw
  graph,     \* the dependency graph; its snapshot is published with it
  prints,    \* the snapshot's fingerprints, and whether any are taken
  loop,      \* the regeneration loop
  attempt,   \* the generation under way
  seen,      \* the version of each file the last attempt read
  watcher,   \* the watcher's thread and its hand-off
  raw,       \* events the watcher has not looked at
  roots,     \* the directories the watcher was started for
  lost,      \* edits nobody was watching for, and why
  edits

others == <<polling, disk, text, edits>>
vars == <<others, graph, prints, loop, attempt, seen, watcher, raw, roots, lost>>

INSTANCE WatchGraph

None     == -1
Versions == 0..MaxEdits
Flaws    == {"good", "invalid", "unreadable"}
NoPrints == [f \in Files |-> None]

Texts == [names: SUBSET Files, flaw: Flaws]

Steps == {"load", "stage", "begin", "read", "start", "wait", "stop", "join", "ended"}

Loop ==
  [at:      Steps,
   first:   BOOLEAN,   \* the generation before watch mode starts
   catchUp: BOOLEAN,   \* catch_up of the next watcher
   restart: BOOLEAN]   \* what _watch_once is about to return

Attempt ==
  [loaded: Texts,                       \* the project's file as it was read
   todo:   SUBSET Files,                \* files still to read
   open:   SUBSET Files,                \* the file recorded and about to be read
   files:  SUBSET Files,                \* collected.files
   prints: [Files -> Versions \cup {None}],  \* collected.polling_fingerprints
   failed: BOOLEAN]

Watcher ==
  [at:        {"none", "started", "enabled", "on", "off"},
   pending:   BOOLEAN,   \* has_pending_changes
   named:     BOOLEAN,   \* pending_change_sample is not empty
   error:     BOOLEAN,
   exhausted: BOOLEAN,
   fallback:  BOOLEAN,   \* pending_polling_fallback
   stop:      BOOLEAN]   \* stop_event is set

Fresh == [at |-> "none", pending |-> FALSE, named |-> FALSE, error |-> FALSE,
          exhausted |-> FALSE, fallback |-> FALSE, stop |-> FALSE]

NoAttempt == [loaded |-> [names |-> {}, flaw |-> "good"], todo |-> {}, open |-> {},
              files |-> {}, prints |-> NoPrints, failed |-> FALSE]

Events == Files \cup {Output, Directory}

TypeOK ==
  /\ polling \in Modes
  /\ disk \in [Files -> Versions] /\ text \in [Files -> Texts]
  /\ graph \in Graphs
  /\ prints \in [on: BOOLEAN, of: [Files -> Versions \cup {None}]]
  /\ loop \in Loop /\ attempt \in Attempt
  /\ seen \in [Files -> Versions \cup {None}]
  /\ watcher \in Watcher /\ raw \subseteq Events
  /\ roots \subseteq {Root[f] : f \in Files}
  /\ lost \in [Files -> {"no", "unwatched", "undiscovered", "staged"}]
  /\ edits \in Versions

-----------------------------------------------------------------------------
(* The files. *)

Nameable(f) == IF f = Project THEN Options ELSE IF f = Input THEN References ELSE {}
FlawsOf(f)  == IF f = Project THEN Flaws ELSE {"good", "invalid"}

Current(f) == seen[f] = disk[f]

(* What the last attempt read, and what it would have, had it read all that is there. *)
Needed ==
  LET read == {f \in Files : seen[f] # None} IN
  IF \A f \in read : Current(f) /\ text[f].flaw = "good"
  THEN read \cup {Project, Input} \cup text[Project].names \cup text[Input].names
  ELSE read

Watching(f) == watcher.at = "on" /\ Root[f] \in roots

(* The next attempt has not begun, and is sure to come. *)
Coming ==
  \/ loop.at = "load"
  \/ loop.at \in {"stop", "join"} /\ loop.restart
  \/ loop.at = "start" /\ loop.catchUp

(* Why an edit of a file already read goes unnoticed, if it does. *)
Unnoticed(f, event) ==
  IF Coming \/ seen[f] = None THEN "no"
  ELSE IF polling
       THEN IF ~prints.on THEN "unwatched"
            ELSE IF f = Project /\ loop.at \in {"stage", "begin"}
                    /\ ~(Watching(f) /\ event = {f})
                 THEN "staged" ELSE "no"
       ELSE IF ~Watching(f) THEN "unwatched"
            ELSE IF loop.at = "read" /\ f \notin Known(graph) THEN "undiscovered" ELSE "no"

(* Polling may see a file's change, only its directory's, or neither. *)
EventsOf(f) == IF polling THEN {{f}, {Directory}, {}} ELSE {{f}}

Edit(f) ==
  /\ edits < MaxEdits /\ edits' = edits + 1
  /\ disk' = [disk EXCEPT ![f] = edits + 1]
  /\ \E ns \in SUBSET Nameable(f), flaw \in FlawsOf(f) :
        text' = [text EXCEPT ![f] = [names |-> ns, flaw |-> flaw]]
  /\ \E event \in EventsOf(f) :
        /\ raw' = IF Watching(f) THEN raw \cup event ELSE raw
        /\ lost' = [lost EXCEPT ![f] = IF @ = "no" THEN Unnoticed(f, event) ELSE @]
  /\ UNCHANGED <<polling, graph, prints, loop, attempt, seen, watcher, roots>>

-----------------------------------------------------------------------------
(* The regeneration: _main, once before watch mode and once for each change. *)

(* _create_snapshot: a generation's own fingerprints come first. *)
PrintsOf(g, own) ==
  [prints EXCEPT !.of = [f \in Files |->
     IF ~prints.on \/ f \notin Known(g) THEN None
     ELSE IF own[f] # None THEN own[f] ELSE disk[f]]]

Publish(g, own) == graph' = g /\ prints' = PrintsOf(g, own)

(* The attempt is over: the watcher is restarted if the roots are others. *)
Over(failed, g) ==
  loop' = IF loop.first
          THEN [loop EXCEPT !.at = IF failed THEN "ended" ELSE "start", !.first = FALSE]
          ELSE IF Roots(g) # roots
               THEN [loop EXCEPT !.at = "stop", !.restart = TRUE]
               ELSE [loop EXCEPT !.at = "wait"]

Load ==
  /\ loop.at = "load"
  /\ attempt' = [NoAttempt EXCEPT !.loaded = text[Project]]
  /\ seen' = [f \in Files |-> IF f = Project THEN disk[f] ELSE None]
  /\ lost' = [f \in Files |-> "no"]
  /\ IF text[Project].flaw = "unreadable"
     THEN Over(TRUE, graph)
     ELSE loop' = [loop EXCEPT !.at = "stage"]
  /\ UNCHANGED <<others, graph, prints, watcher, raw, roots>>

(* stage_raw_config before validation, configure after it. *)
Stage ==
  /\ loop.at = "stage"
  /\ LET named == {Input} \cup attempt.loaded.names
         valid == attempt.loaded.flaw = "good"
         g == IF valid THEN SetPending(graph, named \cup {Project})
              ELSE IF loop.first THEN graph ELSE SetPending(graph, named)
     IN /\ Publish(g, NoPrints)
        /\ IF valid THEN loop' = [loop EXCEPT !.at = "begin"] ELSE Over(TRUE, g)
  /\ UNCHANGED <<others, attempt, seen, watcher, raw, roots, lost>>

(* generation(): fingerprints of what is known are taken before anything is read. *)
Begin ==
  /\ loop.at = "begin"
  /\ loop' = [loop EXCEPT !.at = "read"]
  /\ attempt' = [attempt EXCEPT
       !.todo = {Input} \cup attempt.loaded.names,
       !.prints = [f \in Files |->
                     IF prints.on /\ f \in Known(graph) THEN disk[f] ELSE None]]
  /\ UNCHANGED <<others, graph, prints, seen, watcher, raw, roots, lost>>

(* Mutant: the fingerprint of a file is taken after it was read. *)
RecordLate(f) ==
  /\ loop.at = "read" /\ attempt.open = {} /\ f \in attempt.todo
  /\ attempt' = [attempt EXCEPT
       !.open = {f}, !.todo = @ \ {f}, !.files = @ \cup {f}, !.prints[f] = None]
  /\ UNCHANGED <<others, graph, prints, loop, seen, watcher, raw, roots, lost>>

(* record_file: a file is recorded, with its fingerprint, before it is read. *)
Record(f) ==
  /\ loop.at = "read" /\ attempt.open = {} /\ f \in attempt.todo
  /\ attempt' = [attempt EXCEPT
       !.open = {f}, !.todo = @ \ {f}, !.files = @ \cup {f},
       !.prints[f] = IF prints.on /\ @ = None THEN disk[f] ELSE @]
  /\ UNCHANGED <<others, graph, prints, loop, seen, watcher, raw, roots, lost>>

Read(f) ==
  /\ loop.at = "read" /\ f \in attempt.open
  /\ seen' = [seen EXCEPT ![f] = disk[f]]
  /\ lost' = [lost EXCEPT ![f] = "no"]
  /\ LET bad == text[f].flaw # "good" IN
     attempt' = [attempt EXCEPT
       !.open = {}, !.failed = bad,
       !.todo = IF bad THEN {}
                ELSE @ \cup IF f = Input THEN text[f].names \ attempt.files ELSE {}]
  /\ UNCHANGED <<others, graph, prints, loop, watcher, raw, roots>>

(* The outputs are written, unless the attempt failed, and the graph is published. *)
Finish ==
  /\ loop.at = "read" /\ attempt.open = {} /\ attempt.todo = {}
  /\ LET g == IF attempt.failed THEN Fail(graph, attempt.files)
                                ELSE Commit(graph, attempt.files)
     IN Publish(g, attempt.prints) /\ Over(attempt.failed, g)
  /\ raw' = IF watcher.at = "on" /\ ~attempt.failed THEN raw \cup {Output} ELSE raw
  /\ attempt' = NoAttempt
  /\ UNCHANGED <<others, seen, watcher, roots, lost>>

-----------------------------------------------------------------------------
(* The loop: watch_and_regenerate and _watch_once. *)

(* _polling_dependencies_changed *)
PrintsDiffer == prints.on /\ \E f \in Known(graph) : prints.of[f] # disk[f]

Start ==
  /\ loop.at = "start"
  /\ roots' = Roots(graph) /\ raw' = {}
  /\ watcher' = [Fresh EXCEPT !.at = "started"]
  /\ loop' = [loop EXCEPT !.at = IF loop.catchUp THEN "load" ELSE "wait",
                          !.restart = FALSE]
  /\ UNCHANGED <<others, graph, prints, attempt, seen, lost>>

(* _wait_for_changes returns changes; an empty sample is a poll to be looked at again. *)
Take ==
  /\ loop.at = "wait" /\ watcher.pending /\ ~watcher.error
  /\ watcher' = [watcher EXCEPT !.pending = FALSE, !.named = FALSE]
  /\ loop' = IF watcher.named \/ PrintsDiffer THEN [loop EXCEPT !.at = "load"] ELSE loop
  /\ UNCHANGED <<others, graph, prints, attempt, seen, raw, roots, lost>>

(* The watcher failed, or ended with nothing pending. *)
GiveUp ==
  /\ loop.at = "wait"
  /\ watcher.error \/ (watcher.exhausted /\ ~watcher.pending)
  /\ loop' = [loop EXCEPT !.at = "stop"]
  /\ UNCHANGED <<others, graph, prints, attempt, seen, watcher, raw, roots, lost>>

(* Ctrl+C while it waits. *)
Interrupt ==
  /\ MayFail /\ loop.at = "wait"
  /\ loop' = [loop EXCEPT !.at = "stop"]
  /\ UNCHANGED <<others, graph, prints, attempt, seen, watcher, raw, roots, lost>>

Stop ==
  /\ loop.at = "stop"
  /\ loop' = [loop EXCEPT !.at = "join"]
  /\ watcher' = [watcher EXCEPT !.stop = TRUE]
  /\ UNCHANGED <<others, graph, prints, attempt, seen, raw, roots, lost>>

(* Mutant: the next watcher does not catch up with what nobody was watching for. *)
JoinOnly ==
  /\ loop.at = "join" /\ watcher.at = "off"
  /\ loop' = [loop EXCEPT !.at = IF loop.restart THEN "start" ELSE "ended"]
  /\ UNCHANGED <<others, graph, prints, attempt, seen, watcher, raw, roots, lost>>

Join ==
  /\ loop.at = "join" /\ watcher.at = "off"
  /\ loop' = IF loop.restart THEN [loop EXCEPT !.at = "start", !.catchUp = TRUE]
             ELSE [loop EXCEPT !.at = "ended"]
  /\ UNCHANGED <<others, graph, prints, attempt, seen, watcher, raw, roots, lost>>

-----------------------------------------------------------------------------
(* The watcher's thread: _watch_changes. *)

Enable ==
  /\ watcher.at = "started"
  /\ watcher' = [watcher EXCEPT !.at = "enabled"]
  /\ prints' = IF polling /\ ~prints.on
               THEN [on |-> TRUE, of |-> [f \in Files |->
                       IF f \in Known(graph) THEN disk[f] ELSE None]]
               ELSE prints
  /\ UNCHANGED <<others, graph, loop, attempt, seen, raw, roots, lost>>

Subscribe ==
  /\ watcher.at = "enabled"
  /\ watcher' = [watcher EXCEPT !.at = "on"]
  /\ UNCHANGED <<others, graph, prints, loop, attempt, seen, raw, roots, lost>>

(* Mutant: an output in a watched directory is accepted as a dependency. *)
AcceptsOutput(event) ==
  event \in Known(graph) \cup {Output} \/ (event = Directory /\ PrintsDiffer)

(* accepts_event: recovery paths first, then no output, then the graph. *)
Accepts(event) ==
  \/ event \in Recovery(graph)
  \/ event # Output /\ event \in Known(graph)
  \/ event = Directory /\ PrintsDiffer

Deliver ==
  /\ watcher.at = "on" /\ raw # {}
  /\ raw' = {}
  /\ watcher' = IF \E event \in raw : Accepts(event)
                THEN [watcher EXCEPT !.pending = TRUE, !.named = TRUE, !.fallback = FALSE]
                ELSE watcher
  /\ UNCHANGED <<others, graph, prints, loop, attempt, seen, roots, lost>>

(* A poll with no event: fingerprints must differ twice in a row to be told of. *)
Timeout ==
  /\ polling /\ watcher.at = "on" /\ raw = {}
  /\ watcher' = IF ~PrintsDiffer THEN [watcher EXCEPT !.fallback = FALSE]
                ELSE IF ~watcher.fallback THEN [watcher EXCEPT !.fallback = TRUE]
                ELSE [watcher EXCEPT !.fallback = FALSE, !.pending = TRUE]
  /\ UNCHANGED <<others, graph, prints, loop, attempt, seen, raw, roots, lost>>

Stops ==
  /\ watcher.at \in {"enabled", "on"} /\ watcher.stop
  /\ watcher' = [watcher EXCEPT !.at = "off", !.exhausted = TRUE]
  /\ raw' = {}
  /\ UNCHANGED <<others, graph, prints, loop, attempt, seen, roots, lost>>

Fails ==
  /\ MayFail /\ watcher.at \in {"enabled", "on"}
  /\ watcher' = [watcher EXCEPT !.at = "off", !.error = TRUE, !.exhausted = TRUE]
  /\ raw' = {}
  /\ UNCHANGED <<others, graph, prints, loop, attempt, seen, roots, lost>>

-----------------------------------------------------------------------------

Init ==
  /\ polling \in Modes
  /\ disk = [f \in Files |-> 0]
  /\ text = [f \in Files |-> [names |-> {}, flaw |-> "good"]]
  /\ graph = EmptyGraph
  /\ prints = [on |-> FALSE, of |-> NoPrints]
  /\ loop = [at |-> "load", first |-> TRUE, catchUp |-> FALSE, restart |-> FALSE]
  /\ attempt = NoAttempt
  /\ seen = NoPrints
  /\ watcher = Fresh /\ raw = {} /\ roots = {}
  /\ lost = [f \in Files |-> "no"]
  /\ edits = 0

Regenerate == Load \/ Stage \/ Begin \/ Finish \/ \E f \in Files : Record(f) \/ Read(f)
Looping    == Regenerate \/ Start \/ Take \/ GiveUp \/ Stop \/ Join
Watches    == Enable \/ Subscribe \/ Deliver \/ Timeout \/ Stops

Next == Looping \/ Watches \/ Interrupt \/ Fails \/ \E f \in Files : Edit(f)

Spec == Init /\ [][Next]_vars
FairSpec == Spec /\ WF_vars(Looping) /\ WF_vars(Enable \/ Subscribe \/ Stops)
                 /\ WF_vars(Deliver) /\ WF_vars(Timeout)

-----------------------------------------------------------------------------
(* Properties. *)

(* Something the loop will act on is on its way to it. *)
OnItsWay ==
  \/ watcher.pending \/ watcher.error \/ PrintsDiffer
  \/ watcher.at = "on" /\ \E event \in raw : Accepts(event)

(* A loop that waits with nothing on its way has read every file the last *)
(* generation depends on as it now is, but for the edits nobody watched   *)
(* for.  (The filter's use of a graph that a generation replaces, the     *)
(* hand-off's reset before the regeneration, the restart with other roots,*)
(* candidates kept after a failure.)                                      *)
NothingForgotten ==
  loop.at = "wait" /\ ~OnItsWay
    => \A f \in Needed : Current(f) \/ lost[f] # "no"

(* A generation acknowledges the versions it read, not later edits: of the files it *)
(* reads, no published fingerprint is newer than what was read (generation's first  *)
(* lines, record_file before each read, and _create_snapshot's choice of the two).  *)
AcknowledgesRead ==
  loop.at = "wait" =>
    \A f \in Files \ {Project} :
      (prints.of[f] # None /\ seen[f] # None /\ lost[f] = "no") => prints.of[f] <= seen[f]

(* Once edits stop, watch mode has ended or has read every file it needs as it is, for *)
(* good: no edit is swallowed, whichever thread was where, and no output or failure    *)
(* starts a generation again.                                                          *)
CatchesUp ==
  <>[](loop.at = "ended" \/ \A f \in Needed : Current(f) \/ lost[f] # "no")

(* What the documentation says of --watch, of a file that was edited after it *)
(* was read and before the watcher had subscribed.                            *)
WatchedFromStart ==
  loop.at = "wait" /\ watcher.at = "on" /\ ~OnItsWay
    => \A f \in Needed : ~(lost[f] = "unwatched" /\ ~Current(f))

(* The same of a file a generation has read for the first time and has not yet *)
(* published: the watcher's thread drops the event of its edit.                *)
WatchedOnceRead ==
  loop.at = "wait" /\ ~OnItsWay
    => \A f \in Needed : ~(lost[f] = "undiscovered" /\ ~Current(f))

(* What the comment in generation() says, of the project's file too. *)
AcknowledgesObserved ==
  loop.at = "wait" =>
    \A f \in Files :
      (prints.of[f] # None /\ seen[f] # None /\ lost[f] # "unwatched")
        => prints.of[f] <= seen[f]

(* A generation runs because something changed: once edits stop, the loop waits or ends. *)
ComesToRest == <>[](loop.at \in {"wait", "ended"})
=============================================================================
