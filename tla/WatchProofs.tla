------------------------------ MODULE WatchProofs ------------------------------
(***************************************************************************)
(* Proofs about Watch, for any files and number of edits: its state is     *)
(* well typed; a file's fingerprint is never newer than what the last      *)
(* attempt read of it, unless a loss is declared; and a loop at rest has   *)
(* word of every edit of a file that was read.  All follow from one        *)
(* inductive invariant, IInv, over the loop, the thread that watches, the  *)
(* graph and the fingerprints.                                             *)
(***************************************************************************)
EXTENDS Watch, TLAPS

\* A loop that will wait, or waits, without another generation in between.
Live == loop.at \in {"stage", "begin", "read", "wait"} \/ (loop.at = "start" /\ ~loop.catchUp)

\* An attempt is over, and nothing calls for another yet.
Resting == loop.at = "wait" \/ (loop.at = "start" /\ ~loop.catchUp)

\* Word of an edit of f is kept for the loop, or the loop is about to give up.
Told(f) ==
  \/ watcher.pending /\ watcher.named
  \/ watcher.error
  \/ watcher.at = "on" /\ f \in raw /\ f \in Known(graph)

\* Versions grow, and what was read or fingerprinted was there.
Dated ==
  \A f \in Files :
    /\ text[f].names \subseteq Nameable(f) /\ disk[f] <= edits
    /\ seen[f] <= disk[f] /\ prints.of[f] <= disk[f] /\ attempt.prints[f] <= disk[f]

\* Fingerprints are taken only when polling, and then of everything that is known.
Printed ==
  /\ prints.on => polling /\ \A f \in Known(graph) : prints.of[f] # None
  /\ ~prints.on => \A f \in Files : prints.of[f] = None

\* Where the loop and the watcher's thread may be, relative to each other.
Control ==
  /\ loop.first =>
       /\ loop.at \in {"load", "stage", "begin", "read"} /\ watcher = Fresh
       /\ ~prints.on /\ ~loop.catchUp /\ ~loop.restart
       /\ loop.at = "load" => seen = NoPrints
  /\ loop.at = "start" /\ ~loop.catchUp => watcher = Fresh /\ ~prints.on
  /\ loop.at \in {"load", "stage", "begin", "read", "wait", "stop"} => ~watcher.stop
  /\ polling /\ ~prints.on /\ ~loop.first =>
       /\ loop.at \in {"start", "wait", "stop", "join", "ended"} /\ ~loop.catchUp /\ ~loop.restart
       /\ watcher.at \in {"none", "started"} /\ ~watcher.pending
  /\ ~loop.first /\ loop.at # "ended" => Project \in graph.static

\* The attempt under way has read the project's file, and until it reads nothing else.
Loaded ==
  /\ loop.at \in {"stage", "begin", "read"} =>
       /\ seen[Project] # None /\ attempt.loaded.names \subseteq Options
       /\ Current(Project) => text[Project] = attempt.loaded
  /\ loop.at \in {"stage", "begin"} =>
       /\ \A f \in Files : seen[f] # None => f = Project
       /\ attempt.files = {} /\ attempt.open = {} /\ ~attempt.failed
  /\ loop.at \in {"begin", "read"} =>
       /\ attempt.loaded.flaw = "good" /\ graph.pending.there /\ Project \in graph.pending.files

\* It has read what it recorded, but for the open file, and will read all that is named.
Reading ==
  loop.at = "read" =>
    /\ attempt.open \subseteq attempt.files /\ attempt.files \cap attempt.todo = {}
    /\ Project \notin attempt.files \cup attempt.todo /\ \A f, g \in attempt.open : f = g
    /\ \A f \in Files : seen[f] # None <=> f = Project \/ f \in attempt.files \ attempt.open
    /\ ~attempt.failed =>
         /\ {Input} \cup attempt.loaded.names \subseteq attempt.files \cup attempt.todo
         /\ seen[Input] # None /\ Current(Input) => text[Input].names \subseteq attempt.files \cup attempt.todo
    /\ attempt.failed =>
         /\ attempt.open = {} /\ attempt.todo = {}
         /\ \E f \in Files : seen[f] # None /\ (Current(f) => text[f].flaw # "good")
    /\ prints.on => \A f \in attempt.files \cup {Project} : attempt.prints[f] # None
    /\ \A f \in Files \ {Project} : seen[f] # None => attempt.prints[f] <= seen[f]

Acknowledged ==
  \A f \in Files \ {Project} :
    prints.of[f] # None /\ seen[f] # None /\ lost[f] = "no" => prints.of[f] <= seen[f]

\* An edit of a file that was read is not lost while it makes no difference, is told, or shows.
Due ==
  \A f \in Files : seen[f] # None /\ lost[f] = "no" =>
    /\ polling /\ ~prints.on => Current(f)
    /\ Live /\ ~polling => Current(f) \/ Told(f)
    /\ f = Project /\ polling /\ prints.on =>
         /\ loop.at \in {"stage", "begin"} => Current(f) \/ Told(f)
         /\ loop.at = "read" => Told(f) \/ attempt.prints[f] <= seen[f]
         /\ loop.at = "wait" => Told(f) \/ prints.of[f] <= seen[f]

\* The last attempt knows what it read, and if that is as it was, it read all that is named.
Ended ==
  Resting =>
    LET read == {f \in Files : seen[f] # None}
    IN /\ read \subseteq Known(graph)
       /\ (\A f \in read : Current(f) /\ text[f].flaw = "good") =>
            {Project, Input} \cup text[Project].names \cup text[Input].names \subseteq read

IInv ==
  /\ TypeOK /\ Dated /\ Printed /\ Control /\ Loaded /\ Reading
  /\ Acknowledged /\ Due /\ Ended
-----------------------------------------------------------------------------
(* The graph, and what the shapes say. *)

LEMMA KnownType ==
  ASSUME NEW g \in Graphs
  PROVE  /\ Known(g) \subseteq Files /\ Roots(g) \subseteq {Root[f] : f \in Files}
         /\ g.static \subseteq Known(g)
         /\ g.pending.there => g.pending.files \subseteq Known(g)
BY DEF Graphs, Candidates, Known, Shown, Roots

LEMMA SetPendingIs ==
  ASSUME NEW g \in Graphs, NEW fs \in SUBSET Files
  PROVE  /\ SetPending(g, fs) \in Graphs
         /\ SetPending(g, fs).static = g.static
         /\ SetPending(g, fs).pending.there /\ SetPending(g, fs).pending.files = fs
BY DEF Graphs, Candidates, SetPending, Candidate

LEMMA FailIs ==
  ASSUME NEW g \in Graphs, NEW fs \in SUBSET Files
  PROVE  /\ Fail(g, fs) \in Graphs
         /\ Fail(g, fs).static = g.static
         /\ fs \subseteq Known(Fail(g, fs))
BY DEF Graphs, Candidates, Fail, NoCandidate, Known

LEMMA CommitIs ==
  ASSUME NEW g \in Graphs, g.pending.there, NEW fs \in SUBSET Files
  PROVE  /\ Commit(g, fs) \in Graphs
         /\ Commit(g, fs).static = g.pending.files
         /\ fs \subseteq Known(Commit(g, fs))
BY DEF Graphs, Candidates, Commit, NoCandidate, Known

\* A version is a number, also of a file that has none.
LEMMA Numbers ==
  ASSUME NEW v \in [Files -> Versions \cup {None}], NEW f \in Files
  PROVE  v[f] \in Int /\ v[f] >= None /\ (v[f] # None => v[f] \in Nat)
<1>1. v[f] \in Versions \cup {None}
  OBVIOUS
<1> QED BY <1>1, WatchAssumption DEF Versions, None

LEMMA Shapes ==
  ASSUME TypeOK
  PROVE  /\ prints.of \in [Files -> Versions \cup {None}] /\ prints.on \in BOOLEAN
         /\ attempt.prints \in [Files -> Versions \cup {None}]
         /\ disk \in [Files -> Versions \cup {None}]
         /\ edits \in Nat /\ MaxEdits \in Nat
         /\ attempt.todo \subseteq Files /\ attempt.open \subseteq Files
         /\ attempt.files \subseteq Files
         /\ attempt.loaded \in Texts /\ attempt.failed \in BOOLEAN
         /\ \A f \in Files : disk[f] \in Nat /\ disk[f] # None /\ None <= disk[f]
<1>1. edits \in Nat /\ \A f \in Files : disk[f] \in Nat
  BY WatchAssumption DEF TypeOK, Versions
<1> QED BY <1>1, WatchAssumption DEF TypeOK, Attempt, None

LEMMA NoPrintsType == NoPrints \in [Files -> Versions \cup {None}]
BY DEF NoPrints

LEMMA FreshType == Fresh \in Watcher
BY DEF Fresh, Watcher

LEMMA NoAttemptType == NoAttempt \in Attempt
BY NoPrintsType DEF NoAttempt, Attempt, Texts, Flaws
-----------------------------------------------------------------------------
(* Steps of the watcher's thread, and of a loop that rests. *)

LEMMA AsideKeeps ==
  ASSUME IInv, UNCHANGED <<others, graph, prints, attempt, seen, lost>>, TypeOK', Control',
         loop'.at \in {"stage", "begin", "read"} => loop'.at = loop.at,
         Live' => Live, Resting' => Resting,
         loop'.at = "wait" /\ prints.on => loop.at = "wait",
         \A f \in Files : Live' /\ Told(f) => Told(f)'
  PROVE  IInv'
<1>1. UNCHANGED <<polling, disk, text, edits, graph, prints, attempt, seen, lost>>
  BY DEF others
<1>2. Dated' /\ Printed' /\ Acknowledged'
  BY <1>1 DEF IInv, Dated, Printed, Acknowledged
<1>3. Loaded' /\ Reading'
  BY <1>1 DEF IInv, Loaded, Reading, Current
<1>4. Due'
  <2> SUFFICES ASSUME NEW f \in Files, seen[f] # None, lost[f] = "no"
               PROVE  /\ polling /\ ~prints.on => Current(f)
                      /\ Live' /\ ~polling => Current(f) \/ Told(f)'
                      /\ f = Project /\ polling /\ prints.on =>
                           /\ loop'.at \in {"stage", "begin"} => Current(f) \/ Told(f)'
                           /\ loop'.at = "read" => Told(f)' \/ attempt.prints[f] <= seen[f]
                           /\ loop'.at = "wait" => Told(f)' \/ prints.of[f] <= seen[f]
    BY <1>1 DEF Due, Current
  <2>1. loop'.at \in {"stage", "begin", "read", "wait"} => Live'
    BY DEF Live
  <2> QED BY <2>1 DEF IInv, Due
<1>5. Ended'
  BY <1>1 DEF IInv, Ended, Current
<1> QED BY <1>2, <1>3, <1>4, <1>5 DEF IInv

LEMMA SubscribeKeeps ==
  ASSUME IInv, Subscribe
  PROVE  IInv'
<1>1. watcher' = [watcher EXCEPT !.at = "on"] /\ watcher \in Watcher
  BY DEF Subscribe, IInv, TypeOK
<1>2. /\ UNCHANGED <<others, graph, prints, loop, attempt, seen, raw, roots, lost>>
      /\ watcher.at = "enabled"
  BY DEF Subscribe
<1>3. TypeOK'
  BY <1>1, <1>2 DEF IInv, TypeOK, others, Watcher
<1>4. Control'
  BY <1>1, <1>2 DEF IInv, Control, others, Watcher, Fresh
<1>5. \A f \in Files : Told(f) => Told(f)'
  BY <1>1, <1>2 DEF Told, Watcher
<1> QED BY <1>2, <1>3, <1>4, <1>5, AsideKeeps DEF Live, Resting

LEMMA DeliverKeeps ==
  ASSUME IInv, Deliver
  PROVE  IInv'
<1>1. /\ watcher' = IF \E event \in raw : Accepts(event)
                    THEN [watcher EXCEPT !.pending = TRUE, !.named = TRUE, !.fallback = FALSE]
                    ELSE watcher
      /\ watcher \in Watcher /\ watcher.at = "on" /\ raw' = {}
  BY DEF Deliver, IInv, TypeOK
<1>2. UNCHANGED <<others, graph, prints, loop, attempt, seen, roots, lost>>
  BY DEF Deliver
<1>3. /\ watcher' \in Watcher /\ watcher'.at = "on" /\ watcher'.stop = watcher.stop
      /\ watcher'.error = watcher.error
      /\ watcher.pending /\ watcher.named => watcher'.pending /\ watcher'.named
      /\ (\E event \in raw : Accepts(event)) => watcher'.pending /\ watcher'.named
  BY <1>1 DEF Watcher
<1>4. TypeOK'
  BY <1>1, <1>2, <1>3 DEF IInv, TypeOK, others
<1>5. Control'
  BY <1>1, <1>2, <1>3 DEF IInv, Control, others, Fresh
<1>6. \A f \in Files : f \in raw /\ f \in Known(graph) => Accepts(f)
  BY WatchAssumption DEF Accepts
<1>7. \A f \in Files : Told(f) => Told(f)'
  BY <1>1, <1>3, <1>6 DEF Told
<1> QED BY <1>2, <1>4, <1>5, <1>7, AsideKeeps DEF Live, Resting

LEMMA TimeoutKeeps ==
  ASSUME IInv, Timeout
  PROVE  IInv'
<1>1. /\ watcher' = IF ~PrintsDiffer THEN [watcher EXCEPT !.fallback = FALSE]
                    ELSE IF ~watcher.fallback THEN [watcher EXCEPT !.fallback = TRUE]
                    ELSE [watcher EXCEPT !.fallback = FALSE, !.pending = TRUE]
      /\ watcher \in Watcher /\ watcher.at = "on" /\ raw = {}
  BY DEF Timeout, IInv, TypeOK
<1>2. UNCHANGED <<others, graph, prints, loop, attempt, seen, raw, roots, lost>>
  BY DEF Timeout
<1>3. /\ watcher' \in Watcher /\ watcher'.at = "on" /\ watcher'.stop = watcher.stop
      /\ watcher'.error = watcher.error
      /\ watcher.pending /\ watcher.named => watcher'.pending /\ watcher'.named
  BY <1>1 DEF Watcher
<1>4. TypeOK'
  BY <1>2, <1>3 DEF IInv, TypeOK, others
<1>5. Control'
  BY <1>1, <1>2, <1>3 DEF IInv, Control, others, Fresh
<1>6. \A f \in Files : Told(f) => Told(f)'
  BY <1>1, <1>3 DEF Told
<1> QED BY <1>2, <1>4, <1>5, <1>6, AsideKeeps DEF Live, Resting

LEMMA StopsKeeps ==
  ASSUME IInv, Stops
  PROVE  IInv'
<1>1. /\ watcher' = [watcher EXCEPT !.at = "off", !.exhausted = TRUE]
      /\ watcher \in Watcher /\ watcher.at \in {"enabled", "on"} /\ watcher.stop /\ raw' = {}
  BY DEF Stops, IInv, TypeOK
<1>2. UNCHANGED <<others, graph, prints, loop, attempt, seen, roots, lost>>
  BY DEF Stops
<1>3. watcher' \in Watcher /\ watcher'.stop = watcher.stop
  BY <1>1 DEF Watcher
<1>4. TypeOK'
  BY <1>1, <1>2, <1>3 DEF IInv, TypeOK, others
<1>5. Control'
  BY <1>1, <1>2, <1>3 DEF IInv, Control, others, Fresh
<1>6. ~Live'
  BY <1>1, <1>2 DEF IInv, Control, Live, Fresh
<1> QED BY <1>2, <1>4, <1>5, <1>6, AsideKeeps DEF Live, Resting

LEMMA FailsKeeps ==
  ASSUME IInv, Fails
  PROVE  IInv'
<1>1. /\ watcher' = [watcher EXCEPT !.at = "off", !.error = TRUE, !.exhausted = TRUE]
      /\ watcher \in Watcher /\ watcher.at \in {"enabled", "on"} /\ raw' = {}
  BY DEF Fails, IInv, TypeOK
<1>2. UNCHANGED <<others, graph, prints, loop, attempt, seen, roots, lost>>
  BY DEF Fails
<1>3. watcher' \in Watcher /\ watcher'.stop = watcher.stop /\ watcher'.error
  BY <1>1 DEF Watcher
<1>4. TypeOK'
  BY <1>1, <1>2, <1>3 DEF IInv, TypeOK, others
<1>5. Control'
  BY <1>1, <1>2, <1>3 DEF IInv, Control, others, Fresh
<1>6. \A f \in Files : Told(f)'
  BY <1>3 DEF Told
<1> QED BY <1>2, <1>4, <1>5, <1>6, AsideKeeps DEF Live, Resting

LEMMA StartKeeps ==
  ASSUME IInv, Start
  PROVE  IInv'
<1>1. /\ loop' = [loop EXCEPT !.at = IF loop.catchUp THEN "load" ELSE "wait", !.restart = FALSE]
      /\ loop \in Loop /\ loop.at = "start"
      /\ watcher' = [Fresh EXCEPT !.at = "started"] /\ raw' = {} /\ roots' = Roots(graph)
  BY DEF Start, IInv, TypeOK
<1>2. UNCHANGED <<others, graph, prints, attempt, seen, lost>>
  BY DEF Start
<1>3. /\ loop' \in Loop /\ loop'.catchUp = loop.catchUp /\ loop'.first = loop.first
      /\ ~loop'.restart
      /\ loop'.at = IF loop.catchUp THEN "load" ELSE "wait"
  BY <1>1 DEF Loop, Steps
<1>4. /\ watcher' \in Watcher /\ watcher'.at = "started"
      /\ ~watcher'.stop /\ ~watcher'.pending /\ ~watcher'.error
  BY <1>1, FreshType DEF Watcher, Fresh
<1>5. TypeOK'
  BY <1>1, <1>2, <1>3, <1>4, KnownType DEF IInv, TypeOK, others
<1>6. Control'
  BY <1>1, <1>2, <1>3, <1>4 DEF IInv, Control, others
<1>7. \A f \in Files : Live' /\ Told(f) => Told(f)'
  BY <1>1, <1>3 DEF IInv, Control, Live, Told, Fresh
<1>8. loop'.at = "wait" => ~prints.on
  BY <1>1, <1>3 DEF IInv, Control
<1> QED BY <1>1, <1>2, <1>3, <1>5, <1>6, <1>7, <1>8, AsideKeeps DEF Live, Resting

LEMMA TakeKeeps ==
  ASSUME IInv, Take
  PROVE  IInv'
<1>1. /\ watcher' = [watcher EXCEPT !.pending = FALSE, !.named = FALSE]
      /\ watcher \in Watcher /\ loop \in Loop /\ loop.at = "wait" /\ watcher.pending
      /\ loop' = IF watcher.named \/ PrintsDiffer THEN [loop EXCEPT !.at = "load"] ELSE loop
  BY DEF Take, IInv, TypeOK
<1>2. UNCHANGED <<others, graph, prints, attempt, seen, raw, roots, lost>>
  BY DEF Take
<1>3. /\ loop' \in Loop /\ loop'.catchUp = loop.catchUp /\ loop'.first = loop.first
      /\ loop'.restart = loop.restart /\ loop'.at \in {"wait", "load"}
      /\ loop'.at = "wait" => ~watcher.named
  BY <1>1 DEF Loop, Steps
<1>4. /\ watcher' \in Watcher /\ watcher'.at = watcher.at /\ watcher'.error = watcher.error
      /\ watcher'.stop = watcher.stop
  BY <1>1 DEF Watcher
<1>5. TypeOK'
  BY <1>2, <1>3, <1>4 DEF IInv, TypeOK, others
<1>6. Control'
  BY <1>1, <1>2, <1>3, <1>4 DEF IInv, Control, others
<1>7. \A f \in Files : Live' /\ Told(f) => Told(f)'
  BY <1>2, <1>3, <1>4 DEF Live, Told
<1> QED BY <1>1, <1>2, <1>3, <1>5, <1>6, <1>7, AsideKeeps DEF Live, Resting

\* A loop that is not to look at its files again, or only after another generation.
LEMMA LeaveKeeps ==
  ASSUME IInv, UNCHANGED <<others, graph, prints, attempt, seen, raw, roots, lost>>,
         ~loop.first, loop' \in Loop, ~loop'.first, loop'.restart = loop.restart,
         loop'.at \in {"stop", "join", "ended"} \/ (loop'.at = "start" /\ loop'.catchUp),
         watcher' \in Watcher, watcher'.at = watcher.at, watcher'.pending = watcher.pending,
         loop'.at = "stop" => ~watcher'.stop,
         polling /\ ~prints.on => loop'.at # "start" /\ loop'.catchUp = loop.catchUp,
         loop.at # "ended"
  PROVE  IInv'
<1>1. TypeOK'
  BY DEF IInv, TypeOK, others
<1>2. Control'
  BY DEF IInv, Control, others
<1>3. ~Live' /\ ~Resting'
  BY DEF Live, Resting
<1> QED BY <1>1, <1>2, <1>3, AsideKeeps DEF Live, Resting

LEMMA GiveUpKeeps ==
  ASSUME IInv, GiveUp \/ Interrupt
  PROVE  IInv'
<1>1. /\ loop' = [loop EXCEPT !.at = "stop"] /\ loop.at = "wait"
      /\ UNCHANGED <<others, graph, prints, attempt, seen, watcher, raw, roots, lost>>
  BY DEF GiveUp, Interrupt
<1>2. loop \in Loop /\ watcher \in Watcher
  BY DEF IInv, TypeOK
<1>3. /\ loop' \in Loop /\ loop'.at = "stop" /\ loop'.first = loop.first
      /\ loop'.restart = loop.restart /\ loop'.catchUp = loop.catchUp
  BY <1>1, <1>2 DEF Loop, Steps
<1>4. ~loop.first /\ ~watcher.stop
  BY <1>1 DEF IInv, Control
<1> QED BY <1>1, <1>2, <1>3, <1>4, LeaveKeeps

LEMMA StopKeeps ==
  ASSUME IInv, Stop
  PROVE  IInv'
<1>1. /\ loop' = [loop EXCEPT !.at = "join"] /\ loop.at = "stop"
      /\ watcher' = [watcher EXCEPT !.stop = TRUE]
      /\ UNCHANGED <<others, graph, prints, attempt, seen, raw, roots, lost>>
  BY DEF Stop
<1>2. loop \in Loop /\ watcher \in Watcher
  BY DEF IInv, TypeOK
<1>3. /\ loop' \in Loop /\ loop'.at = "join" /\ loop'.first = loop.first
      /\ loop'.restart = loop.restart /\ loop'.catchUp = loop.catchUp
  BY <1>1, <1>2 DEF Loop, Steps
<1>4. watcher' \in Watcher /\ watcher'.at = watcher.at /\ watcher'.pending = watcher.pending
  BY <1>1, <1>2 DEF Watcher
<1>5. ~loop.first
  BY <1>1 DEF IInv, Control
<1> QED BY <1>1, <1>3, <1>4, <1>5, LeaveKeeps

LEMMA JoinKeeps ==
  ASSUME IInv, Join
  PROVE  IInv'
<1>1. /\ loop.at = "join" /\ watcher.at = "off"
      /\ UNCHANGED <<others, graph, prints, attempt, seen, watcher, raw, roots, lost>>
      /\ loop' = IF loop.restart THEN [loop EXCEPT !.at = "start", !.catchUp = TRUE]
                 ELSE [loop EXCEPT !.at = "ended"]
  BY DEF Join
<1>2. loop \in Loop /\ watcher \in Watcher
  BY DEF IInv, TypeOK
<1>3. /\ loop' \in Loop /\ loop'.first = loop.first /\ loop'.restart = loop.restart
      /\ loop'.at = "ended" \/ (loop'.at = "start" /\ loop'.catchUp)
  BY <1>1, <1>2 DEF Loop, Steps
<1>4. ~loop.first
  BY <1>1 DEF IInv, Control
<1>5. ~(polling /\ ~prints.on)
  BY <1>1, <1>4 DEF IInv, Control
<1> QED BY <1>1, <1>2, <1>3, <1>4, <1>5, LeaveKeeps

-----------------------------------------------------------------------------
(* Edits, and the fingerprints of the first watcher. *)

LEMMA EditKeeps ==
  ASSUME IInv, NEW e \in Files, Edit(e)
  PROVE  IInv'
<1>1. UNCHANGED <<polling, graph, prints, loop, attempt, seen, watcher, roots>>
  BY DEF Edit
<1>2. edits < MaxEdits /\ edits' = edits + 1 /\ disk' = [disk EXCEPT ![e] = edits + 1]
  BY DEF Edit
<1>3. PICK ns \in SUBSET Nameable(e), flaw \in FlawsOf(e) :
        text' = [text EXCEPT ![e] = [names |-> ns, flaw |-> flaw]]
  BY DEF Edit
<1>4. PICK event \in EventsOf(e) :
        /\ raw' = IF Watching(e) THEN raw \cup event ELSE raw
        /\ lost' = [lost EXCEPT ![e] = IF @ = "no" THEN Unnoticed(e, event) ELSE @]
  BY DEF Edit
<1>5. event \subseteq Events /\ (~polling => event = {e})
  BY <1>4 DEF EventsOf, Events
<1>6. /\ disk \in [Files -> Versions] /\ disk' \in [Files -> Versions] /\ edits' \in Versions
      /\ edits \in Nat /\ disk'[e] = edits + 1 /\ seen \in [Files -> Versions \cup {None}]
  BY <1>2, WatchAssumption DEF IInv, TypeOK, Versions
<1>7. \A f \in Files : f # e => disk'[f] = disk[f] /\ text'[f] = text[f] /\ lost'[f] = lost[f]
  BY <1>2, <1>3, <1>4 DEF IInv, TypeOK
<1>8. text'[e].names \subseteq Nameable(e) /\ text' \in [Files -> Texts]
  BY <1>3, WatchAssumption DEF IInv, TypeOK, Texts, Nameable, FlawsOf, Flaws
<1>9. lost'[e] = IF lost[e] = "no" THEN Unnoticed(e, event) ELSE lost[e]
  BY <1>4 DEF IInv, TypeOK
<1>10. lost' \in [Files -> {"no", "unwatched", "undiscovered", "staged"}]
  BY <1>4 DEF IInv, TypeOK, Unnoticed
<1>11. TypeOK'
  <2>1. raw' \subseteq Events
    BY <1>4, <1>5 DEF IInv, TypeOK
  <2> QED BY <1>1, <1>6, <1>8, <1>10, <2>1 DEF IInv, TypeOK
<1>12. \A f \in Files : disk[f] \in Int /\ seen[f] \in Int /\ prints.of[f] \in Int /\ attempt.prints[f] \in Int
  BY Shapes, Numbers, <1>6 DEF IInv
<1>13. \A f \in Files : disk[f] <= disk'[f] /\ disk'[f] <= edits'
  BY <1>2, <1>6, <1>7, <1>12 DEF IInv, Dated
<1>14. Dated'
  <2>1. ASSUME NEW f \in Files
        PROVE  /\ text'[f].names \subseteq Nameable(f) /\ disk'[f] <= edits'
               /\ seen[f] <= disk'[f]
               /\ prints.of[f] <= disk'[f] /\ attempt.prints[f] <= disk'[f]
    <3>1. /\ text[f].names \subseteq Nameable(f) /\ seen[f] <= disk[f]
          /\ prints.of[f] <= disk[f] /\ attempt.prints[f] <= disk[f]
      BY DEF IInv, Dated
    <3>2. disk'[f] \in Int
      BY <1>6 DEF Versions
    <3> QED BY <1>7, <1>8, <1>12, <1>13, <3>1, <3>2
  <2> QED BY <1>1, <2>1 DEF Dated, Nameable
<1>15. Printed' /\ Control'
  BY <1>1 DEF IInv, Printed, Control
<1>16. ~Current(e)'
  BY <1>1, <1>2, <1>6, <1>12 DEF IInv, Dated, Current
<1>17. \A f \in Files : f # e => (Current(f)' <=> Current(f))
  BY <1>1, <1>7 DEF Current
<1>18. Loaded'
  BY <1>1, <1>7, <1>16, <1>17, WatchAssumption DEF IInv, Loaded
<1>19. Reading'
  BY <1>1, <1>7, <1>16, <1>17, WatchAssumption DEF IInv, Reading
<1>20. Acknowledged'
  BY <1>1, <1>7, <1>9 DEF IInv, Acknowledged
<1>21. \A f \in Files : Told(f) => Told(f)'
  BY <1>1, <1>4 DEF Told
<1>22. Due'
  <2> SUFFICES ASSUME NEW f \in Files, seen[f] # None, lost'[f] = "no"
               PROVE  /\ polling /\ ~prints.on => Current(f)'
                      /\ Live /\ ~polling => Current(f)' \/ Told(f)'
                      /\ f = Project /\ polling /\ prints.on =>
                           /\ loop.at \in {"stage", "begin"} => Current(f)' \/ Told(f)'
                           /\ loop.at = "read" => Told(f)' \/ attempt.prints[f] <= seen[f]
                           /\ loop.at = "wait" => Told(f)' \/ prints.of[f] <= seen[f]
    BY <1>1 DEF Due, Live
  <2>1. CASE f # e
    BY <2>1, <1>7, <1>17, <1>21 DEF IInv, Due
  <2>2. CASE f = e
    <3>1. lost[e] = "no" /\ Unnoticed(e, event) = "no"
      BY <2>2, <1>9
    <3>2. ~(polling /\ ~prints.on)
      BY <2>2, <3>1 DEF Unnoticed, Coming, IInv, Control, NoPrints
    <3>3. Live => ~Coming
      BY DEF Live, Coming
    <3>4. ASSUME Live, ~polling PROVE Told(e)'
      <4>1. Watching(e) /\ (loop.at = "read" => e \in Known(graph))
        BY <2>2, <3>1, <3>3, <3>4 DEF Unnoticed
      <4>2. e \in raw' /\ watcher'.at = "on"
        BY <4>1, <1>1, <1>4, <1>5, <3>4 DEF Watching
      <4>3. e \in Known(graph)
        <5>1. CASE loop.at = "read"
          BY <5>1, <4>1
        <5>2. CASE loop.at \in {"stage", "begin"}
          <6>1. e = Project /\ ~loop.first
            BY <5>2, <2>2, <4>1 DEF IInv, Loaded, Control, Watching, Fresh
          <6>2. Project \in graph.static
            BY <5>2, <6>1 DEF IInv, Control
          <6> QED BY <6>1, <6>2 DEF Known
        <5>3. CASE Resting
          BY <5>3, <2>2 DEF IInv, Ended
        <5> QED BY <5>1, <5>2, <5>3, <3>4 DEF Live, Resting
      <4> QED BY <4>2, <4>3, <1>1 DEF Told
    <3>5. ASSUME e = Project, polling, prints.on, loop.at \in {"stage", "begin"}
          PROVE  Told(e)'
      <4>1. Watching(e) /\ event = {e}
        BY <2>2, <3>1, <3>3, <3>5 DEF Unnoticed, Live
      <4>2. e \in raw' /\ watcher'.at = "on"
        BY <4>1, <1>1, <1>4 DEF Watching
      <4>3. e \in graph.static
        BY <3>5 DEF IInv, Control
      <4> QED BY <4>2, <4>3, <1>1 DEF Told, Known
    <3>6. e = Project /\ polling /\ prints.on =>
            /\ loop.at = "read" => Told(e)' \/ attempt.prints[e] <= seen[e]
            /\ loop.at = "wait" => Told(e)' \/ prints.of[e] <= seen[e]
      BY <2>2, <3>1, <1>21 DEF IInv, Due
    <3> QED BY <2>2, <3>2, <3>4, <3>5, <3>6
  <2> QED BY <2>1, <2>2
<1>23. Ended'
  <2> SUFFICES ASSUME Resting,
                      \A f \in Files : seen[f] # None => Current(f)' /\ text'[f].flaw = "good"
               PROVE  {Project, Input} \cup text'[Project].names \cup text'[Input].names
                        \subseteq {f \in Files : seen[f] # None}
    <3>1. Resting => {f \in Files : seen[f] # None} \subseteq Known(graph)
      BY DEF IInv, Ended
    <3> QED BY <3>1, <1>1 DEF Ended, Resting
  <2>1. seen[e] = None
    BY <1>16
  <2>2. \A f \in Files : seen[f] # None => Current(f) /\ text[f].flaw = "good"
    BY <2>1, <1>7, <1>17
  <2>3. {Project, Input} \cup text[Project].names \cup text[Input].names
          \subseteq {f \in Files : seen[f] # None}
    BY <2>2 DEF IInv, Ended
  <2> QED BY <2>1, <2>3, <1>7, WatchAssumption
<1> QED BY <1>11, <1>14, <1>15, <1>18, <1>19, <1>20, <1>22, <1>23 DEF IInv

LEMMA EnableKeeps ==
  ASSUME IInv, Enable
  PROVE  IInv'
<1>1. watcher' = [watcher EXCEPT !.at = "enabled"] /\ watcher.at = "started"
  BY DEF Enable
<1>2. UNCHANGED <<polling, disk, text, edits, graph, loop, attempt, seen, raw, roots, lost>>
  BY DEF Enable, others
<1>3. /\ watcher' \in Watcher /\ watcher'.at = "enabled" /\ watcher'.stop = watcher.stop
      /\ watcher'.pending = watcher.pending /\ watcher'.named = watcher.named
      /\ watcher'.error = watcher.error
  BY <1>1 DEF IInv, TypeOK, Watcher
<1>4. \A f \in Files : Told(f) => Told(f)'
  BY <1>1, <1>2, <1>3 DEF Told
<1>5. CASE ~(polling /\ ~prints.on)
  <2>1. prints' = prints
    BY <1>5 DEF Enable
  <2>2. TypeOK'
    BY <1>2, <1>3, <2>1 DEF IInv, TypeOK
  <2>3. Control'
    BY <1>1, <1>2, <1>3, <1>5, <2>1 DEF IInv, Control, Fresh
  <2> QED BY <1>2, <1>4, <2>1, <2>2, <2>3, AsideKeeps DEF Live, Resting, others
<1>6. CASE polling /\ ~prints.on
  <2>1. prints' = [on |-> TRUE, of |-> [f \in Files |-> IF f \in Known(graph) THEN disk[f] ELSE None]]
    BY <1>6 DEF Enable
  <2>2. /\ prints'.on
        /\ \A f \in Files : prints'.of[f] = IF f \in Known(graph) THEN disk[f] ELSE None
    BY <2>1
  <2>3. prints' \in [on: BOOLEAN, of: [Files -> Versions \cup {None}]]
    BY <2>1 DEF IInv, TypeOK
  <2>4. TypeOK'
    BY <1>2, <1>3, <2>3 DEF IInv, TypeOK
  <2>5. ~loop.first /\ loop.at \in {"start", "wait", "stop", "join", "ended"}
    BY <1>1, <1>6 DEF IInv, Control, Fresh
  <2>6. Control'
    BY <1>1, <1>2, <1>3, <2>2, <2>5 DEF IInv, Control, Fresh
  <2>7. /\ \A f \in Files : disk[f] \in Nat /\ disk[f] # None
        /\ \A f \in Files : None <= disk[f]
    BY Shapes DEF IInv, None
  <2>8. Dated'
    BY <1>2, <2>2, <2>7 DEF IInv, Dated, Nameable
  <2>9. Printed'
    BY <1>2, <1>6, <2>2, <2>7, KnownType DEF IInv, TypeOK, Printed
  <2>10. Loaded' /\ Reading'
    BY <1>2, <2>5 DEF Loaded, Reading
  <2>11. \A f \in Files : seen[f] # None /\ lost[f] = "no" => seen[f] = disk[f]
    BY <1>6 DEF IInv, Due, Current
  <2>12. Acknowledged'
    BY <1>2, <2>2, <2>7, <2>11 DEF Acknowledged
  <2>13. Due'
    <3>1. \A f \in Files : prints'.of[f] <= disk[f]
      BY <2>2, <2>7
    <3> QED BY <1>2, <1>6, <2>2, <2>5, <2>11, <3>1 DEF Due, Current
  <2>14. Ended'
    BY <1>2 DEF IInv, Ended, Resting, Current
  <2> QED BY <2>4, <2>6, <2>8, <2>9, <2>10, <2>12, <2>13, <2>14 DEF IInv
<1> QED BY <1>5, <1>6

-----------------------------------------------------------------------------
(* An attempt: its steps, and its end. *)

LEMMA OverIs ==
  ASSUME TypeOK, NEW failed \in BOOLEAN, NEW g, Over(failed, g)
  PROVE  /\ loop' \in Loop /\ ~loop'.first /\ loop'.catchUp = loop.catchUp
         /\ loop.first => loop'.restart = loop.restart /\ loop'.at = IF failed THEN "ended" ELSE "start"
         /\ ~loop.first => \/ loop'.at = "wait" /\ loop'.restart = loop.restart
                           \/ loop'.at = "stop" /\ loop'.restart
<1>1. loop \in Loop
  BY DEF TypeOK
<1> QED BY <1>1 DEF Over, Loop, Steps

LEMMA PrintsOfIs ==
  ASSUME TypeOK, NEW g, NEW own \in [Files -> Versions \cup {None}]
  PROVE  /\ PrintsOf(g, own) \in [on: BOOLEAN, of: [Files -> Versions \cup {None}]]
         /\ PrintsOf(g, own).on = prints.on
         /\ \A f \in Files : PrintsOf(g, own).of[f] =
              IF ~prints.on \/ f \notin Known(g) THEN None
              ELSE IF own[f] # None THEN own[f] ELSE disk[f]
BY DEF TypeOK, PrintsOf

\* What a published graph makes of the fingerprints.
LEMMA PublishKeeps ==
  ASSUME IInv, NEW g, NEW own \in [Files -> Versions \cup {None}], Publish(g, own),
         \A f \in Files : own[f] <= disk[f], UNCHANGED <<polling, disk>>,
         Known(g) \subseteq Files
  PROVE  /\ graph' = g /\ prints' \in [on: BOOLEAN, of: [Files -> Versions \cup {None}]]
         /\ prints'.on = prints.on /\ Printed'
         /\ \A f \in Files : prints'.of[f] <= disk[f]
         /\ \A f \in Files : prints'.of[f] =
              IF ~prints.on \/ f \notin Known(g) THEN None
              ELSE IF own[f] # None THEN own[f] ELSE disk[f]
<1>1. graph' = g /\ prints' = PrintsOf(g, own) /\ TypeOK
  BY DEF Publish, IInv
<1>2. /\ prints' \in [on: BOOLEAN, of: [Files -> Versions \cup {None}]]
      /\ prints'.on = prints.on
      /\ \A f \in Files : prints'.of[f] =
           IF ~prints.on \/ f \notin Known(g) THEN None
           ELSE IF own[f] # None THEN own[f] ELSE disk[f]
  BY <1>1, PrintsOfIs
<1>3. \A f \in Files : disk[f] \in Nat /\ disk[f] # None /\ None <= disk[f]
  BY <1>1, Shapes DEF None
<1>4. \A f \in Files : prints'.of[f] <= disk[f]
  BY <1>2, <1>3
<1>5. Printed'
  BY <1>1, <1>2, <1>3 DEF IInv, Printed
<1> QED BY <1>1, <1>2, <1>4, <1>5

\* The end of an attempt: what it must leave behind for the loop to rest on.
LEMMA EndKeeps ==
  ASSUME IInv, UNCHANGED <<others, watcher, roots>>, loop.at \in {"load", "stage", "read"},
         NEW failed \in BOOLEAN, Over(failed, graph'),
         TypeOK', Dated', Printed', Acknowledged', prints'.on = prints.on, raw \subseteq raw',
         loop.first => failed \/ Project \in graph'.static,
         ~loop.first => Project \in graph'.static,
         polling /\ ~prints.on =>
           \A f \in Files : seen'[f] # None /\ lost'[f] = "no" => Current(f)',
         loop'.at \in {"wait", "start"} =>
           /\ {f \in Files : seen'[f] # None} \subseteq Known(graph')
           /\ (\A f \in Files : seen'[f] # None => Current(f)' /\ text[f].flaw = "good") =>
                {Project, Input} \cup text[Project].names \cup text[Input].names
                  \subseteq {f \in Files : seen'[f] # None}
           /\ \A f \in Files : seen'[f] # None /\ lost'[f] = "no" =>
                /\ ~polling => Current(f)' \/ Told(f)
                /\ f = Project /\ polling /\ prints.on => Told(f) \/ prints'.of[f] <= seen'[f]
  PROVE  IInv'
<1>1. UNCHANGED <<polling, disk, text, edits, watcher, roots>>
  BY DEF others
<1>2. /\ loop' \in Loop /\ ~loop'.first /\ loop'.catchUp = loop.catchUp
      /\ loop.first => loop'.restart = loop.restart /\ loop'.at = IF failed THEN "ended" ELSE "start"
      /\ ~loop.first => \/ loop'.at = "wait" /\ loop'.restart = loop.restart
                        \/ loop'.at = "stop" /\ loop'.restart
  BY OverIs DEF IInv
<1>3. Control'
  BY <1>1, <1>2 DEF IInv, Control, Fresh
<1>4. Loaded' /\ Reading'
  BY <1>2 DEF Loaded, Reading
<1>5. \A f \in Files : loop'.at \in {"wait", "start"} /\ seen'[f] # None /\ Told(f) => Told(f)'
  BY <1>1 DEF Told
<1>6. ~prints.on /\ polling => loop.first
  BY DEF IInv, Control
<1>7. Due'
  <2> SUFFICES ASSUME NEW f \in Files, seen'[f] # None, lost'[f] = "no"
               PROVE  /\ polling /\ ~prints.on => Current(f)'
                      /\ Live' /\ ~polling => Current(f)' \/ Told(f)'
                      /\ f = Project /\ polling /\ prints.on /\ loop'.at = "wait" =>
                           Told(f)' \/ prints'.of[f] <= seen'[f]
    BY <1>1, <1>2 DEF Due
  <2>1. Live' => loop'.at \in {"wait", "start"}
    BY <1>2 DEF Live
  <2>2. polling /\ ~prints.on => Current(f)'
    OBVIOUS
  <2> QED BY <2>1, <2>2, <1>5
<1>8. Ended'
  BY <1>1 DEF Ended, Resting
<1> QED BY <1>3, <1>4, <1>7, <1>8 DEF IInv

LEMMA LoadKeeps ==
  ASSUME IInv, Load
  PROVE  IInv'
<1>1. /\ loop.at = "load" /\ attempt' = [NoAttempt EXCEPT !.loaded = text[Project]]
      /\ seen' = [f \in Files |-> IF f = Project THEN disk[f] ELSE None]
      /\ lost' = [f \in Files |-> "no"]
      /\ UNCHANGED <<others, graph, prints, watcher, raw, roots>>
  BY DEF Load
<1>2. UNCHANGED <<polling, disk, text, edits, graph, prints, watcher, raw, roots>>
  BY <1>1 DEF others
<1>3. Project \in Files /\ text[Project] \in Texts
  BY WatchAssumption DEF IInv, TypeOK
<1>4. /\ attempt' \in Attempt /\ attempt'.loaded = text[Project] /\ attempt'.files = {}
      /\ attempt'.open = {} /\ ~attempt'.failed /\ attempt'.prints = NoPrints
  BY <1>1, <1>3, NoAttemptType DEF Attempt, NoAttempt
<1>5. seen' \in [Files -> Versions \cup {None}]
  BY <1>1 DEF IInv, TypeOK
<1>6. \A f \in Files : disk[f] \in Nat /\ disk[f] # None /\ None <= disk[f]
  BY Shapes DEF IInv
<1>7. lost' \in [Files -> {"no", "unwatched", "undiscovered", "staged"}]
  BY <1>1
<1>8. ASSUME loop' \in Loop PROVE TypeOK'
  BY <1>2, <1>4, <1>5, <1>7, <1>8 DEF IInv, TypeOK
<1>9. /\ seen'[Project] = disk[Project] /\ seen'[Project] # None
      /\ \A f \in Files : seen'[f] # None => f = Project
      /\ \A f \in Files : seen'[f] <= disk[f]
  BY <1>1, <1>3, <1>6
<1>10. Dated'
  <2>1. \A f \in Files : NoPrints[f] <= disk[f]
    BY <1>6 DEF NoPrints
  <2> QED BY <1>2, <1>4, <1>9, <2>1 DEF IInv, Dated, Nameable
<1>11. Printed'
  BY <1>2 DEF IInv, Printed
<1>12. Acknowledged'
  BY <1>9 DEF Acknowledged
<1>13. Current(Project)' /\ \A f \in Files : seen'[f] # None => Current(f)'
  BY <1>2, <1>9 DEF Current
<1>14. ~loop.first => Project \in graph.static /\ Project \in Known(graph)
  BY <1>1, KnownType DEF IInv, Control, TypeOK
<1>15. CASE text[Project].flaw = "unreadable"
  <2>1. Over(TRUE, graph')
    BY <1>2, <1>15 DEF Load
  <2>2. loop' \in Loop /\ (loop'.at \in {"wait", "start"} => ~loop.first)
    BY <2>1, OverIs DEF IInv
  <2>3. TypeOK'
    BY <1>8, <2>2
  <2>4. ASSUME loop'.at \in {"wait", "start"}
        PROVE  {f \in Files : seen'[f] # None} \subseteq Known(graph')
    BY <1>2, <1>9, <1>14, <2>2, <2>4
  <2>5. ~(\A f \in Files : seen'[f] # None => Current(f)' /\ text[f].flaw = "good")
    BY <1>3, <1>9, <1>15
  <2>6. ~loop.first => Project \in graph'.static
    BY <1>2, <1>14
  <2>7. prints'.of[Project] <= seen'[Project]
    BY <1>2, <1>3, <1>9 DEF IInv, Dated
  <2> QED BY <1>1, <1>2, <1>10, <1>11, <1>12, <1>13, <2>1, <2>3, <2>4, <2>5, <2>6, <2>7, EndKeeps
<1>16. CASE text[Project].flaw # "unreadable"
  <2>1. loop' = [loop EXCEPT !.at = "stage"]
    BY <1>16 DEF Load
  <2>2. /\ loop' \in Loop /\ loop'.at = "stage" /\ loop'.first = loop.first
        /\ loop'.catchUp = loop.catchUp /\ loop'.restart = loop.restart
    BY <2>1 DEF IInv, TypeOK, Loop, Steps
  <2>3. Control'
    BY <1>1, <1>2, <2>2 DEF IInv, Control, Fresh
  <2>4. text[Project].names \subseteq Options
    BY <1>3 DEF IInv, Dated, Nameable
  <2>5. Loaded' /\ Reading'
    BY <1>2, <1>4, <1>9, <2>2, <2>4 DEF Loaded, Reading
  <2>6. Due' /\ Ended'
    BY <1>13, <2>2 DEF Due, Ended, Resting
  <2> QED BY <1>8, <1>10, <1>11, <1>12, <2>2, <2>3, <2>5, <2>6 DEF IInv
<1> QED BY <1>15, <1>16

LEMMA StageKeeps ==
  ASSUME IInv, Stage
  PROVE  IInv'
<1> DEFINE named == {Input} \cup attempt.loaded.names
           valid == attempt.loaded.flaw = "good"
           g == IF valid THEN SetPending(graph, named \cup {Project})
                ELSE IF loop.first THEN graph ELSE SetPending(graph, named)
<1>1. /\ loop.at = "stage" /\ Publish(g, NoPrints)
      /\ IF valid THEN loop' = [loop EXCEPT !.at = "begin"] ELSE Over(TRUE, g)
      /\ UNCHANGED <<others, attempt, seen, watcher, raw, roots, lost>>
  BY DEF Stage
<1>2. UNCHANGED <<polling, disk, text, edits, attempt, seen, watcher, raw, roots, lost>>
  BY <1>1 DEF others
<1>3. graph \in Graphs /\ named \subseteq Files /\ Project \in Files
  BY WatchAssumption, Shapes DEF IInv, TypeOK, Texts
<1>4. /\ g \in Graphs /\ g.static = graph.static
      /\ valid => g.pending.there /\ Project \in g.pending.files
  BY <1>3, SetPendingIs
<1> HIDE DEF g
<1>5. \A f \in Files : NoPrints[f] = None /\ NoPrints[f] <= disk[f]
  BY Shapes DEF IInv, NoPrints
<1>6. /\ graph' = g /\ prints' \in [on: BOOLEAN, of: [Files -> Versions \cup {None}]]
      /\ prints'.on = prints.on /\ Printed'
      /\ \A f \in Files : prints'.of[f] <= disk[f]
      /\ \A f \in Files : prints'.of[f] = IF ~prints.on \/ f \notin Known(g) THEN None ELSE disk[f]
  BY <1>1, <1>2, <1>4, <1>5, KnownType, NoPrintsType, PublishKeeps
<1>7. ASSUME loop' \in Loop PROVE TypeOK'
  BY <1>2, <1>4, <1>6, <1>7 DEF IInv, TypeOK
<1>8. Dated'
  BY <1>2, <1>6 DEF IInv, Dated, Nameable
<1>9. /\ seen[Project] # None /\ \A f \in Files : seen[f] # None => f = Project
      /\ Current(Project) => text[Project] = attempt.loaded
  BY <1>1 DEF IInv, Loaded
<1>10. Acknowledged'
  BY <1>2, <1>9 DEF Acknowledged
<1>11. ~loop.first => Project \in graph.static /\ Project \in Known(graph) /\ Project \in Known(g)
  BY <1>1, <1>3, <1>4, KnownType DEF IInv, Control
<1>12. lost[Project] = "no" => Current(Project) \/ (Told(Project) /\ ~(polling /\ ~prints.on))
  BY <1>1, <1>3, <1>9 DEF IInv, Due, Live
<1>13. \A f \in Files : Current(f)' <=> Current(f)
  BY <1>2 DEF Current
<1>14. CASE ~valid
  <2>1. Over(TRUE, graph')
    BY <1>1, <1>6, <1>14
  <2>2. loop' \in Loop /\ (loop'.at \in {"wait", "start"} => ~loop.first)
    BY <2>1, OverIs DEF IInv
  <2>3. TypeOK'
    BY <1>7, <2>2
  <2>4. ASSUME loop'.at \in {"wait", "start"}
        PROVE  /\ {f \in Files : seen'[f] # None} \subseteq Known(graph')
               /\ ~(\A f \in Files : seen'[f] # None => Current(f)' /\ text[f].flaw = "good")
               /\ \A f \in Files : seen'[f] # None /\ lost'[f] = "no" =>
                    /\ ~polling => Current(f)' \/ Told(f)
                    /\ f = Project /\ polling /\ prints.on => Told(f) \/ prints'.of[f] <= seen'[f]
    <3>1. Project \in Known(g)
      BY <1>11, <2>2, <2>4
    <3>2. prints.on /\ Current(Project) => prints'.of[Project] <= seen[Project]
      BY <1>3, <1>6, <3>1 DEF Current
    <3>3. ~(Current(Project) /\ text[Project].flaw = "good")
      BY <1>9, <1>14
    <3> QED BY <1>2, <1>3, <1>6, <1>9, <1>12, <1>13, <3>1, <3>2, <3>3
  <2>5. polling /\ ~prints.on =>
          \A f \in Files : seen'[f] # None /\ lost'[f] = "no" => Current(f)'
    BY <1>2, <1>9, <1>12, <1>13
  <2>6. ~loop.first => Project \in graph'.static
    BY <1>4, <1>6, <1>11
  <2> QED BY <1>1, <1>2, <1>6, <1>8, <1>10, <2>1, <2>3, <2>4, <2>5, <2>6, EndKeeps
<1>15. CASE valid
  <2>1. loop' = [loop EXCEPT !.at = "begin"]
    BY <1>1, <1>15
  <2>2. /\ loop' \in Loop /\ loop'.at = "begin" /\ loop'.first = loop.first
        /\ loop'.catchUp = loop.catchUp /\ loop'.restart = loop.restart
    BY <2>1 DEF IInv, TypeOK, Loop, Steps
  <2>3. Control'
    BY <1>1, <1>2, <1>4, <1>6, <2>2 DEF IInv, Control, Fresh
  <2>4. Loaded'
    <3>1. /\ attempt.loaded.names \subseteq Options /\ attempt.files = {} /\ attempt.open = {}
          /\ ~attempt.failed
      BY <1>1 DEF IInv, Loaded
    <3> QED BY <1>2, <1>3, <1>4, <1>6, <1>9, <1>13, <1>15, <2>2, <3>1 DEF Loaded
  <2>5. Reading'
    BY <2>2 DEF Reading
  <2>6. Told(Project) => Told(Project)'
    <3>1. Told(Project) => ~loop.first \/ watcher.at # "on"
      BY DEF IInv, Control, Fresh
    <3> QED BY <1>2, <1>6, <1>11, <3>1 DEF Told
  <2>7. Due'
    BY <1>2, <1>6, <1>9, <1>12, <1>13, <2>2, <2>6 DEF Due
  <2>8. Ended'
    BY <2>2 DEF Ended, Resting
  <2> QED BY <1>6, <1>7, <1>8, <1>10, <2>2, <2>3, <2>4, <2>5, <2>7, <2>8 DEF IInv
<1> QED BY <1>14, <1>15

LEMMA BeginKeeps ==
  ASSUME IInv, Begin
  PROVE  IInv'
<1> DEFINE taken == [f \in Files |-> IF prints.on /\ f \in Known(graph) THEN disk[f] ELSE None]
<1>1. /\ loop.at = "begin" /\ loop' = [loop EXCEPT !.at = "read"]
      /\ attempt' = [attempt EXCEPT !.todo = {Input} \cup attempt.loaded.names, !.prints = taken]
      /\ UNCHANGED <<others, graph, prints, seen, watcher, raw, roots, lost>>
  BY DEF Begin
<1>2. UNCHANGED <<polling, disk, text, edits, graph, prints, seen, watcher, raw, roots, lost>>
  BY <1>1 DEF others
<1>3. /\ attempt.loaded.names \subseteq Options /\ attempt.files = {} /\ attempt.open = {}
      /\ ~attempt.failed /\ \A f \in Files : seen[f] # None => f = Project
      /\ seen[Project] # None /\ Project \in graph.pending.files /\ graph.pending.there
  BY <1>1 DEF IInv, Loaded
<1>4. taken \in [Files -> Versions \cup {None}]
  BY DEF IInv, TypeOK
<1>5. /\ attempt' \in Attempt /\ attempt'.todo = {Input} \cup attempt.loaded.names
      /\ attempt'.prints = taken /\ attempt'.files = {} /\ attempt'.open = {}
      /\ ~attempt'.failed /\ attempt'.loaded = attempt.loaded
  BY <1>1, <1>3, <1>4, WatchAssumption DEF IInv, TypeOK, Attempt
<1>6. /\ loop' \in Loop /\ loop'.at = "read" /\ loop'.first = loop.first
      /\ loop'.catchUp = loop.catchUp /\ loop'.restart = loop.restart
  BY <1>1 DEF IInv, TypeOK, Loop, Steps
<1>7. TypeOK'
  BY <1>2, <1>5, <1>6 DEF IInv, TypeOK
<1>8. \A f \in Files : disk[f] \in Nat /\ disk[f] # None /\ None <= disk[f]
  BY Shapes DEF IInv
<1>9. Project \in Files /\ Project \in Known(graph)
  BY <1>3, KnownType, WatchAssumption DEF IInv, TypeOK
<1>10. /\ \A f \in Files : taken[f] <= disk[f]
       /\ taken[Project] = IF prints.on THEN disk[Project] ELSE None
  BY <1>8, <1>9
<1> HIDE DEF taken
<1>11. Dated'
  BY <1>2, <1>5, <1>10 DEF IInv, Dated, Nameable
<1>12. Printed' /\ Acknowledged'
  BY <1>2 DEF IInv, Printed, Acknowledged
<1>13. Control'
  BY <1>1, <1>2, <1>6 DEF IInv, Control, Fresh
<1>14. Loaded'
  BY <1>1, <1>2, <1>5, <1>6 DEF IInv, Loaded, Current
<1>15. Reading'
  BY <1>2, <1>3, <1>5, <1>6, <1>8, <1>9, <1>10, WatchAssumption DEF Reading
<1>16. Told(Project)' <=> Told(Project)
  BY <1>2 DEF Told
<1>17. Due'
  <2>1. lost[Project] = "no" => /\ polling /\ ~prints.on => Current(Project)
                                /\ Current(Project) \/ Told(Project)
    BY <1>1, <1>3, <1>9 DEF IInv, Due, Live
  <2>2. prints.on /\ Current(Project) => taken[Project] <= seen[Project]
    BY <1>8, <1>9, <1>10 DEF Current
  <2> QED BY <1>2, <1>3, <1>5, <1>6, <1>16, <2>1, <2>2 DEF Due, Current
<1>18. Ended'
  BY <1>6 DEF Ended, Resting
<1> QED BY <1>7, <1>11, <1>12, <1>13, <1>14, <1>15, <1>17, <1>18 DEF IInv

\* A file is recorded before it is read, with its fingerprint.
LEMMA RecordKeeps ==
  ASSUME IInv, NEW e \in Files, Record(e)
  PROVE  IInv'
<1>1. /\ loop.at = "read" /\ attempt.open = {} /\ e \in attempt.todo
      /\ attempt' = [attempt EXCEPT
           !.open = {e}, !.todo = @ \ {e}, !.files = @ \cup {e},
           !.prints[e] = IF prints.on /\ @ = None THEN disk[e] ELSE @]
      /\ UNCHANGED <<others, graph, prints, loop, seen, watcher, raw, roots, lost>>
  BY DEF Record
<1>2. UNCHANGED <<polling, disk, text, edits, graph, prints, loop, seen, watcher, raw, roots, lost>>
  BY <1>1 DEF others
<1> DEFINE own == [attempt.prints EXCEPT ![e] = IF prints.on /\ @ = None THEN disk[e] ELSE @]
<1>3. attempt \in Attempt /\ own \in [Files -> Versions \cup {None}]
  BY Shapes DEF IInv, TypeOK
<1>4. /\ attempt'.open = {e} /\ attempt'.todo = attempt.todo \ {e}
      /\ attempt'.files = attempt.files \cup {e} /\ attempt'.prints = own
      /\ attempt'.failed = attempt.failed /\ attempt'.loaded = attempt.loaded
      /\ attempt' \in Attempt
  BY <1>1, <1>3 DEF Attempt
<1>5. \A f \in Files : disk[f] \in Nat /\ disk[f] # None /\ None <= disk[f]
  BY Shapes DEF IInv
<1>6. \A f \in Files :
        /\ own[f] = IF f = e /\ prints.on /\ attempt.prints[f] = None THEN disk[f] ELSE attempt.prints[f]
        /\ own[f] <= disk[f]
  <2>1. attempt.prints \in [Files -> Versions \cup {None}] /\ \A f \in Files : attempt.prints[f] <= disk[f]
    BY Shapes DEF IInv, Dated
  <2>2. \A f \in Files :
          own[f] = IF f = e /\ prints.on /\ attempt.prints[f] = None THEN disk[f] ELSE attempt.prints[f]
    BY <2>1
  <2>3. ASSUME NEW f \in Files PROVE own[f] <= disk[f]
    <3>1. disk[f] <= disk[f] /\ attempt.prints[f] <= disk[f]
      BY <1>5, <2>1
    <3> QED BY <2>2, <3>1
  <2> QED BY <2>2, <2>3
<1> HIDE DEF own
<1>7. TypeOK'
  BY <1>2, <1>4 DEF IInv, TypeOK
<1>8. Dated'
  BY <1>2, <1>4, <1>6 DEF IInv, Dated, Nameable
<1>9. Printed' /\ Acknowledged' /\ Control' /\ Ended'
  BY <1>2 DEF IInv, Printed, Acknowledged, Control, Ended, Resting, Current
<1>10. Loaded'
  BY <1>1, <1>2, <1>4 DEF IInv, Loaded, Current
<1>11. e # Project /\ e \notin attempt.files /\ seen[e] = None
  BY <1>1 DEF IInv, Reading
<1>12. Reading'
  <2>1. \A f \in Files : Current(f)' <=> Current(f)
    BY <1>2 DEF Current
  <2>2. Reading
    BY DEF IInv
  <2>3. ~attempt.failed
    BY <1>1, <2>2 DEF Reading
  <2>4. /\ attempt'.open \subseteq attempt'.files /\ attempt'.files \cap attempt'.todo = {}
        /\ \A f, g \in attempt'.open : f = g
    BY <1>1, <1>4, <1>11, <2>2 DEF Reading
  <2>5. /\ Project \notin attempt'.files \cup attempt'.todo
        /\ attempt'.files \cup attempt'.todo = attempt.files \cup attempt.todo
    BY <1>1, <1>4, <2>2 DEF Reading
  <2>6. \A f \in Files : seen[f] # None <=> f = Project \/ f \in attempt'.files \ attempt'.open
    BY <1>1, <1>4, <1>11, <2>2 DEF Reading
  <2>7. prints.on => \A f \in attempt'.files \cup {Project} : own[f] # None
    <3>1. attempt.files \cup {Project, e} \subseteq Files
      BY Shapes, WatchAssumption DEF IInv
    <3> QED BY <1>1, <1>4, <1>5, <1>6, <2>2, <3>1 DEF Reading
  <2>8. \A f \in Files \ {Project} : seen[f] # None => own[f] <= seen[f]
    BY <1>1, <1>6, <1>11, <2>2 DEF Reading
  <2>9. seen[Input] # None /\ Current(Input) => text[Input].names \subseteq attempt.files \cup attempt.todo
    BY <1>1, <2>2, <2>3 DEF Reading
  <2>10. {Input} \cup attempt.loaded.names \subseteq attempt.files \cup attempt.todo
    BY <1>1, <2>2, <2>3 DEF Reading
  <2>11. Input \in Files
    BY WatchAssumption
  <2> QED BY <1>2, <1>4, <2>1, <2>3, <2>4, <2>5, <2>6, <2>7, <2>8, <2>9, <2>10, <2>11 DEF Reading
<1>13. Due'
  <2>1. own[Project] = attempt.prints[Project]
    BY <1>6, <1>11, WatchAssumption
  <2>2. \A f \in Files : Told(f)' <=> Told(f)
    BY <1>2 DEF Told
  <2> QED BY <1>1, <1>2, <1>4, <2>1, <2>2 DEF IInv, Due, Live, Current
<1> QED BY <1>7, <1>8, <1>9, <1>10, <1>12, <1>13 DEF IInv

\* A file is read: what it names is to be read too, or the attempt has failed.
LEMMA ReadKeeps ==
  ASSUME IInv, NEW e \in Files, Read(e)
  PROVE  IInv'
<1> DEFINE bad == text[e].flaw # "good"
           more == IF e = Input THEN text[e].names \ attempt.files ELSE {}
<1>1. /\ loop.at = "read" /\ e \in attempt.open
      /\ seen' = [seen EXCEPT ![e] = disk[e]] /\ lost' = [lost EXCEPT ![e] = "no"]
      /\ attempt' = [attempt EXCEPT
           !.open = {}, !.failed = bad, !.todo = IF bad THEN {} ELSE @ \cup more]
      /\ UNCHANGED <<others, graph, prints, loop, watcher, raw, roots>>
  BY DEF Read
<1>2. UNCHANGED <<polling, disk, text, edits, graph, prints, loop, watcher, raw, roots>>
  BY <1>1 DEF others
<1>3. /\ attempt \in Attempt /\ seen \in [Files -> Versions \cup {None}]
      /\ text[e].names \subseteq Files
      /\ e = Input => text[e].names \subseteq References
  BY WatchAssumption DEF IInv, TypeOK, Texts, Dated, Nameable
<1>4. /\ attempt'.open = {} /\ attempt'.failed = bad /\ attempt'.files = attempt.files
      /\ attempt'.todo = (IF bad THEN {} ELSE attempt.todo \cup more)
      /\ attempt'.prints = attempt.prints /\ attempt'.loaded = attempt.loaded
      /\ attempt' \in Attempt
  BY <1>1, <1>3 DEF Attempt
<1>5. /\ \A f \in Files : disk[f] \in Nat /\ disk[f] # None /\ None <= disk[f]
      /\ attempt.open \subseteq Files /\ attempt.files \subseteq Files
  BY Shapes DEF IInv
<1>6. /\ seen' \in [Files -> Versions \cup {None}] /\ seen'[e] = disk[e]
      /\ \A f \in Files : f # e => seen'[f] = seen[f] /\ lost'[f] = lost[f]
      /\ lost' \in [Files -> {"no", "unwatched", "undiscovered", "staged"}]
  BY <1>1 DEF IInv, TypeOK
<1>7. Reading /\ Dated
  BY DEF IInv
<1>8. /\ e # Project /\ ~attempt.failed /\ attempt.open \subseteq attempt.files
      /\ attempt.open = {e}
  BY <1>1, <1>7 DEF Reading
<1>9. TypeOK'
  BY <1>2, <1>4, <1>6 DEF IInv, TypeOK
<1>10. Dated'
  BY <1>2, <1>4, <1>5, <1>6, <1>7 DEF Dated, Nameable
<1>11. Printed' /\ Control'
  BY <1>1, <1>2 DEF IInv, Printed, Control
<1>12. Current(e)' /\ \A f \in Files : f # e => (Current(f)' <=> Current(f))
  BY <1>2, <1>6 DEF Current
<1>13. Loaded'
  BY <1>1, <1>2, <1>4, <1>6, <1>8, <1>12, WatchAssumption DEF IInv, Loaded
<1>14. Acknowledged'
  BY <1>2, <1>6, <1>7 DEF IInv, Acknowledged, Dated
<1>15. Reading'
  <2>1. /\ attempt'.open \subseteq attempt'.files /\ \A f, g \in attempt'.open : f = g
        /\ attempt'.files \cap attempt'.todo = {}
        /\ Project \notin attempt'.files \cup attempt'.todo
    BY <1>1, <1>3, <1>4, <1>7, <1>8, WatchAssumption DEF Reading
  <2>2. \A f \in Files : seen'[f] # None <=> f = Project \/ f \in attempt'.files \ attempt'.open
    BY <1>1, <1>4, <1>5, <1>6, <1>7, <1>8 DEF Reading
  <2>3. ASSUME ~bad
        PROVE  /\ {Input} \cup attempt.loaded.names \subseteq attempt'.files \cup attempt'.todo
               /\ seen'[Input] # None /\ Current(Input)' =>
                    text[Input].names \subseteq attempt'.files \cup attempt'.todo
    <3>1. attempt.files \cup attempt.todo \cup more \subseteq attempt'.files \cup attempt'.todo
      BY <1>4, <2>3
    <3>2. {Input} \cup attempt.loaded.names \subseteq attempt'.files \cup attempt'.todo
      BY <1>1, <1>7, <1>8, <3>1 DEF Reading
    <3>3. CASE e = Input
      BY <3>1, <3>2, <3>3
    <3>4. CASE e # Input
      <4>1. seen[Input] # None /\ Current(Input) => text[Input].names \subseteq attempt.files \cup attempt.todo
        BY <1>1, <1>7, <1>8 DEF Reading
      <4> QED BY <1>6, <1>12, <3>1, <3>2, <3>4, <4>1, WatchAssumption
    <3> QED BY <3>3, <3>4
  <2>4. bad => /\ attempt'.todo = {}
               /\ \E f \in Files : seen'[f] # None /\ (Current(f)' => text[f].flaw # "good")
    BY <1>4, <1>5, <1>6
  <2>5. prints.on => \A f \in attempt.files \cup {Project} : attempt.prints[f] # None
    BY <1>1, <1>7 DEF Reading
  <2>6. \A f \in Files \ {Project} : seen'[f] # None => attempt.prints[f] <= seen'[f]
    BY <1>1, <1>6, <1>7 DEF Reading, Dated
  <2> QED BY <1>2, <1>4, <2>1, <2>2, <2>3, <2>4, <2>5, <2>6 DEF Reading
<1>16. Due'
  <2>1. \A f \in Files : Told(f)' <=> Told(f)
    BY <1>2 DEF Told
  <2> QED BY <1>1, <1>2, <1>4, <1>6, <1>8, <1>12, <2>1 DEF IInv, Due, Live
<1>17. Ended'
  BY <1>1, <1>2 DEF Ended, Resting
<1> QED BY <1>9, <1>10, <1>11, <1>13, <1>14, <1>15, <1>16, <1>17 DEF IInv

\* What an attempt that read all it was to read leaves behind.
LEMMA FinishKeeps ==
  ASSUME IInv, Finish
  PROVE  IInv'
<1> DEFINE g == IF attempt.failed THEN Fail(graph, attempt.files) ELSE Commit(graph, attempt.files)
           read == {f \in Files : seen[f] # None}
<1>1. /\ loop.at = "read" /\ attempt.open = {} /\ attempt.todo = {}
      /\ Publish(g, attempt.prints) /\ Over(attempt.failed, g)
      /\ raw' = IF watcher.at = "on" /\ ~attempt.failed THEN raw \cup {Output} ELSE raw
      /\ attempt' = NoAttempt
      /\ UNCHANGED <<others, seen, watcher, roots, lost>>
  BY DEF Finish
<1>2. UNCHANGED <<polling, disk, text, edits, seen, watcher, roots, lost>>
  BY <1>1 DEF others
<1>3. /\ graph \in Graphs /\ attempt.files \subseteq Files /\ attempt.failed \in BOOLEAN
      /\ attempt.prints \in [Files -> Versions \cup {None}] /\ Project \in Files
      /\ Input \in Files
  BY WatchAssumption, Shapes DEF IInv, TypeOK
<1>4. graph.pending.there /\ Project \in graph.pending.files
  BY <1>1 DEF IInv, Loaded
<1>5. /\ g \in Graphs /\ attempt.files \subseteq Known(g)
      /\ g.static = IF attempt.failed THEN graph.static ELSE graph.pending.files
  BY <1>3, <1>4, FailIs, CommitIs
<1>6. Known(g) \subseteq Files /\ g.static \subseteq Known(g)
  BY <1>5, KnownType
<1> HIDE DEF g
<1>7. Dated /\ Reading /\ Loaded
  BY DEF IInv
<1>8. /\ graph' = g /\ prints' \in [on: BOOLEAN, of: [Files -> Versions \cup {None}]]
      /\ prints'.on = prints.on /\ Printed'
      /\ \A f \in Files : prints'.of[f] <= disk[f]
      /\ \A f \in Files : prints'.of[f] =
           IF ~prints.on \/ f \notin Known(g) THEN None
           ELSE IF attempt.prints[f] # None THEN attempt.prints[f] ELSE disk[f]
  BY <1>1, <1>2, <1>3, <1>6, <1>7, PublishKeeps DEF Dated
<1>9. loop' \in Loop /\ (loop'.at \in {"wait", "start"} => ~loop.first \/ ~attempt.failed)
  BY <1>1, <1>3, OverIs DEF IInv
<1>10. TypeOK'
  <2>1. raw' \subseteq Events
    BY <1>1 DEF IInv, TypeOK, Events
  <2> QED BY <1>1, <1>2, <1>5, <1>8, <1>9, <2>1, NoAttemptType DEF IInv, TypeOK
<1>11. Dated'
  <2>1. \A f \in Files : NoAttempt.prints[f] <= disk[f]
    BY Shapes DEF IInv, NoAttempt, NoPrints
  <2> QED BY <1>1, <1>2, <1>7, <1>8, <2>1 DEF Dated, Nameable
<1>12. read = attempt.files \cup {Project}
  BY <1>1, <1>3, <1>7 DEF Reading
<1>13. \A f \in read : prints.on => attempt.prints[f] # None
  BY <1>1, <1>7, <1>12 DEF Reading
<1>14. Acknowledged'
  <2> SUFFICES ASSUME NEW f \in Files \ {Project}, prints'.of[f] # None, seen[f] # None
               PROVE  prints'.of[f] <= seen[f]
    BY <1>2 DEF Acknowledged
  <2>1. prints.on /\ prints'.of[f] = attempt.prints[f]
    BY <1>8, <1>13
  <2> QED BY <1>1, <1>7, <2>1 DEF Reading
<1>15. (loop.first => attempt.failed \/ Project \in g.static) /\ (~loop.first => Project \in g.static)
  BY <1>1, <1>4, <1>5 DEF IInv, Control
<1>16. \A f \in Files : Current(f)' <=> Current(f)
  BY <1>2 DEF Current
<1>17. ASSUME loop'.at \in {"wait", "start"}
       PROVE  {f \in Files : seen'[f] # None} \subseteq Known(graph')
  BY <1>2, <1>5, <1>6, <1>8, <1>9, <1>12, <1>15, <1>17
<1>18. ASSUME \A f \in Files : seen'[f] # None => Current(f)' /\ text[f].flaw = "good"
       PROVE  {Project, Input} \cup text[Project].names \cup text[Input].names
                \subseteq {f \in Files : seen'[f] # None}
  <2>1. \A f \in read : Current(f) /\ text[f].flaw = "good"
    BY <1>2, <1>16, <1>18
  <2>2. ~attempt.failed
    BY <1>1, <1>7, <2>1 DEF Reading
  <2>3. {Input} \cup attempt.loaded.names \subseteq attempt.files
    BY <1>1, <1>7, <2>2 DEF Reading
  <2>4. text[Project] = attempt.loaded
    BY <1>1, <1>7, <1>12, <2>1 DEF Loaded
  <2>5. Input \in read
    BY <1>12, <2>3
  <2>6. text[Input].names \subseteq attempt.files
    BY <1>1, <1>7, <2>1, <2>2, <2>5 DEF Reading
  <2> QED BY <1>2, <1>12, <2>3, <2>4, <2>6
<1>19. polling /\ ~prints.on =>
         \A f \in Files : seen'[f] # None /\ lost'[f] = "no" => Current(f)'
  BY <1>2, <1>16 DEF IInv, Due
<1>20. ASSUME loop'.at \in {"wait", "start"}, NEW f \in Files, seen'[f] # None, lost'[f] = "no"
       PROVE  /\ ~polling => Current(f)' \/ Told(f)
              /\ f = Project /\ polling /\ prints.on => Told(f) \/ prints'.of[f] <= seen'[f]
  <2>1. /\ ~polling => Current(f) \/ Told(f)
        /\ f = Project /\ polling /\ prints.on => Told(f) \/ attempt.prints[f] <= seen[f]
    BY <1>1, <1>2, <1>20 DEF IInv, Due, Live
  <2>2. f \in read /\ f \in Known(g)
    BY <1>2, <1>8, <1>17, <1>20
  <2>3. prints.on => prints'.of[f] = attempt.prints[f]
    BY <1>8, <1>13, <2>2
  <2> QED BY <1>2, <1>16, <2>1, <2>3
<1>21. Over(attempt.failed, graph') /\ raw \subseteq raw'
  BY <1>1, <1>8
<1>22. (loop.first => attempt.failed \/ Project \in graph'.static) /\ (~loop.first => Project \in graph'.static)
  BY <1>8, <1>15
<1> HIDE DEF read
<1> QED BY <1>1, <1>3, <1>8, <1>10, <1>11, <1>14, <1>17, <1>18, <1>19, <1>20, <1>21, <1>22, EndKeeps

-----------------------------------------------------------------------------

LEMMA InitSound == Init => IInv
<1> SUFFICES ASSUME Init PROVE IInv
  OBVIOUS
<1>1. /\ loop.at = "load" /\ loop.first /\ ~loop.catchUp /\ ~loop.restart /\ loop \in Loop
      /\ watcher = Fresh /\ attempt = NoAttempt /\ seen = NoPrints
      /\ prints.on = FALSE /\ prints.of = NoPrints /\ graph = EmptyGraph
      /\ \A f \in Files : text[f].names = {} /\ disk[f] = 0
  BY DEF Init, Loop, Steps
<1>2. \A f \in Files : NoPrints[f] = None /\ NoPrints[f] <= 0
  BY DEF NoPrints, None
<1>3. TypeOK
  <2>1. graph \in Graphs /\ text \in [Files -> Texts]
    BY DEF Init, EmptyGraph, NoCandidate, Graphs, Candidates, Texts, Flaws
  <2>2. /\ prints \in [on: BOOLEAN, of: [Files -> Versions \cup {None}]]
        /\ seen \in [Files -> Versions \cup {None}]
    BY NoPrintsType DEF Init
  <2>3. disk \in [Files -> Versions] /\ edits \in Versions
    BY WatchAssumption DEF Init, Versions
  <2> QED BY <1>1, <2>1, <2>2, <2>3, NoAttemptType, FreshType DEF Init, TypeOK
<1>4. Dated
  <2>1. attempt.prints = NoPrints /\ edits = 0
    BY <1>1 DEF Init, NoAttempt
  <2>2. \A f \in Files : seen[f] <= 0 /\ prints.of[f] <= 0 /\ attempt.prints[f] <= 0
    BY <1>1, <1>2, <2>1
  <2>3. ASSUME NEW f \in Files
        PROVE  /\ text[f].names \subseteq Nameable(f) /\ disk[f] <= edits
               /\ seen[f] <= disk[f] /\ prints.of[f] <= disk[f] /\ attempt.prints[f] <= disk[f]
    BY <1>1, <2>1, <2>2
  <2> QED BY <2>3 DEF Dated
<1>5. Printed /\ Control
  BY <1>1, <1>2 DEF Printed, Control, Fresh
<1>6. Loaded /\ Reading /\ Ended
  BY <1>1 DEF Loaded, Reading, Ended, Resting
<1>7. Acknowledged /\ Due
  BY <1>1, <1>2 DEF Acknowledged, Due
<1> QED BY <1>3, <1>4, <1>5, <1>6, <1>7 DEF IInv

\* Every reachable state.
LEMMA InvariantHolds == Spec => []IInv
<1>1. IInv /\ [Next]_vars => IInv'
  <2> SUFFICES ASSUME IInv, [Next]_vars PROVE IInv'
    OBVIOUS
  <2>1. CASE Load \/ Stage \/ Begin \/ Finish
    BY <2>1, LoadKeeps, StageKeeps, BeginKeeps, FinishKeeps
  <2>2. CASE \E f \in Files : Record(f) \/ Read(f)
    BY <2>2, RecordKeeps, ReadKeeps
  <2>3. CASE Start \/ Take \/ GiveUp \/ Stop \/ Join
    BY <2>3, StartKeeps, TakeKeeps, GiveUpKeeps, StopKeeps, JoinKeeps
  <2>4. CASE Enable \/ Subscribe \/ Deliver \/ Timeout \/ Stops
    BY <2>4, EnableKeeps, SubscribeKeeps, DeliverKeeps, TimeoutKeeps, StopsKeeps
  <2>5. CASE Interrupt \/ Fails
    BY <2>5, GiveUpKeeps, FailsKeeps
  <2>6. CASE \E f \in Files : Edit(f)
    BY <2>6, EditKeeps
  <2>7. CASE UNCHANGED vars
    <3>1. UNCHANGED <<others, graph, prints, loop, attempt, seen, watcher, raw, roots, lost>>
      BY <2>7 DEF vars
    <3>2. TypeOK'
      BY <3>1 DEF IInv, TypeOK, others
    <3>3. Control' /\ \A f \in Files : Told(f) => Told(f)'
      BY <3>1 DEF IInv, Control, Told, others
    <3> QED BY <3>1, <3>2, <3>3, AsideKeeps DEF Live, Resting
  <2> QED BY <2>1, <2>2, <2>3, <2>4, <2>5, <2>6, <2>7 DEF Next, Looping, Regenerate, Watches
<1> QED BY <1>1, InitSound, PTL DEF Spec

\* Each of the loop's, the thread's and the graph's variables stays in its set.
THEOREM TypeCorrect == Spec => []TypeOK
<1>1. IInv => TypeOK
  BY DEF IInv
<1> QED BY <1>1, InvariantHolds, PTL

\* A generation acknowledges the versions it read and no later edit: it fingerprints a file before
\* it reads it, and what the snapshot publishes is that fingerprint (generation, record_file,
\* _create_snapshot), but for the project's file and for the edits no run of the thread saw.
THEOREM ReadAcknowledged == Spec => []AcknowledgesRead
<1>1. IInv => AcknowledgesRead
  BY DEF IInv, Acknowledged, AcknowledgesRead
<1> QED BY <1>1, InvariantHolds, PTL

\* A loop that waits with nothing on its way has read every file the last generation depends on as
\* it now is: no order of edits, events, the thread's filter, the hand-off and the restart of the
\* watcher makes _run_watch_loop swallow an edit, but those the model declares lost.
THEOREM NoneForgotten == Spec => []NothingForgotten
<1> DEFINE read == {f \in Files : seen[f] # None}
<1>1. ASSUME IInv, loop.at = "wait", ~OnItsWay, NEW f \in read
      PROVE  Current(f) \/ lost[f] # "no"
  <2> SUFFICES ASSUME lost[f] = "no" PROVE Current(f)
    OBVIOUS
  <2>1. Live /\ Resting
    BY <1>1 DEF Live, Resting
  <2>2. f \in Known(graph)
    BY <1>1, <2>1 DEF IInv, Ended
  <2>3. f # Output
    BY WatchAssumption
  <2>4. ~Told(f)
    BY <1>1, <2>2, <2>3 DEF Told, OnItsWay, Accepts
  <2>5. CASE ~polling
    BY <1>1, <2>1, <2>4, <2>5 DEF IInv, Due
  <2>6. CASE polling /\ ~prints.on
    BY <1>1, <2>6 DEF IInv, Due
  <2>7. CASE polling /\ prints.on
    <3>1. prints.of[f] # None /\ prints.of[f] = disk[f]
      BY <1>1, <2>2, <2>7 DEF IInv, Printed, OnItsWay, PrintsDiffer
    <3>2. prints.of[f] <= seen[f]
      BY <1>1, <2>4, <2>7, <3>1 DEF IInv, Due, Acknowledged
    <3>3. seen[f] <= disk[f] /\ disk[f] \in Int /\ seen[f] \in Int
      BY <1>1, Shapes, Numbers DEF IInv, TypeOK, Dated
    <3> QED BY <3>1, <3>2, <3>3 DEF Current
  <2> QED BY <2>5, <2>6, <2>7
<1>2. ASSUME IInv, loop.at = "wait", ~OnItsWay, NEW f \in Needed
      PROVE  Current(f) \/ lost[f] # "no"
  <2>1. CASE f \in read
    BY <1>1, <1>2, <2>1
  <2>2. CASE f \notin read
    <3>1. /\ \A r \in read : Current(r) /\ text[r].flaw = "good"
          /\ f \in {Project, Input} \cup text[Project].names \cup text[Input].names
      BY <1>2, <2>2 DEF Needed
    <3> QED BY <1>2, <2>2, <3>1 DEF IInv, Ended, Resting
  <2> QED BY <2>1, <2>2
<1>3. IInv => NothingForgotten
  BY <1>2 DEF NothingForgotten
<1> QED BY <1>3, InvariantHolds, PTL
=============================================================================
