---------------------------- MODULE Publication -----------------------------
(***************************************************************************)
(* The publication of staged files (_publication.py, on POSIX): one call   *)
(* replaces each target by its staged file, through the descriptor of its  *)
(* directory, and keeps a journal from which any failure is rolled back.   *)
(* A call may fail at any system call and be interrupted anywhere; others  *)
(* write and delete targets, and replace the directory the call publishes  *)
(* into: the path then names another tree of directories.                  *)
(***************************************************************************)
EXTENDS Integers, Sequences

CONSTANTS
  Count,      \* how many files the call publishes
  Dirs,       \* directories below the anchored one
  Chain,      \* the directories on the way to each file's target, outermost first
  MaxFaults,  \* bound: failed system calls, interrupts
  MaxMoves    \* bound: steps of others

ASSUME PublicationAssumption ==
  /\ Count \in Nat \ {0} /\ MaxFaults \in Nat /\ MaxMoves \in Nat
  /\ Chain \in [1..Count -> Seq(Dirs)]

Files == 1..Count
Trees == {"planned", "other"}
Slots == Trees \X Files
Made  == Trees \X Dirs

\* What a directory entry names: nothing, the original target, a second inode with the
\* original's content, what a failed copy of it left, the staged file, another's file, or
\* a directory.
Entries == {"none", "old", "copy", "partial", "new", "foreign", "directory"}
Kinds   == {"none", "file", "link", "directory"}

VARIABLES
  target,    \* the entry of each target, by the tree and the file
  backup,    \* the entry beside it that keeps the original
  dirs,      \* the directories there are
  at,        \* the tree the planned path names
  pc,        \* where the call is
  next,      \* the file it publishes, or Count + 1 once all are
  tree,      \* the tree the open descriptor is in
  depth,     \* how many directories of the file's chain are open
  saved,     \* whether the target has a backup, not journaled yet
  journal,   \* journal
  created,   \* created_directories
  undo,      \* the index a rollback or the cleanup has come to
  error,     \* what was raised
  failures,  \* what the rollback could not undo
  touched,   \* the targets others wrote or deleted
  faults, moves,
  was, wasDirs  \* the targets' kinds and the directories before the call

world == <<target, backup, dirs>>
call  == <<next, tree, depth, saved, journal, created>>
ended == <<undo, error, failures>>
rest  == <<at, touched, moves, was, wasDirs>>
vars  == <<world, call, ended, rest, pc, faults>>

Places == {"validate", "enter", "walk", "record", "journal", "replace", "anchored", "matched",
           "rollback", "unmake", "cleanup", "raised", "published"}

\* "cut" is an interrupt of the rollback or the cleanup, "dup" a created directory whose
\* descriptor could not be duplicated, so that it is not journaled, "torn" a copy that
\* failed and could not be removed.
Raised == {"none", "os", "dup", "torn", "interrupt", "cut"}

Journaled == [file: Files, tree: Trees, saved: BOOLEAN]

TypeOK ==
  /\ target \in [Slots -> Entries] /\ backup \in [Slots -> Entries] /\ dirs \subseteq Made
  /\ at \in Trees /\ pc \in Places /\ next \in 1..(Count + 1) /\ tree \in Trees
  /\ depth \in Nat /\ saved \in BOOLEAN
  /\ journal \in Seq(Journaled) /\ created \in Seq(Made) /\ undo \in Nat
  /\ error \in Raised /\ failures \subseteq Slots \cup Made /\ touched \subseteq Slots
  /\ faults \in 0..MaxFaults /\ moves \in 0..MaxMoves
  /\ was \in [Slots -> Kinds] /\ wasDirs \subseteq Made

\* The directory a target is in exists when all of its chain does.
Reached(ds, s) == \A k \in 1..Len(Chain[s[2]]) : <<s[1], Chain[s[2]][k]>> \in ds

\* A directory exists in one that does.
Nested(ds) ==
  \A t \in Trees, f \in Files : \A k \in 1..(Len(Chain[f]) - 1) :
    <<t, Chain[f][k + 1]>> \in ds => <<t, Chain[f][k]>> \in ds

Init ==
  /\ wasDirs \in {ds \in SUBSET Made : Nested(ds)}
  /\ was \in {w \in [Slots -> Kinds] : \A s \in Slots : w[s] # "none" => Reached(wasDirs, s)}
  /\ target = [s \in Slots |-> IF was[s] \in {"file", "link"} THEN "old" ELSE was[s]]
  /\ backup = [s \in Slots |-> "none"] /\ dirs = wasDirs
  /\ at = "planned" /\ pc = "validate" /\ next = 1 /\ tree = "planned" /\ depth = 0
  /\ saved = FALSE /\ journal = <<>> /\ created = <<>> /\ undo = 0
  /\ error = "none" /\ failures = {} /\ touched = {} /\ faults = 0 /\ moves = 0

Fault == faults < MaxFaults /\ faults' = faults + 1
Slot  == <<tree, next>>
-----------------------------------------------------------------------------
(* Publishing one file                                                     *)

\* Mutant: the rollback starts one file short.
RaiseShort(e) ==
  /\ pc' = "rollback" /\ undo' = Len(journal) - 1 /\ error' = e
  /\ UNCHANGED failures

\* An exception leaves the loop for the rollback.
Raise(e) ==
  /\ pc' = "rollback" /\ undo' = Len(journal) /\ error' = e
  /\ UNCHANGED failures

Proceed(place) == pc' = place /\ UNCHANGED <<ended, faults>>

\* A system call fails.
Fails == Fault /\ Raise("os")

\* _validate_publication_anchor before anything is opened
Validate ==
  /\ pc = "validate"
  /\ IF at = "planned" THEN Proceed("enter") ELSE Raise("os") /\ UNCHANGED faults
  /\ UNCHANGED <<world, call, rest>>

\* _open_target_directory resolves the path to the tree it names now,
Enter ==
  /\ pc = "enter"
  /\ tree' = at /\ depth' = 0 /\ Proceed("walk")
  /\ UNCHANGED <<world, next, saved, journal, created, rest>>

\* and opens each directory of the chain below the last,
OpenPart ==
  /\ pc = "walk" /\ depth < Len(Chain[next])
  /\ <<tree, Chain[next][depth + 1]>> \in dirs
  /\ depth' = depth + 1 /\ Proceed("walk")
  /\ UNCHANGED <<world, next, tree, saved, journal, created, rest>>

\* which it makes when it is missing,
MakePart ==
  /\ pc = "walk" /\ depth < Len(Chain[next])
  /\ <<tree, Chain[next][depth + 1]>> \notin dirs
  /\ dirs' = dirs \cup {<<tree, Chain[next][depth + 1]>>} /\ Proceed("record")
  /\ UNCHANGED <<target, backup, call, rest>>

\* and then records as created, with a descriptor of its parent.
RecordPart ==
  /\ pc = "record"
  /\ created' = Append(created, <<tree, Chain[next][depth + 1]>>) /\ Proceed("walk")
  /\ UNCHANGED <<world, next, tree, depth, saved, journal, rest>>

RecordFails ==
  /\ pc = "record" /\ Fault /\ Raise("dup")
  /\ UNCHANGED <<world, call, rest>>

\* An open, a mkdir, a stat, a backup or a replacement fails and leaves nothing.
CallFails ==
  /\ pc \in {"validate", "enter", "walk", "replace", "anchored", "matched"} /\ Fails
  /\ UNCHANGED <<world, call, rest>>

\* A backup is a hard link of a file, or a copy where links fail; a link is made again.
Kept(e, kind) ==
  IF e = "old" THEN (IF kind = "link" THEN {"copy"} ELSE {"old", "copy"}) ELSE {e}

\* The target's stat, and _backup_existing_target_at
Backup ==
  /\ pc = "walk" /\ depth = Len(Chain[next])
  /\ CASE target[Slot] = "directory" ->
            Raise("os") /\ UNCHANGED <<backup, saved, faults>>
       [] target[Slot] = "none" ->
            saved' = FALSE /\ Proceed("journal") /\ UNCHANGED backup
       [] OTHER ->
            /\ \E b \in Kept(target[Slot], was[Slot]) : backup' = [backup EXCEPT ![Slot] = b]
            /\ saved' = TRUE /\ Proceed("journal")
  /\ UNCHANGED <<target, dirs, next, tree, depth, journal, created, rest>>

\* _copy_target fails, or is interrupted, once it has made the backup, and cannot remove it:
\* what is left of the copy is not journaled. A symbolic link is made again, never copied.
CopyTorn ==
  /\ pc = "walk" /\ depth = Len(Chain[next])
  /\ target[Slot] \notin {"none", "directory"}
  /\ target[Slot] = "old" => was[Slot] = "file"
  /\ Fault /\ \E e \in {"torn", "interrupt"} : Raise(e)
  /\ backup' = [backup EXCEPT ![Slot] = "partial"]
  /\ UNCHANGED <<target, dirs, call, rest>>

\* The journal gets the file before anything of it is replaced.
Journal ==
  /\ pc = "journal"
  /\ journal' = Append(journal, [file |-> next, tree |-> tree, saved |-> saved])
  /\ Proceed("replace")
  /\ UNCHANGED <<world, next, tree, depth, saved, created, rest>>

\* Mutant: the backup goes as soon as its target is replaced.
ReplaceAndForget ==
  /\ pc = "replace"
  /\ target' = [target EXCEPT ![Slot] = "new"] /\ backup' = [backup EXCEPT ![Slot] = "none"]
  /\ Proceed("anchored")
  /\ UNCHANGED <<dirs, call, rest>>

\* _replace_source: the staged file takes the target's name.
Replace ==
  /\ pc = "replace"
  /\ target' = [target EXCEPT ![Slot] = "new"] /\ Proceed("anchored")
  /\ UNCHANGED <<backup, dirs, call, rest>>

\* The anchor is checked again,
CheckAnchor ==
  /\ pc = "anchored"
  /\ IF at = "planned" THEN Proceed("matched") ELSE Raise("os") /\ UNCHANGED faults
  /\ UNCHANGED <<world, call, rest>>

\* Mutant: the published directory is not compared with the path's.
CheckPathNever ==
  /\ pc = "matched"
  /\ next' = next + 1
  /\ IF next = Count THEN pc' = "cleanup" /\ undo' = 1 /\ UNCHANGED <<error, failures, faults>>
     ELSE Proceed("validate")
  /\ UNCHANGED <<world, tree, depth, saved, journal, created, rest>>

\* then that the path still leads to the directory published into.
CheckPath ==
  /\ pc = "matched"
  /\ IF tree # at THEN Raise("os") /\ UNCHANGED <<next, faults>>
     ELSE /\ next' = next + 1
          /\ IF next = Count
               THEN pc' = "cleanup" /\ undo' = 1 /\ UNCHANGED <<error, failures, faults>>
               ELSE Proceed("validate")
  /\ UNCHANGED <<world, tree, depth, saved, journal, created, rest>>
-----------------------------------------------------------------------------
(* The rollback, and the cleanup                                           *)

\* Mutant: the backup is renamed over a target it is a link of, which changes nothing.
RestoredByRename(t, b, kind) == IF t = "old" /\ b = "old" THEN <<t, b>> ELSE <<b, "none">>

\* _restore_backup_at: a backup of an unchanged target only goes, another takes its name.
Restored(t, b, kind) ==
  IF t = "old" /\ (b = "old" \/ kind = "link") THEN <<t, "none">> ELSE <<b, "none">>

\* _rollback_bound_file, from the last file journaled to the first
RollBack ==
  LET j == journal[undo]
      s == <<j.tree, j.file>>
  IN
  /\ pc = "rollback" /\ undo > 0
  /\ undo' = undo - 1
  /\ \/ /\ IF j.saved
             THEN LET r == Restored(target[s], backup[s], was[s]) IN
                  target' = [target EXCEPT ![s] = r[1]] /\ backup' = [backup EXCEPT ![s] = r[2]]
             ELSE target' = [target EXCEPT ![s] = "none"] /\ UNCHANGED backup
        /\ UNCHANGED <<failures, faults>>
     \/ Fault /\ failures' = failures \cup {s} /\ UNCHANGED <<target, backup>>
  /\ UNCHANGED <<dirs, call, error, rest, pc>>

RolledBackFiles ==
  /\ pc = "rollback" /\ undo = 0
  /\ pc' = "unmake" /\ undo' = Len(created)
  /\ UNCHANGED <<world, call, error, failures, rest, faults>>

\* Nothing is left in a directory.
Empty(m) ==
  \A f \in Files : \A k \in 1..Len(Chain[f]) : Chain[f][k] = m[2] =>
    IF k < Len(Chain[f]) THEN <<m[1], Chain[f][k + 1]>> \notin dirs
    ELSE target[<<m[1], f>>] = "none" /\ backup[<<m[1], f>>] = "none"

\* The created directories go, the last one made first.
Unmake ==
  LET m == created[undo] IN
  /\ pc = "unmake" /\ undo > 0
  /\ undo' = undo - 1
  /\ \/ Empty(m) /\ dirs' = dirs \ {m} /\ UNCHANGED <<failures, faults>>
     \/ /\ IF Empty(m) THEN Fault ELSE UNCHANGED faults
        /\ failures' = failures \cup {m} /\ UNCHANGED dirs
  /\ UNCHANGED <<target, backup, call, error, rest, pc>>

\* The exception propagates.
Propagate ==
  /\ pc = "unmake" /\ undo = 0
  /\ pc' = "raised"
  /\ UNCHANGED <<world, call, ended, rest, faults>>

\* Every file is published: their backups go, whether or not each can be removed.
Cleanup ==
  LET j == journal[undo]
      s == <<j.tree, j.file>>
  IN
  /\ pc = "cleanup" /\ undo <= Len(journal)
  /\ undo' = undo + 1
  /\ \/ backup' = [backup EXCEPT ![s] = IF j.saved THEN "none" ELSE @] /\ UNCHANGED faults
     \/ j.saved /\ Fault /\ UNCHANGED backup
  /\ UNCHANGED <<target, dirs, call, error, failures, rest, pc>>

Finish ==
  /\ pc = "cleanup" /\ undo > Len(journal)
  /\ pc' = "published"
  /\ UNCHANGED <<world, call, ended, rest, faults>>

\* An interrupt is rolled back as an error is; nothing catches one after that.
Interrupt ==
  /\ pc \notin {"raised", "published"} /\ Fault
  /\ IF pc \in {"rollback", "unmake", "cleanup"}
       THEN pc' = "raised" /\ error' = "cut" /\ UNCHANGED <<undo, failures>>
       ELSE Raise("interrupt")
  /\ UNCHANGED <<world, call, rest>>
-----------------------------------------------------------------------------
(* Others                                                                  *)

Move == moves < MaxMoves /\ moves' = moves + 1

\* Somebody replaces the directory the anchor is in, or puts it back.
MoveTree ==
  /\ Move /\ at' \in Trees \ {at}
  /\ UNCHANGED <<world, call, ended, touched, was, wasDirs, pc, faults>>

\* Somebody writes or deletes a target.
Meddle ==
  /\ Move
  /\ \E s \in Slots, e \in {"foreign", "none"} :
       /\ Reached(dirs, s) /\ target[s] # "directory"
       /\ target' = [target EXCEPT ![s] = e] /\ touched' = touched \cup {s}
  /\ UNCHANGED <<backup, dirs, call, ended, at, was, wasDirs, pc, faults>>
-----------------------------------------------------------------------------
Publishing ==
  \/ Validate \/ Enter \/ OpenPart \/ MakePart \/ RecordPart \/ RecordFails \/ CallFails
  \/ Backup \/ CopyTorn \/ Journal \/ Replace \/ CheckAnchor \/ CheckPath

Undoing == RollBack \/ RolledBackFiles \/ Unmake \/ Propagate

Next == Publishing \/ Undoing \/ Cleanup \/ Finish \/ Interrupt \/ MoveTree \/ Meddle

Spec == Init /\ [][Next]_vars
-----------------------------------------------------------------------------
(* Properties                                                              *)

HoldsOriginal(e) == e \in {"old", "copy"}

Committed == next > Count

\* A kill at any point loses no original: until every file is published, each target
\* nobody else wrote is still the original, or is beside a backup of it, and a target
\* there was is never missing (the journal, the backup before the replacement).
NothingLost ==
  \A s \in Slots \ touched : was[s] \in {"file", "link"} =>
    /\ target[s] # "none"
    /\ Committed \/ HoldsOriginal(target[s]) \/ HoldsOriginal(backup[s])

TargetAsBefore(s) ==
  IF was[s] \in {"file", "link"} THEN HoldsOriginal(target[s]) ELSE target[s] = was[s]

AsBefore(s) == TargetAsBefore(s) /\ backup[s] = "none"

\* Nothing is left beside a target, except after an interrupt, or beside the one whose copy
\* could not be removed.
Cleared(s) ==
  \/ backup[s] = "none" \/ error = "interrupt"
  \/ error = "torn" /\ s = Slot /\ backup[s] = "partial"

\* A failed publication is undone or says what is not: with an I/O error each target is as
\* it was, with no backup left but a copy that failed and could not be removed, and each
\* directory made is gone, or the error names it; an interrupt that nothing cuts short
\* restores the targets the rollback could.
RolledBack ==
  pc = "raised" /\ error # "cut" =>
    /\ \A s \in Slots \ (touched \cup failures) : TargetAsBefore(s) /\ Cleared(s)
    /\ error \in {"os", "torn"} => dirs \subseteq wasDirs \cup failures

\* A publication that returns has every file in the directory that was planned, has left
\* nothing in one that took its place, and leaves a backup only if it cannot remove it. The
\* anchor's check and the path's are two looks: only three exchanges of the directory in one
\* call, one between the two looks, are seen by neither.
PublishedAsPlanned ==
  pc = "published" /\ moves < 3 => \A s \in Slots \ touched :
    /\ IF s[1] = "planned" THEN target[s] = "new" ELSE AsBefore(s)
    /\ faults = 0 => backup[s] = "none"

\* What the docstring of publish_staged_files says of an interrupt, of a call in which
\* nothing else fails: it rolls back every file already replaced.
InterruptRollsBack ==
  pc = "raised" /\ (error = "interrupt" \/ (error = "cut" /\ Committed)) =>
    \A s \in Slots \ failures : target[s] # "new"
=============================================================================
