------------------------- MODULE PublicationProofs --------------------------
(***************************************************************************)
(* Proofs about Publication, for any files, and about RemoteLock, for any  *)
(* jobs, requests and locks.                                               *)
(*                                                                         *)
(* Publication: its state is well typed, and a process killed at any point *)
(* of a publication loses no original.  Both follow from one inductive     *)
(* invariant, IInv: what the journal says of the targets.  With a second,  *)
(* RInv (a target is untouched until it is journaled, and then what is     *)
(* kept of it undoes the change), a failed one is rolled back; with a      *)
(* third, PInv, one that returns is in the planned directory.              *)
(*                                                                         *)
(* RemoteLock, which publishes outputs and locks in one call: an updated   *)
(* lock records what each job was generated from, what is published under  *)
(* any other lock is what that lock recorded, and what was verified once   *)
(* is not published unverified.  All follow from LockInv, over what the    *)
(* plans of a run require and what its collectors saw.                     *)
(***************************************************************************)
EXTENDS Publication, RemoteLock, TLAPS, WellFoundedInduction

Before == {"validate", "enter", "walk", "record", "journal"}
During == {"replace", "anchored", "matched"}
Active == Before \cup During

\* A target there was, that nobody else wrote.
Owned(s) == s \notin touched /\ was[s] \in {"file", "link"}

JSlot(k) == <<journal[k].tree, journal[k].file>>

\* The journal holds the files published so far, in their order.
Ordered ==
  /\ Len(journal) <= Count
  /\ \A k \in 1..Len(journal) : journal[k].file = k
  /\ pc \in Before => Len(journal) = next - 1
  /\ pc \in During => Len(journal) = next /\ journal[next].tree = tree
  /\ pc \in Active \cup {"rollback", "unmake"} => next <= Count
  /\ pc = "record" => depth < Len(Chain[next])
  /\ pc = "rollback" => undo <= Len(journal)
  /\ pc = "unmake" => undo <= Len(created)
  /\ pc = "cleanup" => undo > 0
  /\ pc \in {"cleanup", "published"} => Committed

\* A target the journal does not name holds the original; one it names has a backup,
\* until the rollback has come to it.
Protected(s) ==
  /\ target[s] # "none"
  /\ Committed \/ HoldsOriginal(target[s]) \/ HoldsOriginal(backup[s])
  /\ pc \in Active /\ (\A k \in 1..Len(journal) : JSlot(k) # s) => HoldsOriginal(target[s])
  /\ pc \in Active \cup {"rollback"} =>
       \A k \in 1..Len(journal) : JSlot(k) = s =>
         journal[k].saved /\ ((pc = "rollback" /\ k > undo) \/ HoldsOriginal(backup[s]))
  /\ pc = "journal" /\ s = Slot => saved /\ HoldsOriginal(backup[s])

IInv == TypeOK /\ Ordered /\ \A s \in Slots : Owned(s) => Protected(s)
-----------------------------------------------------------------------------
\* A slot is a tree and a file.
LEMMA SlotParts ==
  ASSUME TypeOK
  PROVE  /\ next <= Count => Slot \in Slots
         /\ \A k \in 1..Len(journal) : /\ journal[k] \in Journaled /\ JSlot(k) \in Slots
                                       /\ JSlot(k)[2] = journal[k].file
<1>1. next <= Count => Slot \in Slots
  BY PublicationAssumption DEF TypeOK, Slot, Slots, Files
<1>2. ASSUME NEW k \in 1..Len(journal)
      PROVE  /\ journal[k] \in Journaled /\ JSlot(k) \in Slots
             /\ JSlot(k)[2] = journal[k].file
  <2>1. journal[k] \in Journaled
    BY DEF TypeOK
  <2> QED BY <2>1 DEF Journaled, JSlot, Slots
<1> QED BY <1>1, <1>2

\* A new slot has an index no earlier one has.
LEMMA NewSlot ==
  ASSUME IInv, pc \in Before
  PROVE  \A k \in 1..Len(journal) : JSlot(k) # Slot
BY PublicationAssumption DEF IInv, Ordered, TypeOK, JSlot, Slot, Journaled, Files, Before, Active

LEMMA FaultBound ==
  ASSUME TypeOK, Fault \/ UNCHANGED faults
  PROVE  faults' \in 0..MaxFaults
BY PublicationAssumption DEF TypeOK, Fault

\* Leaving the loop for the rollback keeps the invariant.
LEMMA RaiseSafe ==
  ASSUME IInv, NEW e \in Raised, pc \in Active, Raise(e), Fault \/ UNCHANGED faults,
         UNCHANGED <<world, call, rest>>
  PROVE  IInv'
<1>1. /\ pc' = "rollback" /\ undo' = Len(journal) /\ error' = e
      /\ UNCHANGED <<target, backup, dirs, next, tree, depth, saved, journal, created,
                     failures, at, touched, moves, was, wasDirs>>
  BY DEF Raise, world, call, rest
<1>2. faults' \in 0..MaxFaults
  BY FaultBound DEF IInv
<1>3. TypeOK'
  BY <1>1, <1>2 DEF IInv, TypeOK, Places
<1>4. Ordered'
  BY <1>1 DEF IInv, Ordered, Active, Before, During, Committed
<1>5. ASSUME NEW s \in Slots, Owned(s)' PROVE Protected(s)'
  BY <1>1, <1>5
  DEF IInv, Owned, Protected, JSlot, Slot, Committed, Active, Before, During, HoldsOriginal
<1> QED BY <1>3, <1>4, <1>5 DEF IInv

\* So does a step of the loop that moves on and touches neither target nor journal.
LEMMA ProceedSafe ==
  ASSUME IInv,
         \/ /\ pc \in {"validate", "enter", "walk", "record"}
            /\ pc' \in {"validate", "enter", "walk", "record"}
         \/ pc \in During /\ pc' \in During /\ tree' = tree,
         dirs' \subseteq Made, tree' \in Trees, depth' \in Nat, created' \in Seq(Made),
         pc' = "record" => depth' < Len(Chain[next]),
         UNCHANGED <<target, backup, next, saved, journal, rest,
                     ended, faults>>
  PROVE  IInv'
<1>1. UNCHANGED <<target, backup, next, saved, journal, undo, error, failures, faults,
                  at, touched, moves, was, wasDirs>>
  BY DEF ended, rest
<1>2. TypeOK'
  BY <1>1 DEF IInv, TypeOK, Places, Active, Before, During
<1>3. Ordered'
  BY <1>1 DEF IInv, Ordered, Active, Before, During, Committed
<1>4. ASSUME NEW s \in Slots, Owned(s)' PROVE Protected(s)'
  BY <1>1, <1>4
  DEF IInv, Owned, Protected, JSlot, Slot, Committed, Active, Before, During, HoldsOriginal
<1> QED BY <1>2, <1>3, <1>4 DEF IInv

LEMMA BackupSafe == ASSUME IInv, Backup PROVE IInv'
<1>1. pc = "walk" /\ Slot \in Slots /\ next <= Count
  BY SlotParts DEF Backup, IInv, Ordered, Active, Before
<1>2. CASE target[Slot] = "directory"
  <2>1. Raise("os") /\ UNCHANGED <<world, call, rest, faults>>
    BY <1>2 DEF Backup, world, call
  <2> QED BY <1>1, <2>1, RaiseSafe DEF Raised, Active, Before
<1>3. CASE target[Slot] # "directory"
  <2>1. /\ pc' = "journal"
        /\ UNCHANGED <<target, dirs, next, tree, depth, journal, created, undo, error, failures,
                       faults, at, touched, moves, was, wasDirs>>
    BY <1>3 DEF Backup, Proceed, ended, rest
  <2>2. \/ target[Slot] = "none" /\ saved' = FALSE /\ UNCHANGED backup
        \/ /\ target[Slot] # "none" /\ saved' = TRUE
           /\ \E b \in Kept(target[Slot], was[Slot]) : backup' = [backup EXCEPT ![Slot] = b]
    BY <1>3 DEF Backup
  <2>3. target[Slot] \in Entries
    BY <1>1 DEF IInv, TypeOK
  <2>4. \A b \in Kept(target[Slot], was[Slot]) :
          b \in Entries /\ (HoldsOriginal(target[Slot]) => HoldsOriginal(b))
    BY <2>3 DEF Kept, Entries, HoldsOriginal
  <2>5. backup' \in [Slots -> Entries] /\ saved' \in BOOLEAN
        /\ \A s \in Slots \ {Slot} : backup'[s] = backup[s]
    BY <1>1, <2>2, <2>4 DEF IInv, TypeOK
  <2>6. TypeOK'
    BY <2>1, <2>5 DEF IInv, TypeOK, Places
  <2>7. Ordered'
    BY <1>1, <2>1 DEF IInv, Ordered, Active, Before, During, Committed
  <2>8. ASSUME NEW s \in Slots, Owned(s)' PROVE Protected(s)'
    <3>1. Owned(s) /\ Protected(s)
      BY <2>1, <2>8 DEF IInv, Owned
    <3>2. CASE s # Slot
      BY <1>1, <2>1, <2>5, <3>1, <3>2
      DEF Protected, JSlot, Slot, Committed, Active, Before, During, HoldsOriginal
    <3>3. CASE s = Slot
      <4>1. \A k \in 1..Len(journal) : JSlot(k) # s
        BY <1>1, <3>3, NewSlot DEF Before
      <4>2. HoldsOriginal(target[s]) /\ target[s] # "none"
        BY <1>1, <3>1, <4>1 DEF Protected, Active, Before
      <4>3. saved' = TRUE /\ HoldsOriginal(backup'[s])
        BY <1>1, <2>2, <2>4, <3>3, <4>2 DEF IInv, TypeOK
      <4> QED BY <2>1, <4>1, <4>2, <4>3
        DEF Protected, JSlot, Slot, Committed, Active, Before, During, HoldsOriginal
    <3> QED BY <3>2, <3>3
  <2> QED BY <2>6, <2>7, <2>8 DEF IInv
<1> QED BY <1>2, <1>3

\* What a copy leaves behind is beside a target the journal does not name yet.
LEMMA CopyTornSafe == ASSUME IInv, CopyTorn PROVE IInv'
<1>1. /\ pc = "walk" /\ pc' = "rollback" /\ undo' = Len(journal) /\ error' \in Raised
      /\ backup' = [backup EXCEPT ![Slot] = "partial"]
      /\ UNCHANGED <<target, dirs, next, tree, depth, saved, journal, created, failures,
                     at, touched, moves, was, wasDirs>>
  BY DEF CopyTorn, Raise, Raised, call, rest
<1>2. faults' \in 0..MaxFaults
  BY FaultBound DEF IInv, CopyTorn
<1>3. /\ backup' \in [Slots -> Entries]
      /\ \A s \in Slots : s # Slot => backup'[s] = backup[s]
  BY <1>1 DEF IInv, TypeOK, Entries
<1>4. TypeOK'
  BY <1>1, <1>2, <1>3 DEF IInv, TypeOK, Places
<1>5. Ordered'
  BY <1>1 DEF IInv, Ordered, Active, Before, During, Committed
<1>6. ASSUME NEW s \in Slots, Owned(s)' PROVE Protected(s)'
  <2>1. Protected(s)
    BY <1>1, <1>6 DEF IInv, Owned
  <2>2. CASE s = Slot
    <3>1. \A k \in 1..Len(journal) : JSlot(k) # s
      BY <1>1, <2>2, NewSlot DEF Before
    <3>2. target[s] # "none" /\ HoldsOriginal(target[s])
      BY <1>1, <2>1, <3>1 DEF Protected, Active, Before
    <3>3. (\A k \in 1..Len(journal) : JSlot(k) # s)'
      BY <1>1, <3>1 DEF JSlot
    <3> QED BY <1>1, <3>2, <3>3 DEF Protected, HoldsOriginal, Active, Before, During
  <2>3. CASE s # Slot
    BY <1>1, <1>3, <2>1, <2>3
    DEF Protected, JSlot, Committed, Active, Before, During, HoldsOriginal
  <2> QED BY <2>2, <2>3
<1> QED BY <1>4, <1>5, <1>6 DEF IInv

LEMMA JournalSafe == ASSUME IInv, Journal PROVE IInv'
<1> DEFINE j == [file |-> next, tree |-> tree, saved |-> saved]
<1>1. /\ pc = "journal" /\ pc' = "replace" /\ journal' = Append(journal, j)
      /\ UNCHANGED <<target, backup, dirs, next, tree, depth, saved, created, undo, error,
                     failures, faults, at, touched, moves, was, wasDirs>>
  BY DEF Journal, Proceed, world, ended, rest
<1>2. next \in Files /\ Len(journal) = next - 1 /\ journal \in Seq(Journaled) /\ j \in Journaled
  BY <1>1, PublicationAssumption DEF IInv, Ordered, TypeOK, Active, Before, Files, Journaled
<1>3. /\ journal' \in Seq(Journaled) /\ Len(journal') = next
      /\ \A k \in 1..Len(journal) : journal'[k] = journal[k]
      /\ journal'[next] = j
  <2> HIDE DEF j
  <2>1. journal' \in Seq(Journaled) /\ Len(journal') = Len(journal) + 1
    BY <1>1, <1>2
  <2>2. \A k \in 1..Len(journal) : journal'[k] = journal[k]
    BY <1>1, <1>2
  <2>3. journal'[Len(journal) + 1] = j
    BY <1>1, <1>2
  <2> QED BY <1>2, <2>1, <2>2, <2>3 DEF Files
<1>4. TypeOK'
  BY <1>1, <1>3 DEF IInv, TypeOK, Places
<1>5. \A k \in 1..Len(journal') : k \in 1..Len(journal) \/ k = next
  BY <1>2, <1>3 DEF Files
<1>6. Ordered'
  BY <1>1, <1>2, <1>3, <1>5 DEF IInv, Ordered, Active, Before, During, Committed, Files
<1>7. JSlot(next)' = Slot /\ \A k \in 1..Len(journal) : JSlot(k)' = JSlot(k)
  <2>1. journal'[next].tree = tree /\ journal'[next].file = next
    BY <1>3
  <2> QED BY <1>1, <1>3, <2>1 DEF JSlot, Slot
<1>8. ASSUME NEW s \in Slots, Owned(s)' PROVE Protected(s)'
  <2>1. Protected(s)
    BY <1>1, <1>8 DEF IInv, Owned
  <2>2. next \in 1..Len(journal') /\ \A k \in 1..Len(journal) : k \in 1..Len(journal')
    BY <1>2, <1>3 DEF Files
  <2>3. (\A k \in 1..Len(journal') : JSlot(k)' # s) => HoldsOriginal(target[s])
    BY <1>1, <1>7, <2>1, <2>2 DEF Protected, Active, Before
  <2>4. ASSUME NEW k \in 1..Len(journal'), JSlot(k)' = s
        PROVE  journal'[k].saved /\ HoldsOriginal(backup[s])
    <3>1. CASE k \in 1..Len(journal)
      BY <1>1, <1>3, <1>7, <2>1, <2>4, <3>1 DEF Protected, Active, Before
    <3>2. CASE k = next
      BY <1>1, <1>3, <1>7, <2>1, <2>4, <3>2 DEF Protected
    <3> QED BY <1>5, <3>1, <3>2
  <2> QED BY <1>1, <2>1, <2>3, <2>4 DEF Protected, Committed, HoldsOriginal
<1> QED BY <1>4, <1>6, <1>8 DEF IInv

LEMMA ReplaceSafe == ASSUME IInv, Replace PROVE IInv'
<1>1. /\ pc = "replace" /\ pc' = "anchored" /\ target' = [target EXCEPT ![Slot] = "new"]
      /\ UNCHANGED <<backup, dirs, next, tree, depth, saved, journal, created, undo, error,
                     failures, faults, at, touched, moves, was, wasDirs>>
  BY DEF Replace, Proceed, call, ended, rest
<1>2. Slot \in Slots /\ next \in 1..Len(journal) /\ JSlot(next) = Slot
  BY <1>1, SlotParts, PublicationAssumption
  DEF IInv, Ordered, TypeOK, Active, During, JSlot, Slot
<1>3. TypeOK'
  BY <1>1, <1>2 DEF IInv, TypeOK, Places, Entries
<1>4. Ordered'
  BY <1>1 DEF IInv, Ordered, Active, Before, During, Committed
<1>5. ASSUME NEW s \in Slots, Owned(s)' PROVE Protected(s)'
  <2>1. Protected(s)
    BY <1>1, <1>5 DEF IInv, Owned
  <2>2. CASE s = Slot
    <3>1. HoldsOriginal(backup[s]) /\ target'[s] = "new"
      BY <1>1, <1>2, <2>1, <2>2 DEF Protected, Active, During, IInv, TypeOK
    <3> QED BY <1>1, <1>2, <2>1, <2>2, <3>1
      DEF Protected, JSlot, Active, Before, During, HoldsOriginal, Committed
  <2>3. CASE s # Slot
    <3>1. target'[s] = target[s]
      BY <1>1, <1>2, <2>3 DEF IInv, TypeOK
    <3> QED BY <1>1, <2>1, <3>1
      DEF Protected, JSlot, Active, Before, During, HoldsOriginal, Committed
  <2> QED BY <2>2, <2>3
<1> QED BY <1>3, <1>4, <1>5 DEF IInv

LEMMA CheckPathSafe == ASSUME IInv, CheckPath PROVE IInv'
<1>1. pc = "matched" /\ UNCHANGED <<world, tree, depth, saved, journal, created, rest>>
  BY DEF CheckPath
<1>2. CASE tree # at
  <2>1. Raise("os") /\ UNCHANGED <<world, call, rest, faults>>
    BY <1>1, <1>2 DEF CheckPath, call
  <2> QED BY <1>1, <2>1, RaiseSafe DEF Raised, Active, During
<1>3. CASE tree = at
  <2>1. /\ next' = next + 1
        /\ UNCHANGED <<target, backup, dirs, tree, depth, saved, journal, created, error,
                       failures, faults, at, touched, moves, was, wasDirs>>
        /\ IF next = Count THEN pc' = "cleanup" /\ undo' = 1
           ELSE pc' = "validate" /\ undo' = undo
    BY <1>1, <1>3 DEF CheckPath, Proceed, world, ended, rest
  <2>2. /\ Len(journal) = next /\ next \in 1..Count
    BY <1>1, PublicationAssumption DEF IInv, Ordered, TypeOK, Active, During
  <2>3. TypeOK'
    BY <2>1, <2>2, PublicationAssumption DEF IInv, TypeOK, Places
  <2>4. Ordered'
    BY <1>1, <2>1, <2>2, PublicationAssumption
    DEF IInv, Ordered, Active, Before, During, Committed
  <2>5. ASSUME NEW s \in Slots, Owned(s)' PROVE Protected(s)'
    <3>1. Protected(s)
      BY <2>1, <2>5 DEF IInv, Owned
    <3> QED BY <1>1, <2>1, <2>2, <3>1, PublicationAssumption
      DEF Protected, JSlot, Active, Before, During, HoldsOriginal, Committed
  <2> QED BY <2>3, <2>4, <2>5 DEF IInv
<1> QED BY <1>2, <1>3

LEMMA LoopSafe == ASSUME IInv, Publishing PROVE IInv'
<1> USE DEF Active, Before, During
<1>1. dirs \subseteq Made /\ tree \in Trees /\ depth \in Nat /\ created \in Seq(Made)
  BY DEF IInv, TypeOK
<1>2. CASE Validate
  <2>1. CASE at = "planned"
    <3>1. /\ pc = "validate" /\ pc' = "enter"
          /\ UNCHANGED <<world, call, rest, ended, faults>>
      BY <1>2, <2>1 DEF Validate, Proceed
    <3>2. UNCHANGED <<target, backup, dirs, next, tree, depth, saved, journal, created>>
      BY <3>1 DEF world, call
    <3> QED BY <1>1, <3>1, <3>2, ProceedSafe
  <2>2. CASE at # "planned"
    BY <1>2, <2>2, RaiseSafe DEF Validate, Raised
  <2> QED BY <2>1, <2>2
<1>3. CASE Enter
  <2>1. pc = "enter" /\ pc' = "walk" /\ tree' \in Trees /\ depth' = 0
        /\ UNCHANGED <<target, backup, dirs, next, saved, journal, created, rest,
                     ended, faults>>
    BY <1>3 DEF Enter, Proceed, world, IInv, TypeOK
  <2> QED BY <1>1, <2>1, ProceedSafe
<1>4. CASE OpenPart
  <2>1. pc = "walk" /\ pc' = "walk" /\ depth' = depth + 1
        /\ UNCHANGED <<target, backup, dirs, next, tree, saved, journal, created, rest,
                     ended, faults>>
    BY <1>4 DEF OpenPart, Proceed, world
  <2>2. depth' \in Nat
    BY <1>1, <2>1
  <2> QED BY <1>1, <2>1, <2>2, ProceedSafe
<1>5. ASSUME pc \in Before, depth < Len(Chain[next])
      PROVE  <<tree, Chain[next][depth + 1]>> \in Made
  <2>1. next \in Files
    BY <1>5 DEF IInv, Ordered, TypeOK, Files
  <2>2. Chain[next] \in Seq(Dirs)
    BY <2>1, PublicationAssumption DEF Files
  <2>3. Chain[next][depth + 1] \in Dirs
    BY <1>1, <1>5, <2>2
  <2> QED BY <1>1, <2>3 DEF Made
<1>6. CASE MakePart
  <2>1. pc = "walk" /\ pc' = "record" /\ depth < Len(Chain[next])
        /\ dirs' = dirs \cup {<<tree, Chain[next][depth + 1]>>}
        /\ UNCHANGED <<target, backup, next, tree, depth, saved, journal, created, rest,
                     ended, faults>>
    BY <1>6 DEF MakePart, Proceed, call
  <2>2. dirs' \subseteq Made
    BY <1>1, <1>5, <2>1
  <2> QED BY <1>1, <2>1, <2>2, ProceedSafe
<1>7. CASE RecordPart
  <2>1. pc = "record" /\ pc' = "walk" /\ depth < Len(Chain[next])
        /\ created' = Append(created, <<tree, Chain[next][depth + 1]>>)
        /\ UNCHANGED <<target, backup, dirs, next, tree, depth, saved, journal, rest,
                     ended, faults>>
    BY <1>7 DEF RecordPart, Proceed, world, IInv, Ordered
  <2>2. created' \in Seq(Made)
    <3>1. <<tree, Chain[next][depth + 1]>> \in Made
      BY <1>5, <2>1
    <3> QED BY <1>1, <2>1, <3>1
  <2> QED BY <1>1, <2>1, <2>2, ProceedSafe
<1>8. CASE RecordFails
  BY <1>8, RaiseSafe DEF RecordFails, Raised
<1>9. CASE CallFails
  BY <1>9, RaiseSafe DEF CallFails, Fails, Raised
<1>10. CASE CheckAnchor
  <2>1. CASE at = "planned"
    <3>1. /\ pc = "anchored" /\ pc' = "matched"
          /\ UNCHANGED <<world, call, rest, ended, faults>>
      BY <1>10, <2>1 DEF CheckAnchor, Proceed
    <3>2. UNCHANGED <<target, backup, dirs, next, tree, depth, saved, journal, created>>
      BY <3>1 DEF world, call
    <3> QED BY <1>1, <3>1, <3>2, ProceedSafe
  <2>2. CASE at # "planned"
    BY <1>10, <2>2, RaiseSafe DEF CheckAnchor, Raised
  <2> QED BY <2>1, <2>2
<1> QED
  BY <1>2, <1>3, <1>4, <1>6, <1>7, <1>8, <1>9, <1>10, BackupSafe, CopyTornSafe,
     JournalSafe, ReplaceSafe, CheckPathSafe DEF Publishing
-----------------------------------------------------------------------------
\* What is restored is what the backup or the target held.
LEMMA RestoredHolds ==
  ASSUME NEW t \in Entries, NEW b \in Entries, NEW kind \in Kinds
  PROVE  /\ Restored(t, b, kind)[1] \in Entries /\ Restored(t, b, kind)[2] \in Entries
         /\ HoldsOriginal(b) => HoldsOriginal(Restored(t, b, kind)[1])
BY DEF Restored, HoldsOriginal, Entries

LEMMA RollBackSafe == ASSUME IInv, RollBack PROVE IInv'
<1> DEFINE j == journal[undo]
           s == <<j.tree, j.file>>
           r == Restored(target[s], backup[s], was[s])
<1>1. /\ pc = "rollback" /\ undo \in 1..Len(journal) /\ undo' = undo - 1 /\ pc' = pc
      /\ UNCHANGED <<dirs, next, tree, depth, saved, journal, created, error, at, touched,
                     moves, was, wasDirs>>
  BY DEF RollBack, IInv, TypeOK, Ordered, call, rest
<1>2. /\ j \in Journaled /\ s \in Slots /\ s = JSlot(undo) /\ target[s] \in Entries
      /\ backup[s] \in Entries /\ was[s] \in Kinds
  <2>1. j \in Journaled /\ s \in Slots /\ s = JSlot(undo)
    BY <1>1, SlotParts DEF IInv, JSlot
  <2> QED BY <2>1 DEF IInv, TypeOK
<1>3. \/ /\ j.saved /\ UNCHANGED <<failures, faults>>
         /\ target' = [target EXCEPT ![s] = r[1]] /\ backup' = [backup EXCEPT ![s] = r[2]]
      \/ /\ ~j.saved /\ UNCHANGED <<failures, faults>>
         /\ target' = [target EXCEPT ![s] = "none"] /\ UNCHANGED backup
      \/ Fault /\ failures' = failures \cup {s} /\ UNCHANGED <<target, backup>>
  BY DEF RollBack
<1>4. r[1] \in Entries /\ r[2] \in Entries /\ (HoldsOriginal(backup[s]) => HoldsOriginal(r[1]))
  BY <1>2, RestoredHolds
<1> HIDE DEF j, s, r
<1>5. /\ target' \in [Slots -> Entries] /\ backup' \in [Slots -> Entries]
      /\ failures' \subseteq Slots \cup Made
      /\ \A q \in Slots \ {s} : target'[q] = target[q] /\ backup'[q] = backup[q]
  BY <1>2, <1>3, <1>4 DEF IInv, TypeOK, Entries
<1>6. faults' \in 0..MaxFaults
  BY <1>3, FaultBound DEF IInv
<1>7. TypeOK'
  BY <1>1, <1>5, <1>6 DEF IInv, TypeOK
<1>8. Ordered'
  BY <1>1 DEF IInv, TypeOK, Ordered, Active, Before, During, Committed
<1>9. ASSUME NEW q \in Slots, Owned(q)' PROVE Protected(q)'
  <2>1. Protected(q)
    BY <1>1, <1>9 DEF IInv, Owned
  <2>2. undo \in Nat /\ undo' \in Nat /\ undo' < undo
    BY <1>1 DEF IInv, TypeOK
  <2>3. CASE q # s
    <3>1. target'[q] = target[q] /\ backup'[q] = backup[q]
      BY <1>5, <2>3
    <3>2. \A k \in 1..Len(journal) : k > undo => k > undo'
      BY <2>2
    <3> QED BY <1>1, <2>1, <3>1, <3>2
      DEF Protected, JSlot, Active, Before, During, HoldsOriginal, Committed
  <2>4. CASE q = s
    <3>1. j.saved /\ HoldsOriginal(backup[s])
      BY <1>1, <1>2, <2>1, <2>2, <2>4 DEF Protected, j
    <3>2. HoldsOriginal(target'[s]) \/ UNCHANGED <<target, backup>>
      BY <1>2, <1>3, <1>4, <3>1 DEF IInv, TypeOK
    <3>3. \A k \in 1..Len(journal) : JSlot(k) = s => k = undo /\ journal[k].saved
      BY <1>1, <1>2, <3>1, SlotParts DEF IInv, Ordered, j
    <3>4. target'[s] # "none" /\ (HoldsOriginal(target'[s]) \/ HoldsOriginal(backup'[s]))
      BY <2>1, <2>4, <3>1, <3>2 DEF Protected, HoldsOriginal
    <3>5. \A k \in 1..Len(journal) : JSlot(k)' = JSlot(k)
      BY <1>1 DEF JSlot
    <3>6. \A k \in 1..Len(journal') :
            JSlot(k)' = s => journal'[k].saved /\ k > undo'
      BY <1>1, <2>2, <3>3, <3>5
    <3> QED BY <1>1, <2>4, <3>4, <3>6 DEF Protected, Active, Before, During, HoldsOriginal
  <2> QED BY <2>3, <2>4
<1> QED BY <1>7, <1>8, <1>9 DEF IInv

LEMMA UndoingSafe == ASSUME IInv, Undoing PROVE IInv'
<1> USE DEF Active, Before, During
<1>1. CASE RolledBackFiles \/ Propagate
  <2>1. /\ UNCHANGED <<target, backup, dirs, next, tree, depth, saved, journal, created, error,
                       failures, at, touched, moves, was, wasDirs, faults>>
        /\ \/ pc = "rollback" /\ pc' = "unmake" /\ undo' = Len(created)
           \/ pc = "unmake" /\ pc' = "raised" /\ undo' = undo
    BY <1>1 DEF RolledBackFiles, Propagate, world, call, ended, rest
  <2>2. TypeOK'
    BY <2>1 DEF IInv, TypeOK, Places
  <2>3. Ordered'
    BY <2>1 DEF IInv, TypeOK, Ordered, Committed
  <2>4. ASSUME NEW s \in Slots, Owned(s)' PROVE Protected(s)'
    BY <2>1, <2>4 DEF IInv, Owned, Protected, JSlot, Committed, HoldsOriginal
  <2> QED BY <2>2, <2>3, <2>4 DEF IInv
<1>2. CASE Unmake
  <2>1. /\ pc = "unmake" /\ undo \in 1..Len(created) /\ undo' = undo - 1 /\ pc' = pc
        /\ UNCHANGED <<target, backup, next, tree, depth, saved, journal, created, error,
                       at, touched, moves, was, wasDirs>>
    BY <1>2 DEF Unmake, IInv, TypeOK, Ordered, call, rest
  <2>2. created[undo] \in Made
    BY <2>1 DEF IInv, TypeOK
  <2>3. /\ dirs' \subseteq Made /\ failures' \subseteq Slots \cup Made
        /\ Fault \/ UNCHANGED faults
    BY <1>2, <2>2 DEF Unmake, IInv, TypeOK
  <2>4. faults' \in 0..MaxFaults
    BY <2>3, FaultBound DEF IInv
  <2>5. TypeOK'
    BY <2>1, <2>3, <2>4 DEF IInv, TypeOK, Places
  <2>6. Ordered'
    BY <2>1 DEF IInv, TypeOK, Ordered, Committed
  <2>7. ASSUME NEW s \in Slots, Owned(s)' PROVE Protected(s)'
    BY <2>1, <2>7 DEF IInv, Owned, Protected, JSlot, Committed, HoldsOriginal
  <2> QED BY <2>5, <2>6, <2>7 DEF IInv
<1> QED BY <1>1, <1>2, RollBackSafe DEF Undoing

LEMMA CleanupSafe == ASSUME IInv, Cleanup \/ Finish PROVE IInv'
<1> USE DEF Active, Before, During
<1>1. /\ pc = "cleanup" /\ next > Count
      /\ UNCHANGED <<target, dirs, next, tree, depth, saved, journal, created, error,
                     failures, at, touched, moves, was, wasDirs>>
      /\ \/ pc' = "cleanup" /\ undo' = undo + 1
         \/ pc' = "published" /\ undo' = undo
      /\ Fault \/ UNCHANGED faults
  BY DEF Cleanup, Finish, world, call, ended, rest, IInv, Ordered, Committed
<1>2. backup' \in [Slots -> Entries]
  BY DEF Cleanup, Finish, world, IInv, TypeOK, Entries
<1>3. faults' \in 0..MaxFaults
  BY <1>1, FaultBound DEF IInv
<1>4. TypeOK'
  BY <1>1, <1>2, <1>3 DEF IInv, TypeOK, Places
<1>5. Ordered'
  BY <1>1 DEF IInv, TypeOK, Ordered, Committed
<1>6. ASSUME NEW s \in Slots, Owned(s)' PROVE Protected(s)'
  BY <1>1, <1>6 DEF IInv, Owned, Protected, JSlot, Committed
<1> QED BY <1>4, <1>5, <1>6 DEF IInv

LEMMA InterruptSafe == ASSUME IInv, Interrupt PROVE IInv'
<1> USE DEF Active, Before, During
<1>1. CASE pc \in {"rollback", "unmake", "cleanup"}
  <2>1. /\ pc' = "raised" /\ error' = "cut"
        /\ UNCHANGED <<target, backup, dirs, next, tree, depth, saved, journal, created, undo,
                       failures, at, touched, moves, was, wasDirs>>
        /\ Fault
    BY <1>1 DEF Interrupt, world, call, rest
  <2>2. TypeOK'
    BY <2>1, FaultBound DEF IInv, TypeOK, Places, Raised
  <2>3. Ordered'
    BY <2>1 DEF IInv, TypeOK, Ordered, Committed
  <2>4. ASSUME NEW s \in Slots, Owned(s)' PROVE Protected(s)'
    BY <2>1, <2>4 DEF IInv, Owned, Protected, JSlot, Committed, HoldsOriginal
  <2> QED BY <2>2, <2>3, <2>4 DEF IInv
<1>2. CASE pc \notin {"rollback", "unmake", "cleanup"}
  <2>1. pc \in Active
    BY <1>2 DEF Interrupt, IInv, TypeOK, Places
  <2> QED BY <1>2, <2>1, RaiseSafe DEF Interrupt, Raised
<1> QED BY <1>1, <1>2

LEMMA OthersSafe == ASSUME IInv, MoveTree \/ Meddle PROVE IInv'
<1>1. /\ UNCHANGED <<backup, dirs, next, tree, depth, saved, journal, created, undo, error,
                     failures, was, wasDirs, pc, faults>>
      /\ Move /\ at' \in Trees
      /\ \/ UNCHANGED <<target, touched>>
         \/ \E s \in Slots, e \in {"foreign", "none"} :
              target' = [target EXCEPT ![s] = e] /\ touched' = touched \cup {s}
  BY DEF MoveTree, Meddle, world, call, ended, IInv, TypeOK
<1>2. /\ target' \in [Slots -> Entries] /\ touched' \subseteq Slots /\ touched \subseteq touched'
      /\ \A s \in Slots \ touched' : target'[s] = target[s]
  BY <1>1 DEF IInv, TypeOK, Entries
<1>3. moves' \in 0..MaxMoves
  BY <1>1, PublicationAssumption DEF IInv, TypeOK, Move
<1>4. TypeOK'
  BY <1>1, <1>2, <1>3 DEF IInv, TypeOK
<1>5. Ordered'
  BY <1>1 DEF IInv, Ordered, Committed
<1>6. ASSUME NEW s \in Slots, Owned(s)' PROVE Protected(s)'
  <2>1. s \notin touched' /\ Owned(s)
    BY <1>1, <1>2, <1>6 DEF Owned
  <2> QED BY <1>1, <1>2, <2>1
    DEF IInv, Protected, JSlot, Slot, Committed, HoldsOriginal
<1> QED BY <1>4, <1>5, <1>6 DEF IInv
-----------------------------------------------------------------------------
LEMMA InitSafe == ASSUME Init PROVE IInv
<1>1. TypeOK
  <2>1. target \in [Slots -> Entries] /\ backup \in [Slots -> Entries] /\ was \in [Slots -> Kinds]
    BY DEF Init, Kinds, Entries
  <2>2. dirs \subseteq Made /\ wasDirs \subseteq Made
    BY DEF Init
  <2>3. journal \in Seq(Journaled) /\ created \in Seq(Made)
    BY DEF Init
  <2>4. /\ at \in Trees /\ pc \in Places /\ tree \in Trees /\ saved \in BOOLEAN
        /\ error \in Raised /\ failures = {} /\ touched = {}
    BY DEF Init, Trees, Places, Raised
  <2>5. /\ next \in 1..(Count + 1) /\ depth \in Nat /\ undo \in Nat
        /\ faults \in 0..MaxFaults /\ moves \in 0..MaxMoves
    BY PublicationAssumption DEF Init
  <2> QED BY <2>1, <2>2, <2>3, <2>4, <2>5 DEF TypeOK
<1>2. Ordered
  BY PublicationAssumption DEF Init, Ordered, Active, Before, During
<1>3. ASSUME NEW s \in Slots, Owned(s) PROVE Protected(s)
  BY <1>3, PublicationAssumption
  DEF Init, Owned, Protected, HoldsOriginal, Active, Before, During
<1> QED BY <1>1, <1>2, <1>3 DEF IInv

LEMMA StutterSafe == ASSUME IInv, UNCHANGED vars PROVE IInv'
<1>1. UNCHANGED <<target, backup, dirs, next, tree, depth, saved, journal, created, undo, error,
                  failures, at, touched, moves, was, wasDirs, pc, faults>>
  BY DEF vars, world, call, ended, rest
<1>2. TypeOK' /\ Ordered'
  BY <1>1 DEF IInv, TypeOK, Ordered, Committed
<1>3. ASSUME NEW s \in Slots, Owned(s)' PROVE Protected(s)'
  BY <1>1, <1>3 DEF IInv, Owned, Protected, JSlot, Slot, Committed, HoldsOriginal
<1> QED BY <1>2, <1>3 DEF IInv

LEMMA Invariance == Spec => []IInv
<1>1. Init => IInv
  BY InitSafe
<1>2. IInv /\ [Next]_vars => IInv'
  BY LoopSafe, UndoingSafe, CleanupSafe, InterruptSafe, OthersSafe, StutterSafe DEF Next
<1> QED BY <1>1, <1>2, PTL DEF Spec

\* Every state of a publication is well typed.
THEOREM PublicationTypeCorrect == Spec => []TypeOK
<1>1. IInv => TypeOK
  BY DEF IInv
<1> QED BY <1>1, Invariance, PTL

\* A process killed at any point of a publication loses no original: each target nobody
\* else wrote is in place, or has a backup beside it, until every file is published.
THEOREM NoOriginalLost == Spec => []NothingLost
<1>1. IInv => NothingLost
  BY DEF IInv, NothingLost, Owned, Protected
<1> QED BY <1>1, Invariance, PTL
-----------------------------------------------------------------------------
(* A failed publication is undone, or says what is not. *)

Named(s) == \E k \in 1..Len(journal) : JSlot(k) = s

\* What is noted of a target is enough to undo what is done to it.
Noted(s, kept) ==
  IF kept THEN was[s] \in {"file", "link"} /\ HoldsOriginal(backup[s])
  ELSE was[s] = "none" /\ backup[s] = "none"

Reverted(s) == TargetAsBefore(s) /\ Cleared(s)

\* A target is untouched before the journal names it, can be undone while it does, and is undone,
\* or listed as not, once the rollback has come to it.
Tracked(s) ==
  /\ pc \in Active /\ ~Named(s) /\ ~(pc = "journal" /\ s = Slot) => AsBefore(s)
  /\ pc = "journal" /\ s = Slot => TargetAsBefore(s) /\ Noted(s, saved)
  /\ pc \in Active => \A k \in 1..Len(journal) : JSlot(k) = s => Noted(s, journal[k].saved)
  /\ pc = "rollback" /\ ~Named(s) => Reverted(s)
  /\ pc = "rollback" => \A k \in 1..Len(journal) : JSlot(k) = s =>
       IF k <= undo THEN Noted(s, journal[k].saved) ELSE s \in failures \/ AsBefore(s)
  /\ pc = "unmake" \/ (pc = "raised" /\ error # "cut") => s \in failures \/ Reverted(s)

MadeSo(n) == {created[k] : k \in 1..n}

\* Every directory made is recorded, but for the one of a moment ago.
Recorded ==
  /\ pc \in Active \ {"record"} => dirs \subseteq wasDirs \cup MadeSo(Len(created))
  /\ pc = "record" =>
       dirs \subseteq wasDirs \cup MadeSo(Len(created)) \cup {<<tree, Chain[next][depth + 1]>>}
  /\ error \in {"os", "torn"} =>
       /\ pc = "rollback" => dirs \subseteq wasDirs \cup MadeSo(Len(created))
       /\ pc = "unmake" => dirs \subseteq wasDirs \cup failures \cup MadeSo(undo)
       /\ pc = "raised" => dirs \subseteq wasDirs \cup failures

RInv == Recorded /\ \A s \in Slots \ touched : Tracked(s)

LEMMA RaiseTracked ==
  ASSUME IInv, RInv, NEW e, pc \in Active, Raise(e), UNCHANGED <<world, call, rest>>,
         pc = "journal" => e = "interrupt", pc = "record" => e \notin {"os", "torn"}
  PROVE  RInv'
<1>1. /\ pc' = "rollback" /\ undo' = Len(journal) /\ error' = e
      /\ UNCHANGED <<target, backup, dirs, next, tree, depth, saved, journal, created,
                     failures, at, touched, moves, was, wasDirs>>
  BY DEF Raise, world, call, rest
<1>2. Recorded'
  BY <1>1 DEF RInv, Recorded, MadeSo, Active, Before, During
<1>3. ASSUME NEW s \in Slots \ touched' PROVE Tracked(s)'
  <2>1. Tracked(s)
    BY <1>1, <1>3 DEF RInv
  <2>2. (~Named(s) => Reverted(s))'
    <3>1. CASE pc = "journal" /\ s = Slot
      BY <1>1, <2>1, <3>1 DEF Tracked, Named, Reverted, Cleared, TargetAsBefore, JSlot
    <3>2. CASE ~(pc = "journal" /\ s = Slot)
      BY <1>1, <2>1, <3>2
      DEF Tracked, Named, Reverted, Cleared, TargetAsBefore, AsBefore, JSlot
    <3> QED BY <3>1, <3>2
  <2>3. \A k \in 1..Len(journal) : JSlot(k) = s => Noted(s, journal[k].saved)
    BY <2>1 DEF Tracked
  <2>4. \A k \in 1..Len(journal') : JSlot(k)' = s => k <= undo' /\ Noted(s, journal[k].saved)'
    BY <1>1, <2>3 DEF JSlot, Noted, IInv, TypeOK
  <2> QED BY <1>1, <2>2, <2>4 DEF Tracked, Active, Before, During
<1> QED BY <1>2, <1>3 DEF RInv

LEMMA ProceedTracked ==
  ASSUME IInv, RInv,
         \/ /\ pc \in {"validate", "enter", "walk", "record"}
            /\ pc' \in {"validate", "enter", "walk", "record"}
         \/ pc \in During /\ pc' \in During,
         Recorded', UNCHANGED <<target, backup, journal, touched, was>>
  PROVE  RInv'
<1>1. ASSUME NEW s \in Slots \ touched' PROVE Tracked(s)'
  <2>1. Tracked(s) /\ pc \in Active /\ pc # "journal"
    BY DEF RInv, Active, Before, During
  <2>2. pc' \in Active /\ pc' \notin {"journal", "rollback", "unmake", "raised"}
    BY DEF Active, Before, During
  <2>3. \A k \in 1..Len(journal) : JSlot(k) = s => Noted(s, journal[k].saved)
    BY <2>1 DEF Tracked
  <2>4. ~Named(s) => AsBefore(s)
    BY <2>1 DEF Tracked
  <2>5. (\A k \in 1..Len(journal) : JSlot(k) = s => Noted(s, journal[k].saved))'
    BY <2>3 DEF JSlot, Noted
  <2>6. (~Named(s) => AsBefore(s))'
    BY <2>4 DEF Named, JSlot, AsBefore, TargetAsBefore
  <2> QED BY <2>2, <2>5, <2>6 DEF Tracked
<1> QED BY <1>1 DEF RInv

LEMMA BackupTracked == ASSUME IInv, RInv, Backup PROVE RInv'
<1>1. pc = "walk" /\ Slot \in Slots /\ next <= Count
  BY SlotParts DEF Backup, IInv, Ordered, Active, Before
<1>2. CASE target[Slot] = "directory"
  <2>1. Raise("os") /\ UNCHANGED <<world, call, rest>>
    BY <1>2 DEF Backup, world, call
  <2> QED BY <1>1, <2>1, RaiseTracked DEF Active, Before
<1>3. CASE target[Slot] # "directory"
  <2>1. /\ pc' = "journal"
        /\ UNCHANGED <<target, dirs, next, tree, depth, journal, created, error, failures,
                       touched, was, wasDirs>>
    BY <1>3 DEF Backup, Proceed, ended, rest
  <2>2. \/ target[Slot] = "none" /\ saved' = FALSE /\ UNCHANGED backup
        \/ /\ target[Slot] # "none" /\ saved' = TRUE
           /\ \E b \in Kept(target[Slot], was[Slot]) : backup' = [backup EXCEPT ![Slot] = b]
    BY <1>3 DEF Backup
  <2>3. Recorded'
    BY <1>1, <2>1 DEF RInv, Recorded, MadeSo, Active, Before, During
  <2>4. ASSUME NEW s \in Slots \ touched' PROVE Tracked(s)'
    <3>1. Tracked(s)
      BY <2>1, <2>4 DEF RInv
    <3>2. CASE s # Slot
      <4>1. backup'[s] = backup[s]
        BY <1>1, <2>2, <3>2 DEF IInv, TypeOK
      <4>2. ~Named(s) => AsBefore(s)
        BY <1>1, <3>1 DEF Tracked, Active, Before
      <4>3. (~Named(s) => AsBefore(s))'
        BY <2>1, <4>1, <4>2 DEF Named, JSlot, AsBefore, TargetAsBefore
      <4>4. \A k \in 1..Len(journal) : JSlot(k) = s => Noted(s, journal[k].saved)
        BY <1>1, <3>1 DEF Tracked, Active, Before
      <4>5. (\A k \in 1..Len(journal) : JSlot(k) = s => Noted(s, journal[k].saved))'
        BY <2>1, <4>1, <4>4 DEF JSlot, Noted
      <4>6. s # Slot'
        BY <2>1, <3>2 DEF Slot
      <4> QED BY <2>1, <4>3, <4>5, <4>6 DEF Tracked, Active, Before
    <3>3. CASE s = Slot
      <4>1. ~Named(s)
        BY <1>1, <3>3, NewSlot DEF Before, Named
      <4>2. AsBefore(s)
        BY <1>1, <3>1, <4>1 DEF Tracked, Active, Before
      <4>3. TargetAsBefore(s)'
        BY <2>1, <4>2 DEF AsBefore, TargetAsBefore
      <4>4. was[s] \in Kinds /\ backup[s] = "none"
        BY <4>2 DEF AsBefore, IInv, TypeOK
      <4>5. Noted(s, saved)'
        <5>1. CASE target[s] = "none"
          <6>1. was[s] = "none"
            BY <4>2, <4>4, <5>1 DEF AsBefore, TargetAsBefore, HoldsOriginal
          <6> QED BY <2>1, <2>2, <3>3, <4>4, <5>1, <6>1 DEF Noted
        <5>2. CASE target[s] # "none"
          <6>1. was[s] \in {"file", "link"} /\ HoldsOriginal(target[s])
            BY <1>3, <3>3, <4>2, <4>4, <5>2 DEF AsBefore, TargetAsBefore, Kinds
          <6>2. HoldsOriginal(backup'[s])
            BY <1>1, <2>2, <3>3, <5>2, <6>1 DEF Kept, HoldsOriginal, IInv, TypeOK
          <6> QED BY <2>1, <2>2, <3>3, <5>2, <6>1, <6>2 DEF Noted
        <5> QED BY <5>1, <5>2
      <4>6. (\A k \in 1..Len(journal) : JSlot(k) # s)' /\ s = Slot'
        BY <2>1, <3>3, <4>1 DEF Named, JSlot, Slot
      <4> QED BY <2>1, <4>3, <4>5, <4>6 DEF Tracked, Active, Before
    <3> QED BY <3>2, <3>3
  <2> QED BY <2>3, <2>4 DEF RInv
<1> QED BY <1>2, <1>3

LEMMA CopyTornTracked == ASSUME IInv, RInv, CopyTorn PROVE RInv'
<1>1. /\ pc = "walk" /\ pc' = "rollback" /\ undo' = Len(journal)
      /\ error' \in {"torn", "interrupt"}
      /\ backup' = [backup EXCEPT ![Slot] = "partial"]
      /\ UNCHANGED <<target, dirs, next, tree, journal, created, failures, touched, was, wasDirs>>
  BY DEF CopyTorn, Raise, call, rest
<1>2. Slot \in Slots /\ backup'[Slot] = "partial" /\ Slot' = Slot
      /\ \A s \in Slots : s # Slot => backup'[s] = backup[s]
  <2>1. Slot \in Slots
    BY <1>1, SlotParts DEF IInv, Ordered, Active, Before
  <2> QED BY <1>1, <2>1 DEF IInv, TypeOK, Slot
<1>3. Recorded'
  BY <1>1 DEF RInv, Recorded, MadeSo, Active, Before, During
<1>4. ASSUME NEW s \in Slots \ touched' PROVE Tracked(s)'
  <2>1. Tracked(s)
    BY <1>1, <1>4 DEF RInv
  <2>2. ~Named(s) => AsBefore(s)
    BY <1>1, <2>1 DEF Tracked, Active, Before
  <2>3. \A k \in 1..Len(journal) : JSlot(k) = s => Noted(s, journal[k].saved)
    BY <1>1, <2>1 DEF Tracked, Active, Before
  <2>4. CASE s = Slot
    <3>1. ~Named(s) /\ \A k \in 1..Len(journal) : JSlot(k) # s
      BY <1>1, <2>4, NewSlot DEF Before, Named
    <3>2. TargetAsBefore(s)'
      BY <1>1, <2>2, <3>1 DEF AsBefore, TargetAsBefore
    <3>3. Cleared(s)'
      BY <1>1, <1>2, <2>4 DEF Cleared
    <3>4. \A k \in 1..Len(journal') : JSlot(k)' # s
      BY <1>1, <3>1 DEF JSlot
    <3> QED BY <1>1, <3>2, <3>3, <3>4 DEF Tracked, Reverted, Active, Before, During
  <2>5. CASE s # Slot
    <3>1. backup'[s] = backup[s]
      BY <1>2, <1>4, <2>5
    <3>2. (~Named(s) => Reverted(s))'
      BY <1>1, <2>2, <3>1 DEF Named, JSlot, Reverted, Cleared, AsBefore, TargetAsBefore
    <3>3. \A k \in 1..Len(journal') : JSlot(k)' = s => k <= undo' /\ Noted(s, journal[k].saved)'
      BY <1>1, <2>3, <3>1 DEF JSlot, Noted, IInv, TypeOK
    <3> QED BY <1>1, <3>2, <3>3 DEF Tracked, Active, Before, During
  <2> QED BY <2>4, <2>5
<1> QED BY <1>3, <1>4 DEF RInv

LEMMA JournalTracked == ASSUME IInv, RInv, Journal PROVE RInv'
<1> DEFINE j == [file |-> next, tree |-> tree, saved |-> saved]
<1>1. /\ pc = "journal" /\ pc' = "replace" /\ journal' = Append(journal, j)
      /\ UNCHANGED <<target, backup, dirs, created, touched, was, wasDirs>>
  BY DEF Journal, Proceed, world, ended, rest
<1>2. journal \in Seq(Journaled) /\ Len(journal) \in Nat
  BY DEF IInv, TypeOK
<1>3. j.tree = tree /\ j.file = next /\ j.saved = saved
  OBVIOUS
<1> HIDE DEF j
<1>4. /\ Len(journal') = Len(journal) + 1
      /\ \A k \in 1..Len(journal) : journal'[k] = journal[k]
      /\ journal'[Len(journal) + 1] = j
  BY <1>1, <1>2
<1>5. Recorded'
  BY <1>1 DEF RInv, Recorded, MadeSo, Active, Before, During
<1>6. ASSUME NEW s \in Slots \ touched' PROVE Tracked(s)'
  <2>1. Tracked(s)
    BY <1>1, <1>6 DEF RInv
  <2>2. \A k \in 1..Len(journal) : JSlot(k) = s => Noted(s, journal[k].saved)
    BY <1>1, <2>1 DEF Tracked, Active, Before
  <2>3. ASSUME NEW k \in 1..Len(journal'), JSlot(k)' = s PROVE Noted(s, journal[k].saved)'
    <3>1. CASE k \in 1..Len(journal)
      <4>1. JSlot(k) = s /\ journal'[k] = journal[k]
        BY <1>4, <2>3, <3>1 DEF JSlot
      <4> QED BY <1>1, <2>2, <3>1, <4>1 DEF Noted
    <3>2. CASE k = Len(journal) + 1
      <4>1. s = Slot /\ journal'[k].saved = saved
        BY <1>3, <1>4, <2>3, <3>2 DEF JSlot, Slot
      <4>2. Noted(s, saved)
        BY <1>1, <2>1, <4>1 DEF Tracked
      <4> QED BY <1>1, <4>1, <4>2 DEF Noted
    <3> QED BY <1>2, <1>4, <3>1, <3>2
  <2>4. ASSUME ~Named(s)' PROVE AsBefore(s)'
    <3>1. ~Named(s) /\ s # Slot
      <4>1. \A k \in 1..Len(journal) : k \in 1..Len(journal') /\ JSlot(k)' = JSlot(k)
        BY <1>2, <1>4 DEF JSlot
      <4>2. ASSUME NEW k, k = Len(journal) + 1 PROVE k \in 1..Len(journal') /\ JSlot(k)' = Slot
        BY <1>2, <1>3, <1>4, <4>2 DEF JSlot, Slot
      <4> QED BY <2>4, <4>1, <4>2 DEF Named
    <3>2. AsBefore(s)
      BY <1>1, <2>1, <3>1 DEF Tracked, Active, Before
    <3> QED BY <1>1, <3>2 DEF AsBefore, TargetAsBefore
  <2> QED BY <1>1, <2>3, <2>4 DEF Tracked
<1> QED BY <1>5, <1>6 DEF RInv

LEMMA ReplaceTracked == ASSUME IInv, RInv, Replace PROVE RInv'
<1>1. /\ pc = "replace" /\ pc' = "anchored" /\ target' = [target EXCEPT ![Slot] = "new"]
      /\ UNCHANGED <<backup, dirs, journal, created, touched, was, wasDirs>>
  BY DEF Replace, Proceed, call, rest
<1>2. Slot \in Slots /\ next \in 1..Len(journal) /\ JSlot(next) = Slot
  BY <1>1, SlotParts, PublicationAssumption
  DEF IInv, Ordered, TypeOK, Active, During, JSlot, Slot
<1>3. Recorded'
  BY <1>1 DEF RInv, Recorded, MadeSo, Active, Before, During
<1>4. ASSUME NEW s \in Slots \ touched' PROVE Tracked(s)'
  <2>1. Tracked(s)
    BY <1>1, <1>4 DEF RInv
  <2>2. \A k \in 1..Len(journal) : JSlot(k) = s => Noted(s, journal[k].saved)
    BY <1>1, <2>1 DEF Tracked, Active, During
  <2>3. (\A k \in 1..Len(journal) : JSlot(k) = s => Noted(s, journal[k].saved))'
    BY <1>1, <2>2 DEF JSlot, Noted
  <2>4. ASSUME ~Named(s)' PROVE AsBefore(s)'
    <3>1. ~Named(s)
      BY <1>1, <2>4 DEF Named, JSlot
    <3>2. AsBefore(s) /\ s # Slot
      BY <1>1, <1>2, <2>1, <3>1 DEF Tracked, Named, Active, During
    <3>3. target'[s] = target[s]
      BY <1>1, <1>2, <3>2 DEF IInv, TypeOK
    <3> QED BY <1>1, <3>2, <3>3 DEF AsBefore, TargetAsBefore
  <2> QED BY <1>1, <2>3, <2>4 DEF Tracked
<1> QED BY <1>3, <1>4 DEF RInv

LEMMA CheckPathTracked == ASSUME IInv, RInv, CheckPath PROVE RInv'
<1>1. pc = "matched" /\ UNCHANGED <<world, tree, depth, saved, journal, created, rest>>
  BY DEF CheckPath
<1>2. CASE tree # at
  <2>1. Raise("os") /\ UNCHANGED <<world, call, rest>>
    BY <1>1, <1>2 DEF CheckPath, call
  <2> QED BY <1>1, <2>1, RaiseTracked DEF Active, During
<1>3. CASE tree = at
  <2>1. /\ UNCHANGED <<target, backup, dirs, journal, created, touched, was, wasDirs>>
        /\ pc' \in {"cleanup", "validate"}
    BY <1>1, <1>3 DEF CheckPath, Proceed, world, rest
  <2>2. Recorded'
    BY <1>1, <2>1 DEF RInv, Recorded, MadeSo, Active, Before, During
  <2>3. ASSUME NEW s \in Slots \ touched' PROVE Tracked(s)'
    <3>1. Tracked(s)
      BY <2>1, <2>3 DEF RInv
    <3>2. \A k \in 1..Len(journal) : JSlot(k) = s => Noted(s, journal[k].saved)
      BY <1>1, <3>1 DEF Tracked, Active, During
    <3>3. (\A k \in 1..Len(journal) : JSlot(k) = s => Noted(s, journal[k].saved))'
      BY <2>1, <3>2 DEF JSlot, Noted
    <3>4. ~Named(s) => AsBefore(s)
      BY <1>1, <3>1 DEF Tracked, Active, During
    <3>5. (~Named(s) => AsBefore(s))'
      BY <2>1, <3>4 DEF Named, JSlot, AsBefore, TargetAsBefore
    <3> QED BY <2>1, <3>3, <3>5 DEF Tracked, Active, Before, During
  <2> QED BY <2>2, <2>3 DEF RInv
<1> QED BY <1>2, <1>3

LEMMA LoopTracked == ASSUME IInv, RInv, Publishing PROVE RInv'
<1> USE DEF Active, Before, During
<1>1. Len(created) \in Nat /\ created \in Seq(Made)
  BY DEF IInv, TypeOK
<1>2. CASE Validate
  <2>1. CASE at = "planned"
    <3>1. /\ pc = "validate" /\ pc' = "enter"
          /\ UNCHANGED <<target, backup, dirs, journal, created, touched, was, wasDirs>>
      BY <1>2, <2>1 DEF Validate, Proceed, world, call, rest
    <3>2. Recorded'
      BY <3>1 DEF RInv, Recorded, MadeSo
    <3> QED BY <3>1, <3>2, ProceedTracked
  <2>2. CASE at # "planned"
    BY <1>2, <2>2, RaiseTracked DEF Validate
  <2> QED BY <2>1, <2>2
<1>3. CASE Enter \/ OpenPart
  <2>1. /\ pc \in {"enter", "walk"} /\ pc' = "walk"
        /\ UNCHANGED <<target, backup, dirs, journal, created, touched, was, wasDirs>>
    BY <1>3 DEF Enter, OpenPart, Proceed, world, rest
  <2>2. Recorded'
    BY <2>1 DEF RInv, Recorded, MadeSo
  <2> QED BY <2>1, <2>2, ProceedTracked
<1>4. CASE MakePart
  <2>1. /\ pc = "walk" /\ pc' = "record"
        /\ dirs' = dirs \cup {<<tree, Chain[next][depth + 1]>>}
        /\ UNCHANGED <<target, backup, journal, created, touched, was, wasDirs, tree, next, depth>>
    BY <1>4 DEF MakePart, Proceed, call, rest
  <2>2. Recorded'
    BY <2>1 DEF RInv, Recorded, MadeSo
  <2> QED BY <2>1, <2>2, ProceedTracked
<1>5. CASE RecordPart
  <2> DEFINE d == <<tree, Chain[next][depth + 1]>>
  <2>1. /\ pc = "record" /\ pc' = "walk" /\ created' = Append(created, d)
        /\ UNCHANGED <<target, backup, dirs, journal, touched, was, wasDirs>>
    BY <1>5 DEF RecordPart, Proceed, world, rest
  <2>2. dirs \subseteq wasDirs \cup MadeSo(Len(created)) \cup {d}
    BY <2>1 DEF RInv, Recorded
  <2> HIDE DEF d
  <2>3. /\ Len(created') = Len(created) + 1 /\ created'[Len(created) + 1] = d
        /\ \A k \in 1..Len(created) : created'[k] = created[k]
    BY <1>1, <2>1
  <2>4. MadeSo(Len(created)) \cup {d} \subseteq MadeSo(Len(created))'
    BY <1>1, <2>3 DEF MadeSo
  <2>5. Recorded'
    BY <2>1, <2>2, <2>4 DEF Recorded
  <2> QED BY <2>1, <2>5, ProceedTracked
<1>6. CASE RecordFails \/ CallFails
  BY <1>6, RaiseTracked DEF RecordFails, CallFails, Fails
<1>7. CASE CheckAnchor
  <2>1. CASE at = "planned"
    <3>1. /\ pc = "anchored" /\ pc' = "matched"
          /\ UNCHANGED <<target, backup, dirs, journal, created, touched, was, wasDirs>>
      BY <1>7, <2>1 DEF CheckAnchor, Proceed, world, call, rest
    <3>2. Recorded'
      BY <3>1 DEF RInv, Recorded, MadeSo
    <3> QED BY <3>1, <3>2, ProceedTracked
  <2>2. CASE at # "planned"
    BY <1>7, <2>2, RaiseTracked DEF CheckAnchor
  <2> QED BY <2>1, <2>2
<1> QED
  BY <1>2, <1>3, <1>4, <1>5, <1>6, <1>7, BackupTracked, CopyTornTracked, JournalTracked,
     ReplaceTracked, CheckPathTracked DEF Publishing

LEMMA RollBackTracked == ASSUME IInv, RInv, RollBack PROVE RInv'
<1> DEFINE j == journal[undo]
           s == <<j.tree, j.file>>
           r == Restored(target[s], backup[s], was[s])
<1>1. /\ pc = "rollback" /\ undo \in 1..Len(journal) /\ undo' = undo - 1 /\ pc' = pc
      /\ UNCHANGED <<dirs, next, tree, journal, created, error, touched, was, wasDirs>>
  BY DEF RollBack, IInv, TypeOK, Ordered, call, rest
<1>2. /\ j \in Journaled /\ s \in Slots /\ s = JSlot(undo) /\ target[s] \in Entries
      /\ backup[s] \in Entries /\ was[s] \in Kinds
  <2>1. j \in Journaled /\ s \in Slots /\ s = JSlot(undo)
    BY <1>1, SlotParts DEF IInv, JSlot
  <2> QED BY <2>1 DEF IInv, TypeOK
<1>3. \/ /\ j.saved /\ UNCHANGED failures
         /\ target' = [target EXCEPT ![s] = r[1]] /\ backup' = [backup EXCEPT ![s] = r[2]]
      \/ /\ ~j.saved /\ UNCHANGED failures
         /\ target' = [target EXCEPT ![s] = "none"] /\ UNCHANGED backup
      \/ failures' = failures \cup {s} /\ UNCHANGED <<target, backup>>
  BY DEF RollBack
<1>4. HoldsOriginal(backup[s]) => HoldsOriginal(r[1]) /\ r[2] = "none"
  BY <1>2 DEF Restored, HoldsOriginal
<1>5. j.saved = journal[undo].saved
  OBVIOUS
<1> HIDE DEF j, s, r
<1>6. /\ \A q \in Slots \ {s} : target'[q] = target[q] /\ backup'[q] = backup[q]
      /\ failures \subseteq failures'
  BY <1>2, <1>3 DEF IInv, TypeOK
<1>7. Recorded'
  BY <1>1 DEF RInv, Recorded, MadeSo, Active, Before, During
<1>8. ASSUME NEW q \in Slots \ touched' PROVE Tracked(q)'
  <2>1. Tracked(q)
    BY <1>1, <1>8 DEF RInv
  <2>2. undo \in Nat /\ undo' \in Nat /\ undo' < undo
    BY <1>1 DEF IInv, TypeOK
  <2>3. ASSUME NEW k \in 1..Len(journal), JSlot(k) = q
        PROVE  IF k <= undo THEN Noted(q, journal[k].saved) ELSE q \in failures \/ AsBefore(q)
    BY <1>1, <2>1, <2>3 DEF Tracked
  <2>4. CASE q # s
    <3>1. target'[q] = target[q] /\ backup'[q] = backup[q]
      BY <1>6, <1>8, <2>4
    <3>2. ASSUME NEW k \in 1..Len(journal'), JSlot(k)' = q
          PROVE  (IF k <= undo THEN Noted(q, journal[k].saved) ELSE q \in failures \/ AsBefore(q))'
      <4>1. JSlot(k) = q /\ k \in 1..Len(journal) /\ k # undo
        BY <1>1, <1>2, <2>4, <3>2 DEF JSlot
      <4>2. k <= undo' => k <= undo
        BY <2>2, <4>1
      <4>3. k <= undo => k <= undo'
        BY <1>1, <2>2, <4>1
      <4> QED BY <1>1, <1>6, <2>3, <3>1, <4>1, <4>2, <4>3
        DEF Noted, AsBefore, TargetAsBefore
    <3>3. (~Named(q) => Reverted(q))'
      <4>1. ~Named(q) => Reverted(q)
        BY <1>1, <2>1 DEF Tracked
      <4> QED BY <1>1, <3>1, <4>1 DEF Named, JSlot, Reverted, Cleared, Slot, TargetAsBefore
    <3> QED BY <1>1, <3>2, <3>3 DEF Tracked, Active, Before, During
  <2>5. CASE q = s
    <3>1. Noted(q, j.saved)
      BY <1>1, <1>2, <1>5, <2>2, <2>3, <2>5
    <3>2. /\ target \in [Slots -> Entries] /\ backup \in [Slots -> Entries]
          /\ was'[q] = was[q] /\ q \in Slots
      BY <1>1, <1>2, <2>5 DEF IInv, TypeOK
    <3>3. q \in failures' \/ AsBefore(q)'
      <4>1. CASE failures' = failures \cup {s}
        BY <2>5, <4>1
      <4>2. CASE j.saved /\ target' = [target EXCEPT ![s] = r[1]] /\ backup' = [backup EXCEPT ![s] = r[2]]
        <5>1. target'[q] = r[1] /\ backup'[q] = r[2]
          BY <2>5, <3>2, <4>2
        <5>2. was[q] \in {"file", "link"} /\ HoldsOriginal(r[1]) /\ r[2] = "none"
          BY <1>4, <2>5, <3>1, <4>2 DEF Noted
        <5> QED BY <3>2, <5>1, <5>2 DEF AsBefore, TargetAsBefore, HoldsOriginal
      <4>3. CASE ~j.saved /\ target' = [target EXCEPT ![s] = "none"] /\ UNCHANGED backup
        <5>1. target'[q] = "none" /\ was[q] = "none" /\ backup'[q] = "none"
          BY <2>5, <3>1, <3>2, <4>3 DEF Noted
        <5> QED BY <3>2, <5>1 DEF AsBefore, TargetAsBefore
      <4> QED BY <1>3, <4>1, <4>2, <4>3
    <3>4. ASSUME NEW k \in 1..Len(journal'), JSlot(k)' = q PROVE k > undo'
      <4>1. JSlot(k) = s /\ k \in 1..Len(journal)
        BY <1>1, <2>5, <3>4 DEF JSlot
      <4>2. k = undo
        BY <1>1, <1>2, <4>1, SlotParts DEF IInv, Ordered
      <4> QED BY <2>2, <4>2
    <3>5. ASSUME NEW k \in 1..Len(journal'), JSlot(k)' = q
          PROVE  (IF k <= undo THEN Noted(q, journal[k].saved) ELSE q \in failures \/ AsBefore(q))'
      <4>1. ~(k <= undo')
        BY <1>1, <2>2, <3>4, <3>5
      <4> QED BY <3>3, <4>1
    <3>6. Named(q)'
      BY <1>1, <1>2, <2>5 DEF Named, JSlot
    <3> QED BY <1>1, <3>5, <3>6 DEF Tracked, Active, Before, During
  <2> QED BY <2>4, <2>5
<1> QED BY <1>7, <1>8 DEF RInv

LEMMA UndoingTracked == ASSUME IInv, RInv, Undoing PROVE RInv'
<1> USE DEF Active, Before, During
<1>1. CASE RolledBackFiles
  <2>1. /\ pc = "rollback" /\ undo = 0 /\ pc' = "unmake" /\ undo' = Len(created)
        /\ UNCHANGED <<target, backup, dirs, next, tree, journal, created, error, failures,
                       touched, was, wasDirs>>
    BY <1>1 DEF RolledBackFiles, world, call, rest
  <2>2. Recorded'
    BY <2>1 DEF RInv, Recorded, MadeSo
  <2>3. ASSUME NEW s \in Slots \ touched' PROVE Tracked(s)'
    <3>1. Tracked(s)
      BY <2>1, <2>3 DEF RInv
    <3>2. \A k \in 1..Len(journal) : JSlot(k) = s => s \in failures \/ AsBefore(s)
      BY <2>1, <3>1 DEF Tracked
    <3>3. s \in failures \/ Reverted(s)
      BY <2>1, <3>1, <3>2 DEF Tracked, Named, Reverted, Cleared, AsBefore
    <3>4. (s \in failures \/ Reverted(s))'
      BY <2>1, <3>3 DEF Reverted, Cleared, Slot, TargetAsBefore
    <3> QED BY <2>1, <3>4 DEF Tracked
  <2> QED BY <2>2, <2>3 DEF RInv
<1>2. ASSUME NEW s \in Slots \ touched, pc = "unmake", pc' \in {"unmake", "raised"},
             UNCHANGED <<target, backup, next, tree, error, touched, was>>, failures \subseteq failures'
      PROVE  Tracked(s)'
  <2>1. s \in failures \/ Reverted(s)
    BY <1>2 DEF RInv, Tracked
  <2>2. (s \in failures \/ Reverted(s))'
    BY <1>2, <2>1 DEF Reverted, Cleared, Slot, TargetAsBefore
  <2> QED BY <1>2, <2>2 DEF Tracked
<1>3. CASE Unmake
  <2>1. /\ pc = "unmake" /\ undo \in 1..Len(created) /\ undo' = undo - 1 /\ pc' = pc
        /\ UNCHANGED <<target, backup, next, tree, created, error, touched, was, wasDirs>>
    BY <1>3 DEF Unmake, IInv, TypeOK, Ordered, call, rest
  <2>2. \/ dirs' = dirs \ {created[undo]} /\ UNCHANGED failures
        \/ failures' = failures \cup {created[undo]} /\ UNCHANGED dirs
    BY <1>3 DEF Unmake
  <2>3. MadeSo(undo) \subseteq MadeSo(undo') \cup {created[undo]}
    BY <2>1 DEF MadeSo
  <2>4. Recorded'
    BY <2>1, <2>2, <2>3 DEF RInv, Recorded, MadeSo
  <2>5. failures \subseteq failures'
    BY <2>2
  <2> QED BY <1>2, <2>1, <2>4, <2>5 DEF RInv
<1>4. CASE Propagate
  <2>1. /\ pc = "unmake" /\ undo = 0 /\ pc' = "raised"
        /\ UNCHANGED <<target, backup, dirs, next, tree, created, error, failures, touched,
                       was, wasDirs>>
    BY <1>4 DEF Propagate, world, call, ended, rest
  <2>2. Recorded'
    BY <2>1 DEF RInv, Recorded, MadeSo
  <2> QED BY <1>2, <2>1, <2>2 DEF RInv
<1> QED BY <1>1, <1>3, <1>4, RollBackTracked DEF Undoing

LEMMA OtherwiseTracked ==
  ASSUME IInv, RInv, Cleanup \/ Finish \/ Interrupt \/ MoveTree \/ Meddle \/ UNCHANGED vars
  PROVE  RInv'
<1> USE DEF Active, Before, During
<1>1. ASSUME pc' \in {"cleanup", "published"} \/ (pc' = "raised" /\ error' = "cut") PROVE RInv'
  BY <1>1 DEF RInv, Recorded, Tracked
<1>2. CASE Cleanup \/ Finish
  BY <1>1, <1>2 DEF Cleanup, Finish, rest
<1>3. CASE Interrupt
  <2>1. CASE pc \in {"rollback", "unmake", "cleanup"}
    BY <1>1, <1>3, <2>1 DEF Interrupt
  <2>2. CASE pc \notin {"rollback", "unmake", "cleanup"}
    <3>1. pc \in Active
      BY <1>3, <2>2 DEF Interrupt, IInv, TypeOK, Places
    <3> QED BY <1>3, <2>2, <3>1, RaiseTracked DEF Interrupt
  <2> QED BY <2>1, <2>2
<1>4. ASSUME UNCHANGED <<backup, dirs, next, tree, depth, saved, journal, created, undo, error,
                         failures, was, wasDirs, pc>>,
             touched \subseteq touched', \A s \in Slots \ touched' : target'[s] = target[s]
      PROVE  RInv'
  <2>1. Recorded'
    BY <1>4 DEF RInv, Recorded, MadeSo
  <2>2. ASSUME NEW s \in Slots \ touched' PROVE Tracked(s)'
    <3>1. Tracked(s) /\ target'[s] = target[s]
      BY <1>4, <2>2 DEF RInv
    <3>2. /\ Named(s)' = Named(s) /\ Reverted(s)' = Reverted(s) /\ AsBefore(s)' = AsBefore(s)
          /\ TargetAsBefore(s)' = TargetAsBefore(s) /\ Slot' = Slot
      BY <1>4, <3>1 DEF Named, JSlot, Reverted, Cleared, AsBefore, TargetAsBefore, Slot
    <3>3. \A k \in 1..Len(journal) : JSlot(k)' = JSlot(k)
      BY <1>4 DEF JSlot
    <3>4. \A kept : Noted(s, kept)' = Noted(s, kept)
      BY <1>4 DEF Noted
    <3> QED BY <1>4, <3>1, <3>2, <3>3, <3>4 DEF Tracked
  <2> QED BY <2>1, <2>2 DEF RInv
<1>5. CASE MoveTree
  BY <1>4, <1>5 DEF MoveTree, world, call, ended
<1>6. CASE Meddle
  <2>1. PICK s \in Slots, e \in {"foreign", "none"} :
          target' = [target EXCEPT ![s] = e] /\ touched' = touched \cup {s}
    BY <1>6 DEF Meddle
  <2>2. \A q \in Slots \ touched' : target'[q] = target[q]
    BY <2>1 DEF IInv, TypeOK
  <2> QED BY <1>4, <1>6, <2>1, <2>2 DEF Meddle, call, ended
<1>7. CASE UNCHANGED vars
  BY <1>4, <1>7 DEF vars, world, call, ended, rest
<1> QED BY <1>2, <1>3, <1>5, <1>6, <1>7

LEMMA TrackedAlways == Spec => []RInv
<1>1. Init => RInv
  <2> SUFFICES ASSUME Init PROVE RInv
    OBVIOUS
  <2>1. /\ pc = "validate" /\ dirs = wasDirs /\ journal = <<>> /\ Len(journal) = 0
        /\ target = [s \in Slots |-> IF was[s] \in {"file", "link"} THEN "old" ELSE was[s]]
        /\ backup = [s \in Slots |-> "none"]
    BY DEF Init
  <2>2. Recorded
    BY <2>1 DEF Recorded
  <2>3. ASSUME NEW s \in Slots PROVE Tracked(s)
    <3>1. AsBefore(s)
      BY <2>1 DEF AsBefore, TargetAsBefore, HoldsOriginal
    <3> QED BY <2>1, <3>1 DEF Tracked
  <2> QED BY <2>2, <2>3 DEF RInv
<1>2. IInv /\ RInv /\ [Next]_vars => RInv'
  BY LoopTracked, UndoingTracked, OtherwiseTracked DEF Next
<1> QED BY <1>1, <1>2, Invariance, PTL DEF Spec

\* A publication that fails with an I/O error leaves each target nobody else wrote as it was,
\* with nothing beside it but a copy that could not be removed, and no directory it made, or
\* names what it could not undo, for every list of files, whatever fails and whatever others
\* replace meanwhile (_publish_staged_files_at, _rollback_bound_file, _copy_target).
THEOREM FailureUndone == Spec => []RolledBack
<1>1. IInv /\ RInv => RolledBack
  <2> SUFFICES ASSUME IInv, RInv, pc = "raised", error # "cut" PROVE RolledBack
    BY DEF RolledBack
  <2>1. \A s \in Slots \ (touched \cup failures) : Reverted(s)
    BY DEF RInv, Tracked
  <2>2. error \in {"os", "torn"} => dirs \subseteq wasDirs \cup failures
    BY DEF RInv, Recorded
  <2> QED BY <2>1, <2>2 DEF RolledBack, Reverted
<1> QED BY <1>1, TrackedAlways, Invariance, PTL
-----------------------------------------------------------------------------
(* A publication that returns has published into the planned directory.    *)

\* How often the directory was exchanged, if the descriptor is in the other one.
Looked ==
  /\ at = "other" => moves >= 1
  /\ pc \in {"walk", "record", "journal", "replace", "anchored"} /\ tree = "other" =>
       moves >= 1 /\ (at = "planned" => moves >= 2)
  /\ pc = "matched" /\ tree = "other" => moves >= 2 /\ (at = "other" => moves >= 3)
  /\ pc \in Active \cup {"cleanup", "published"} => \A k \in 1..Len(journal) :
       k < next /\ journal[k].tree = "other" => moves >= 3
  /\ pc \in {"cleanup", "published"} => Len(journal) = Count
  /\ pc = "published" => undo > Len(journal)

\* A target the journal names is the staged file once it is replaced, and loses its backup.
Placed(s) ==
  /\ pc \in Active => \A k \in 1..Len(journal) :
       JSlot(k) = s /\ (k < next \/ pc \in {"anchored", "matched"}) => target[s] = "new"
  /\ pc \in {"cleanup", "published"} /\ ~Named(s) => AsBefore(s)
  /\ pc \in {"cleanup", "published"} => \A k \in 1..Len(journal) : JSlot(k) = s =>
       /\ target[s] = "new"
       /\ (k < undo /\ faults = 0) \/ ~journal[k].saved => backup[s] = "none"

PInv == Looked /\ \A s \in Slots \ touched : Placed(s)

LEMMA LookedKept == ASSUME IInv, Looked, [Next]_vars PROVE Looked'
<1> USE DEF Active, Before, During
<1>1. moves \in Nat /\ Len(journal) \in Nat /\ next \in Nat /\ at \in Trees
  BY DEF IInv, TypeOK
<1>2. CASE pc' \in {"rollback", "unmake", "raised"} /\ UNCHANGED <<at, moves>>
  BY <1>2 DEF Looked
<1>3. ASSUME UNCHANGED <<at, moves, tree, journal, next>>, pc' = pc, pc # "published"
      PROVE  Looked'
  BY <1>3 DEF Looked
<1>4. CASE Publishing
  <2>1. UNCHANGED <<at, moves>>
    BY <1>4 DEF Publishing, Validate, Enter, OpenPart, MakePart, RecordPart, RecordFails,
       CallFails, Backup, CopyTorn, Journal, Replace, CheckAnchor, CheckPath, rest
  <2> SUFFICES ASSUME pc' # "rollback" PROVE Looked'
    BY <1>2, <2>1
  <2>2. CASE Journal
    <3>1. /\ pc = "journal" /\ pc' = "replace" /\ UNCHANGED <<next, tree>>
          /\ Len(journal') = Len(journal) + 1 /\ Len(journal) = next - 1
          /\ \A k \in 1..Len(journal) : journal'[k] = journal[k]
      BY <2>2 DEF Journal, Proceed, IInv, TypeOK, Ordered
    <3> QED BY <1>1, <2>1, <3>1 DEF Looked
  <2>3. CASE CheckPath
    <3>1. /\ pc = "matched" /\ tree = at /\ next' = next + 1 /\ UNCHANGED <<tree, journal>>
          /\ \/ pc' = "cleanup" /\ next = Count
             \/ pc' = "validate"
      BY <2>3 DEF CheckPath, Raise, Proceed
    <3>2. Len(journal) = next /\ journal[next].tree = tree
      BY <3>1 DEF IInv, Ordered
    <3>3. ASSUME NEW k \in 1..Len(journal), journal[k].tree = "other" PROVE moves >= 3
      <4>1. CASE k = next
        BY <2>1, <3>1, <3>2, <3>3, <4>1 DEF Looked
      <4>2. CASE k < next
        BY <3>1, <3>3, <4>2 DEF Looked
      <4> QED BY <1>1, <3>2, <4>1, <4>2
    <3> QED BY <1>1, <2>1, <3>1, <3>2, <3>3 DEF Looked
  <2>4. CASE CheckAnchor
    <3>1. /\ pc = "anchored" /\ pc' = "matched" /\ at = "planned"
          /\ UNCHANGED <<tree, journal, next>>
      BY <2>4 DEF CheckAnchor, Raise, Proceed, call
    <3> QED BY <1>1, <2>1, <3>1 DEF Looked
  <2>5. CASE Enter
    <3>1. pc = "enter" /\ pc' = "walk" /\ tree' = at /\ UNCHANGED <<journal, next>>
      BY <2>5 DEF Enter, Proceed
    <3> QED BY <1>1, <2>1, <3>1 DEF Looked
  <2>6. CASE Validate
    <3>1. pc = "validate" /\ pc' = "enter" /\ UNCHANGED <<tree, journal, next>>
      BY <2>6 DEF Validate, Raise, Proceed, call
    <3> QED BY <1>1, <2>1, <3>1 DEF Looked
  <2>7. CASE OpenPart \/ MakePart \/ RecordPart \/ Backup \/ Replace
    <3>1. /\ pc \in {"walk", "record", "replace"}
          /\ pc' \in {"walk", "record", "journal", "anchored"}
          /\ UNCHANGED <<tree, journal, next>>
      BY <2>7 DEF OpenPart, MakePart, RecordPart, Backup, Replace, Raise, Proceed, call
    <3> QED BY <1>1, <2>1, <3>1 DEF Looked
  <2>8. CASE RecordFails \/ CallFails \/ CopyTorn
    BY <2>8 DEF RecordFails, CallFails, CopyTorn, Fails, Raise
  <2> QED BY <1>4, <2>2, <2>3, <2>4, <2>5, <2>6, <2>7, <2>8 DEF Publishing
<1>5. CASE Undoing
  BY <1>2, <1>5 DEF Undoing, RollBack, RolledBackFiles, Unmake, Propagate, rest
<1>6. CASE Cleanup
  BY <1>3, <1>6 DEF Cleanup, call, rest
<1>7. CASE Finish
  <2>1. /\ pc = "cleanup" /\ undo > Len(journal) /\ pc' = "published"
        /\ UNCHANGED <<at, moves, tree, journal, next, undo>>
    BY <1>7 DEF Finish, call, ended, rest
  <2> QED BY <2>1 DEF Looked
<1>8. CASE Interrupt
  BY <1>2, <1>8 DEF Interrupt, Raise, rest
<1>9. CASE MoveTree
  <2>1. moves' = moves + 1 /\ at' # at /\ UNCHANGED <<tree, journal, next, pc, undo>>
    BY <1>9 DEF MoveTree, Move, call, ended
  <2> QED BY <1>1, <2>1 DEF Looked, Trees
<1>10. CASE Meddle
  <2>1. moves' = moves + 1 /\ UNCHANGED <<at, tree, journal, next, pc, undo>>
    BY <1>10 DEF Meddle, Move, call, ended
  <2> QED BY <1>1, <2>1 DEF Looked
<1>11. CASE UNCHANGED vars
  BY <1>11 DEF vars, call, ended, rest, Looked
<1> QED BY <1>4, <1>5, <1>6, <1>7, <1>8, <1>9, <1>10, <1>11 DEF Next

\* A step that leaves the target and its backup alone keeps it placed.
LEMMA PlacedFrame ==
  ASSUME NEW s, Placed(s), UNCHANGED <<journal, next, was>>, target'[s] = target[s],
         \/ /\ pc \in Active /\ pc' \in Active
            /\ pc' \in {"anchored", "matched"} => pc \in {"anchored", "matched"}
         \/ /\ pc \in {"cleanup", "published"} /\ pc' \in {"cleanup", "published"}
            /\ backup'[s] = backup[s] /\ UNCHANGED <<undo, faults>>
         \/ pc' \in {"rollback", "unmake", "raised"}
  PROVE  Placed(s)'
<1> USE DEF Active, Before, During
<1>1. CASE pc \in Active /\ pc' \in Active
  BY <1>1 DEF Placed, JSlot
<1>2. CASE pc \in {"cleanup", "published"} /\ pc' \in {"cleanup", "published"}
  <2>1. (~Named(s) => AsBefore(s))'
    BY <1>2 DEF Placed, Named, JSlot, AsBefore, TargetAsBefore
  <2>2. ASSUME NEW k \in 1..Len(journal'), JSlot(k)' = s
        PROVE  target'[s] = "new"
               /\ ((k < undo' /\ faults' = 0) \/ ~journal'[k].saved => backup'[s] = "none")
    BY <1>2, <2>2 DEF Placed, JSlot
  <2> QED BY <1>2, <2>1, <2>2 DEF Placed
<1>3. CASE pc' \in {"rollback", "unmake", "raised"}
  BY <1>3 DEF Placed
<1> QED BY <1>1, <1>2, <1>3

LEMMA PublishingPlaced ==
  ASSUME IInv, RInv, PInv, Publishing, NEW s \in Slots \ touched' PROVE Placed(s)'
<1> USE DEF Active, Before, During
<1>1. UNCHANGED <<touched, was>> /\ Placed(s) /\ Tracked(s)
  <2>1. UNCHANGED <<touched, was>>
    BY DEF Publishing, Validate, Enter, OpenPart, MakePart, RecordPart, RecordFails,
       CallFails, Backup, CopyTorn, Journal, Replace, CheckAnchor, CheckPath, rest
  <2> QED BY <2>1 DEF PInv, RInv
<1>2. CASE pc' = "rollback"
  BY <1>2 DEF Placed
<1> SUFFICES ASSUME pc' # "rollback" PROVE Placed(s)'
  BY <1>2
<1>3. CASE Validate \/ Enter \/ OpenPart \/ MakePart \/ RecordPart \/ Backup \/ CheckAnchor
  <2>1. /\ UNCHANGED <<journal, next, target>> /\ pc \in Active /\ pc' \in Active
        /\ pc' \in {"anchored", "matched"} => pc \in {"anchored", "matched"}
    BY <1>3 DEF Validate, Enter, OpenPart, MakePart, RecordPart, Backup, CheckAnchor, Raise,
       Proceed, world, call
  <2> QED BY <1>1, <2>1, PlacedFrame
<1>4. CASE Journal
  <2>1. /\ pc = "journal" /\ pc' = "replace" /\ UNCHANGED <<next, target>>
        /\ Len(journal') = Len(journal) + 1 /\ Len(journal) = next - 1 /\ next \in Nat
        /\ \A k \in 1..Len(journal) : journal'[k] = journal[k]
    BY <1>4 DEF Journal, Proceed, world, IInv, TypeOK, Ordered
  <2> QED BY <1>1, <2>1 DEF Placed, JSlot
<1>5. CASE Replace
  <2>1. /\ pc = "replace" /\ pc' = "anchored" /\ target' = [target EXCEPT ![Slot] = "new"]
        /\ UNCHANGED <<journal, next>> /\ target \in [Slots -> Entries]
    BY <1>5 DEF Replace, Proceed, call, IInv, TypeOK
  <2>2. Len(journal) = next /\ next \in Nat /\ JSlot(next) = Slot
    BY <2>1, PublicationAssumption DEF IInv, Ordered, TypeOK, JSlot, Slot
  <2>3. ASSUME NEW k \in 1..Len(journal), JSlot(k) = s PROVE target'[s] = "new"
    <3>1. CASE s = Slot
      BY <2>1, <3>1
    <3>2. CASE s # Slot
      <4>1. k < next
        BY <2>2, <2>3, <3>2
      <4> QED BY <1>1, <2>1, <2>3, <3>2, <4>1 DEF Placed
    <3> QED BY <3>1, <3>2
  <2> QED BY <2>1, <2>3 DEF Placed, JSlot
<1>6. CASE CheckPath
  <2>1. /\ pc = "matched" /\ pc' \in {"cleanup", "validate"}
        /\ pc' = "cleanup" => undo' = 1
        /\ UNCHANGED <<journal, target, backup>>
    BY <1>6 DEF CheckPath, Raise, Proceed, world
  <2>2. ASSUME NEW k \in 1..Len(journal), JSlot(k) = s
        PROVE  target[s] = "new" /\ (~journal[k].saved => backup[s] = "none")
    BY <1>1, <2>1, <2>2 DEF Placed, Tracked, Noted
  <2>3. ~Named(s) => AsBefore(s)
    BY <1>1, <2>1 DEF Tracked
  <2>4. (~Named(s) => AsBefore(s))'
    BY <1>1, <2>1, <2>3 DEF Named, JSlot, AsBefore, TargetAsBefore
  <2>5. ASSUME NEW k \in 1..Len(journal'), JSlot(k)' = s
        PROVE  target'[s] = "new" /\ (~journal'[k].saved => backup'[s] = "none")
    BY <2>1, <2>2, <2>5 DEF JSlot
  <2>6. \A k \in 1..Len(journal') : pc' = "cleanup" => ~(k < undo')
    BY <2>1
  <2> QED BY <2>1, <2>4, <2>5, <2>6 DEF Placed
<1> QED
  BY <1>3, <1>4, <1>5, <1>6 DEF Publishing, RecordFails, CallFails, CopyTorn, Fails, Raise

LEMMA CleanupPlaced ==
  ASSUME IInv, PInv, Cleanup, NEW s \in Slots \ touched' PROVE Placed(s)'
<1> DEFINE z == JSlot(undo)
<1>1. /\ pc = "cleanup" /\ pc' = pc /\ undo \in 1..Len(journal) /\ undo' = undo + 1
      /\ UNCHANGED <<target, journal, touched, was>>
  BY DEF Cleanup, IInv, TypeOK, Ordered, call, rest
<1>2. Placed(s) /\ backup \in [Slots -> Entries] /\ faults \in Nat
  BY <1>1 DEF PInv, IInv, TypeOK
<1>3. \/ /\ backup' = [backup EXCEPT ![z] = IF journal[undo].saved THEN "none" ELSE @]
         /\ UNCHANGED faults
      \/ backup' = backup /\ faults' = faults + 1
  BY DEF Cleanup, Fault, JSlot
<1>4. \A k \in 1..Len(journal) : JSlot(k) = z => k = undo
  BY <1>1, SlotParts DEF IInv, Ordered
<1> HIDE DEF z
<1>5. ~Named(s) => AsBefore(s) /\ s # z
  BY <1>1, <1>2 DEF Placed, Named, z
<1>6. (~Named(s) => AsBefore(s))'
  <2>1. s # z => backup'[s] = backup[s]
    BY <1>2, <1>3
  <2> QED BY <1>1, <1>5, <2>1 DEF Named, JSlot, AsBefore, TargetAsBefore
<1>7. ASSUME NEW k \in 1..Len(journal), JSlot(k) = s
      PROVE  /\ target[s] = "new"
             /\ (k < undo + 1 /\ faults' = 0) \/ ~journal[k].saved => backup'[s] = "none"
  <2>1. /\ target[s] = "new"
        /\ (k < undo /\ faults = 0) \/ ~journal[k].saved => backup[s] = "none"
    BY <1>1, <1>2, <1>7 DEF Placed
  <2>2. CASE s = z
    BY <1>1, <1>2, <1>3, <1>4, <1>7, <2>1, <2>2
  <2>3. CASE s # z
    <3>1. k # undo /\ backup'[s] = backup[s] /\ (faults' = 0 => faults = 0)
      BY <1>1, <1>2, <1>3, <1>7, <2>3 DEF z
    <3> QED BY <1>1, <2>1, <3>1
  <2> QED BY <2>2, <2>3
<1>8. ASSUME NEW k \in 1..Len(journal'), JSlot(k)' = s
      PROVE  /\ target'[s] = "new"
             /\ (k < undo' /\ faults' = 0) \/ ~journal'[k].saved => backup'[s] = "none"
  BY <1>1, <1>7, <1>8 DEF JSlot
<1> QED BY <1>1, <1>6, <1>8 DEF Placed, Active, Before, During

LEMMA OtherwisePlaced ==
  ASSUME IInv, PInv, Undoing \/ Finish \/ Interrupt \/ MoveTree \/ Meddle \/ UNCHANGED vars,
         NEW s \in Slots \ touched'
  PROVE  Placed(s)'
<1> USE DEF Active, Before, During
<1>1. CASE pc' \in {"rollback", "unmake", "raised"}
  BY <1>1 DEF Placed
<1> SUFFICES ASSUME pc' \notin {"rollback", "unmake", "raised"} PROVE Placed(s)'
  BY <1>1
<1>2. CASE Undoing \/ Interrupt
  BY <1>2 DEF Undoing, RollBack, RolledBackFiles, Unmake, Propagate, Interrupt, Raise
<1>3. touched \subseteq touched' /\ Placed(s)
  BY DEF PInv, Undoing, RollBack, RolledBackFiles, Unmake, Propagate, Finish, Interrupt,
     MoveTree, Meddle, vars, rest
<1>4. CASE Finish \/ MoveTree \/ UNCHANGED vars
  <2>1. /\ UNCHANGED <<journal, next, was, target, backup, undo, faults>>
        /\ pc' = pc \/ (pc = "cleanup" /\ pc' = "published")
    BY <1>4 DEF Finish, MoveTree, vars, world, call, ended, rest
  <2>2. pc \in Active \cup {"cleanup", "published"}
    BY <2>1 DEF IInv, TypeOK, Places
  <2> QED BY <1>3, <2>1, <2>2, PlacedFrame
<1>5. CASE Meddle
  <2>1. PICK q \in Slots, e \in {"foreign", "none"} :
          target' = [target EXCEPT ![q] = e] /\ touched' = touched \cup {q}
    BY <1>5 DEF Meddle
  <2>2. target'[s] = target[s]
    BY <2>1 DEF IInv, TypeOK
  <2>3. UNCHANGED <<journal, next, was, backup, undo, faults, pc>>
    BY <1>5 DEF Meddle, call, ended
  <2>4. pc \in Active \cup {"cleanup", "published"}
    BY <2>3 DEF IInv, TypeOK, Places
  <2> QED BY <1>3, <2>2, <2>3, <2>4, PlacedFrame
<1> QED BY <1>2, <1>4, <1>5

\* A publication that returns has put every file into the planned directory and nothing into one
\* that took its place, unless the directory was exchanged three times meanwhile, for every list of
\* files (_validate_publication_anchor, _directory_fd_matches_path).
THEOREM SuccessIsPlanned == Spec => []PublishedAsPlanned
<1>1. Init => PInv
  <2> SUFFICES ASSUME Init PROVE PInv
    OBVIOUS
  <2>1. pc = "validate" /\ at = "planned" /\ journal = <<>> /\ Len(journal) = 0
    BY DEF Init
  <2> QED BY <2>1 DEF PInv, Looked, Placed
<1>2. IInv /\ RInv /\ PInv /\ [Next]_vars => PInv'
  <2> SUFFICES ASSUME IInv, RInv, PInv, [Next]_vars PROVE PInv'
    OBVIOUS
  <2>1. Looked'
    BY LookedKept DEF PInv
  <2>2. \A s \in Slots \ touched' : Placed(s)'
    BY PublishingPlaced, CleanupPlaced, OtherwisePlaced DEF Next
  <2> QED BY <2>1, <2>2 DEF PInv
<1>3. IInv /\ PInv => PublishedAsPlanned
  <2> SUFFICES ASSUME IInv, PInv, pc = "published", moves < 3, NEW s \in Slots \ touched
               PROVE  /\ IF s[1] = "planned" THEN target[s] = "new" ELSE AsBefore(s)
                      /\ faults = 0 => backup[s] = "none"
    BY DEF PublishedAsPlanned
  <2>1. Len(journal) = Count /\ undo > Count /\ next > Count /\ moves \in Nat
    BY DEF PInv, Looked, IInv, TypeOK, Ordered, Committed
  <2>2. s[1] \in Trees /\ s[2] \in 1..Count /\ s = <<s[1], s[2]>>
    BY DEF Slots, Files
  <2>3. \A k \in 1..Count : journal[k].file = k /\ journal[k].tree = "planned"
    <3>1. ASSUME NEW k \in 1..Count PROVE journal[k].file = k /\ journal[k].tree = "planned"
      <4>1. journal[k].file = k /\ journal[k].tree \in Trees
        BY <2>1, SlotParts DEF IInv, Ordered, Journaled
      <4>2. k < next
        BY <2>1 DEF IInv, TypeOK
      <4> QED BY <2>1, <4>1, <4>2 DEF PInv, Looked, Trees
    <3> QED BY <3>1
  <2>4. CASE s[1] = "planned"
    <3>1. JSlot(s[2]) = s
      BY <2>2, <2>3, <2>4 DEF JSlot
    <3>2. s[2] < undo
      BY <2>1, <2>2, PublicationAssumption DEF IInv, TypeOK
    <3> QED BY <2>1, <2>2, <2>4, <3>1, <3>2 DEF PInv, Placed
  <2>5. CASE s[1] # "planned"
    <3>1. ~Named(s)
      BY <2>1, <2>3, <2>5 DEF Named, JSlot
    <3> QED BY <2>5, <3>1 DEF PInv, Placed, AsBefore
  <2> QED BY <2>4, <2>5
<1> QED BY <1>1, <1>2, <1>3, TrackedAlways, Invariance, PTL DEF Spec
-----------------------------------------------------------------------------
(***************************************************************************)
(* The lock of remote references.                                          *)
(***************************************************************************)

\* An automatic plan that used its lock has it among these.
Bound(p, set) == p.option = "auto" /\ p.policy # "inactive" => p.lock \in set

\* The locks that earlier plans verified because they were there must exist from then on.
StillRequired == \A j \in Jobs : Bound(outputs[j].plan, verified) /\ Bound(last[j], verified)

\* What a run has settled when it planned: a lock in use that must exist is in its intent.
Settled ==
  run.at # "idle" =>
    \A j \in Jobs :
      /\ Bound(run.plans[j], run.intent)
      /\ run.plans[j].lock \in verified => run.plans[j].lock \in run.intent
      /\ run.plans[j].policy = "inactive" /\ ~SingleTarget => run.plans[j].lock \notin run.intent

\* A run that only planned has read nothing.
Unread ==
  run.at = "planned" =>
    /\ run.done = {} /\ run.read = [j \in Jobs |-> Nothing]
    /\ run.seen = [l \in Locks |-> Nothing]

\* The jobs of the run whose responses the collector of a lock records.
Uses(j, l) == run.plans[j].lock = l /\ run.plans[j].policy # "inactive"

\* A collector has seen what its jobs read and nothing else; one that is not to update its
\* lock holds what the lock recorded when it was opened.
Collects(l) ==
  /\ \A j \in Jobs, r \in Requests :
       Uses(j, l) /\ run.read[j][r] # None => run.seen[l][r] = run.read[j][r]
  /\ \A r \in Requests : run.seen[l][r] # None => \E j \in Jobs : Uses(j, l) /\ r \in Reads[j]
  /\ ~Updates(l) =>
       /\ run.entries[l] = run.opened[l].entries
       /\ \A r \in Requests : run.seen[l][r] # None => run.entries[l][r] = run.seen[l][r]

\* A run whose locks are open: compatible plans, finished jobs read all, sound collectors.
Collected ==
  run.at = "jobs" =>
    /\ Compatible(run.plans)
    /\ \A j \in run.done, r \in Requests : r \in Reads[j] => run.read[j][r] # None
    /\ \A l \in Locks : Collects(l)

LockInv == LockTypeOK /\ StillRequired /\ Settled /\ Unread /\ Collected
-----------------------------------------------------------------------------
(* The plans of a run. *)

\* A set of jobs that is not empty has a first.
LEMMA FirstIs ==
  ASSUME NEW jobs, jobs \subseteq Jobs, jobs # {}
  PROVE  First(jobs) \in jobs
<1> DEFINE Less == OpToRel(<, Nat)
<1>1. IsWellFoundedOn(Less, Nat) /\ jobs \subseteq Nat
  BY NatLessThanWellFounded, RemoteLockAssumption
<1>2. \A x, y \in Nat : <<y, x>> \in Less <=> y < x
  BY DEF OpToRel
<1> HIDE DEF Less
<1>3. PICK x \in jobs : \A y \in jobs : <<y, x>> \notin Less
  BY <1>1, WFMin
<1>4. ASSUME NEW y \in jobs PROVE x <= y
  <2>1. x \in Nat /\ y \in Nat
    BY <1>1
  <2>2. ~(y < x)
    BY <1>2, <1>3, <2>1
  <2> QED BY <2>1, <2>2
<1> QED BY <1>4 DEF First

\* The first job that uses a lock speaks for all that use it.
LEMMA UpdatesIs ==
  ASSUME Compatible(run.plans), NEW j \in Jobs, run.plans[j].policy # "inactive"
  PROVE  Updates(run.plans[j].lock) <=> run.plans[j].policy = "update"
<1> DEFINE l == run.plans[j].lock
           users == Users(run.plans, l)
<1>1. j \in users /\ users \subseteq Jobs
  BY DEF Users
<1>2. First(users) \in users
  BY <1>1, FirstIs
<1>3. run.plans[First(users)].lock = l /\ First(users) \in Jobs
  BY <1>2 DEF Users
<1> QED BY <1>1, <1>3 DEF Updates, Compatible, ReadOnly

\* A lock that is published has no job but those that update it.
LEMMA PublishedIs ==
  ASSUME Compatible(run.plans), NEW l, Published(l), NEW j \in Jobs, run.plans[j].lock = l
  PROVE  run.plans[j].policy = "update"
BY DEF Published, Compatible, ReadOnly

LEMMA RunType ==
  ASSUME LockTypeOK
  PROVE  /\ run.plans \in [Jobs -> Plan] /\ run.intent \subseteq Locks
         /\ run.opened \in [Locks -> LockFile]
         /\ run.entries \in [Locks -> LockEntries] /\ run.seen \in [Locks -> LockEntries]
         /\ run.done \subseteq Jobs /\ run.read \in [Jobs -> LockEntries]
         /\ run.at \in {"idle", "planned", "jobs"}
BY DEF LockTypeOK, Run

LEMMA NothingType == Nothing \in LockEntries /\ Missing \in LockFile
BY DEF Nothing, Missing, LockEntries, LockFile

LEMMA NoRunType ==
  ASSUME NEW plans \in [Jobs -> Plan]
  PROVE  NoRun(plans) \in Run /\ NoRun(plans).at = "idle"
BY NothingType DEF NoRun, Run

\* A job's plan, and what the intent of its run requires of it.
LEMMA PlannedType ==
  ASSUME LockTypeOK, NEW j \in Jobs
  PROVE  /\ Planned(j) \in Plan
         /\ Planned(j).lock = project[j].lock /\ project[j].lock \in Locks
         /\ Bound(Planned(j), Intent)
         /\ project[j].lock \in verified => project[j].lock \in Intent
         /\ Planned(j).policy = "inactive" /\ ~SingleTarget => project[j].lock \notin Intent
<1>1. project[j].lock \in Locks /\ project[j].option \in Options
  BY DEF LockTypeOK
<1>2. PolicyOf(j) \in Policies
  BY <1>1 DEF PolicyOf, Options, Policies
<1>3. project[j].option = "auto" => PolicyOf(j) \in {"verify", "inactive"}
  BY DEF PolicyOf
<1>4. PolicyOf(j) = "verify" \/ project[j].lock \in verified => project[j].lock \in Intent
  BY <1>1 DEF Intent
<1> QED BY <1>1, <1>2, <1>3, <1>4 DEF Planned, Plan, Policies, Bound
-----------------------------------------------------------------------------
(* Every step keeps the invariant. *)

LEMMA OutsideKeeps ==
  ASSUME LockInv, UNCHANGED <<verified, run, outputs, last>>, LockTypeOK'
  PROVE  LockInv'
<1>1. StillRequired' /\ Settled' /\ Unread'
  BY DEF LockInv, StillRequired, Settled, Unread, Bound
<1>2. \A l \in Locks : Collects(l) => Collects(l)'
  BY DEF Collects, Uses, Updates, Users
<1>3. Collected'
  BY <1>2 DEF LockInv, Collected, Compatible
<1> QED BY <1>1, <1>3 DEF LockInv

LEMMA ServeKeeps ==
  ASSUME LockInv, NEW r \in Requests, Serve(r)
  PROVE  LockInv'
<1>1. LockTypeOK'
  BY RemoteLockAssumption DEF LockInv, LockTypeOK, Serve, Bodies
<1> QED BY <1>1, OutsideKeeps DEF Serve

LEMMA EditLockKeeps ==
  ASSUME LockInv, NEW l \in Locks, EditLock(l)
  PROVE  LockInv'
<1>1. PICK file \in {Missing, [is |-> TRUE, entries |-> served]} : locks' = [locks EXCEPT ![l] = file]
  BY DEF EditLock
<1>2. file \in LockFile
  <2>1. served \in LockEntries
    BY DEF LockInv, LockTypeOK, LockEntries
  <2>2. [is |-> TRUE, entries |-> served] \in LockFile
    BY <2>1 DEF LockFile
  <2> QED BY <1>1, <2>2, NothingType
<1>3. LockTypeOK'
  BY <1>1, <1>2, RemoteLockAssumption DEF LockInv, LockTypeOK, EditLock
<1> QED BY <1>3, OutsideKeeps DEF EditLock

LEMMA EditProjectKeeps ==
  ASSUME LockInv, NEW j \in Jobs, EditProject(j)
  PROVE  LockInv'
<1>1. LockTypeOK'
  BY RemoteLockAssumption DEF LockInv, LockTypeOK, EditProject
<1> QED BY <1>1, OutsideKeeps DEF EditProject

LEMMA LockBeginKeeps ==
  ASSUME LockInv, Begin
  PROVE  LockInv'
<1> DEFINE plans == [j \in Jobs |-> Planned(j)]
<1>1. plans \in [Jobs -> Plan] /\ Intent \subseteq Locks
  BY PlannedType DEF LockInv, Intent
<1>2. run' = [NoRun(plans) EXCEPT !.at = "planned", !.intent = Intent]
  BY DEF Begin
<1>3. /\ run'.at = "planned" /\ run'.plans = plans /\ run'.intent = Intent
      /\ run'.done = {} /\ run'.read = [j \in Jobs |-> Nothing]
      /\ run'.seen = [l \in Locks |-> Nothing]
      /\ run' \in Run
  BY <1>1, <1>2, NoRunType DEF NoRun, Run
<1>4. UNCHANGED <<served, locks, project, verified, outputs, last, changes>>
  BY DEF Begin
<1>5. LockTypeOK'
  BY <1>3, <1>4 DEF LockInv, LockTypeOK
<1>6. StillRequired'
  BY <1>4 DEF LockInv, StillRequired, Bound
<1>7. Settled'
  <2> SUFFICES ASSUME NEW j \in Jobs
               PROVE  /\ Bound(plans[j], Intent)
                      /\ plans[j].lock \in verified => plans[j].lock \in Intent
                      /\ plans[j].policy = "inactive" /\ ~SingleTarget => plans[j].lock \notin Intent
    BY <1>3, <1>4 DEF Settled, Bound
  <2>1. plans[j] = Planned(j)
    OBVIOUS
  <2> QED BY <2>1, PlannedType DEF LockInv
<1>8. Unread' /\ Collected'
  BY <1>3 DEF Unread, Collected
<1> QED BY <1>5, <1>6, <1>7, <1>8 DEF LockInv

LEMMA OpenKeeps ==
  ASSUME LockInv, Open
  PROVE  LockInv'
<1>1. /\ run'.at = "jobs" /\ run'.opened = locks
      /\ run'.entries = [l \in Locks |-> locks[l].entries]
      /\ run'.plans = run.plans /\ run'.intent = run.intent /\ run'.done = run.done
      /\ run'.read = run.read /\ run'.seen = run.seen
  BY DEF Open, LockInv, LockTypeOK, Run
<1>2. UNCHANGED <<served, locks, project, verified, outputs, last, changes>>
  BY DEF Open
<1>3. run' \in Run
  <2>1. /\ [l \in Locks |-> locks[l].entries] \in [Locks -> LockEntries]
        /\ locks \in [Locks -> LockFile]
    BY DEF LockInv, LockTypeOK, LockFile
  <2> QED BY <2>1 DEF Open, LockInv, LockTypeOK, Run
<1>4. LockTypeOK' /\ StillRequired'
  BY <1>2, <1>3 DEF LockInv, LockTypeOK, StillRequired, Bound
<1>5. Settled' /\ Unread'
  BY <1>1, <1>2 DEF LockInv, Settled, Unread, Bound, Open
<1>6. /\ run.done = {} /\ \A j \in Jobs, r \in Requests : run.read[j][r] = None
      /\ \A l \in Locks, r \in Requests : run.seen[l][r] = None
  BY DEF LockInv, Unread, Open, Nothing
<1>7. Collected'
  <2>1. \A l \in Locks : Collects(l)'
    BY <1>1, <1>6 DEF Collects
  <2> QED BY <1>1, <1>6, <2>1 DEF Collected, Open, Compatible
<1> QED BY <1>4, <1>5, <1>7 DEF LockInv

LEMMA GeneratedKeeps ==
  ASSUME LockInv, NEW j \in Jobs, Generated(j)
  PROVE  LockInv'
<1>1. /\ run'.at = run.at /\ run.at = "jobs" /\ run'.done = run.done \cup {j}
      /\ run'.plans = run.plans /\ run'.intent = run.intent /\ run'.opened = run.opened
      /\ run'.entries = run.entries /\ run'.read = run.read /\ run'.seen = run.seen
      /\ run' \in Run
  BY DEF Generated, Running, LockInv, LockTypeOK, Run
<1>2. UNCHANGED <<served, locks, project, verified, outputs, last, changes>>
  BY DEF Generated
<1>3. LockTypeOK' /\ StillRequired'
  BY <1>1, <1>2 DEF LockInv, LockTypeOK, StillRequired, Bound
<1>4. Settled' /\ Unread'
  BY <1>1, <1>2 DEF LockInv, Settled, Unread, Bound
<1>5. \A l \in Locks : Collects(l)'
  <2>1. \A l \in Locks : Collects(l) /\ (Updates(l)' <=> Updates(l))
    BY <1>1 DEF LockInv, Collected, Updates, Users
  <2> QED BY <1>1, <2>1 DEF Collects, Uses
<1>6. Collected'
  BY <1>1, <1>5 DEF LockInv, Collected, Generated, Compatible
<1> QED BY <1>3, <1>4, <1>6 DEF LockInv

LEMMA FetchKeeps ==
  ASSUME LockInv, NEW j \in Jobs, NEW r \in Requests, Fetch(j, r)
  PROVE  LockInv'
<1> DEFINE l == run.plans[j].lock
           body == served[r]
           inactive == run.plans[j].policy = "inactive"
<1>0. l \in Locks /\ body \in Bodies /\ body # None /\ run.at = "jobs" /\ r \in Reads[j]
  <2>1. run.plans[j] \in Plan /\ served[r] \in Bodies
    BY RunType DEF LockInv, LockTypeOK
  <2>2. run.at = "jobs" /\ r \in Reads[j]
    BY DEF Fetch, Running
  <2>3. body # None
    BY <2>1, RemoteLockAssumption DEF Bodies, None
  <2> QED BY <2>1, <2>2, <2>3 DEF Plan
<1>1. /\ run'.at = "jobs" /\ run'.done = run.done
      /\ run'.plans = run.plans /\ run'.intent = run.intent /\ run'.opened = run.opened
      /\ run'.read = [run.read EXCEPT ![j][r] = body]
      /\ run'.entries = IF inactive THEN run.entries ELSE [run.entries EXCEPT ![l][r] = body]
      /\ run'.seen = IF inactive THEN run.seen ELSE [run.seen EXCEPT ![l][r] = body]
  BY <1>0 DEF Fetch, LockInv, LockTypeOK, Run
<1>2. UNCHANGED <<served, locks, project, verified, outputs, last, changes>>
  BY DEF Fetch
<1>3. run' \in Run
  <2>1. [run.read EXCEPT ![j][r] = body] \in [Jobs -> LockEntries]
    BY <1>0, RunType DEF LockInv, LockEntries
  <2>2. /\ [run.entries EXCEPT ![l][r] = body] \in [Locks -> LockEntries]
        /\ [run.seen EXCEPT ![l][r] = body] \in [Locks -> LockEntries]
    BY <1>0, RunType DEF LockInv, LockEntries
  <2> QED BY <2>1, <2>2, <1>0 DEF Fetch, LockInv, LockTypeOK, Run
<1>4. LockTypeOK' /\ StillRequired'
  BY <1>2, <1>3 DEF LockInv, LockTypeOK, StillRequired, Bound
<1>5. Settled' /\ Unread'
  BY <1>0, <1>1, <1>2 DEF LockInv, Settled, Unread, Bound
<1>6. \A k \in Locks : Updates(k)' <=> Updates(k)
  BY <1>1 DEF Updates, Users
<1>7. \A i \in Jobs, q \in Requests :
        run'.read[i][q] = IF i = j /\ q = r THEN body ELSE run.read[i][q]
  BY <1>1, RunType DEF LockInv, LockEntries
<1>8. \A k \in Locks, q \in Requests :
        /\ run'.seen[k][q] = IF ~inactive /\ k = l /\ q = r THEN body ELSE run.seen[k][q]
        /\ run'.entries[k][q] = IF ~inactive /\ k = l /\ q = r THEN body ELSE run.entries[k][q]
  BY <1>1, RunType DEF LockInv, LockEntries
<1>9. \/ inactive
      \/ run.seen[l][r] # None /\ run.seen[l][r] = body
      \/ run.seen[l][r] = None /\ (Updates(l) \/ run.entries[l][r] = body)
  BY DEF Fetch, AcceptsResponse
<1>10. \A k \in Locks : Collects(k)
  BY <1>0 DEF LockInv, Collected
<1>11. ASSUME NEW k \in Locks PROVE Collects(k)'
  <2> DEFINE mine == ~inactive /\ k = l
  <2>1. ASSUME NEW i \in Jobs, NEW q \in Requests, Uses(i, k)', run'.read[i][q] # None
        PROVE  run'.seen[k][q] = run'.read[i][q]
    <3>1. Uses(i, k)
      BY <1>1, <2>1 DEF Uses
    <3>2. run.read[i][q] # None => run.seen[k][q] = run.read[i][q]
      BY <1>10, <3>1 DEF Collects
    <3>3. CASE q = r /\ i = j
      BY <3>3, <3>1, <1>7, <1>8 DEF Uses
    <3>4. CASE q = r /\ i # j /\ mine
      BY <3>4, <3>2, <1>7, <1>8, <1>9, <2>1
    <3>5. CASE q = r /\ i # j /\ ~mine
      BY <3>5, <3>2, <1>7, <1>8, <2>1
    <3>6. CASE q # r
      BY <3>6, <3>2, <1>7, <1>8, <2>1
    <3> QED BY <3>3, <3>4, <3>5, <3>6
  <2>2. ASSUME NEW q \in Requests, run'.seen[k][q] # None
        PROVE  \E i \in Jobs : Uses(i, k)' /\ q \in Reads[i]
    <3>1. CASE mine /\ q = r
      BY <3>1, <1>0, <1>1 DEF Uses
    <3>2. CASE ~(mine /\ q = r)
      <4>1. PICK i \in Jobs : Uses(i, k) /\ q \in Reads[i]
        BY <3>2, <2>2, <1>8, <1>10 DEF Collects
      <4> QED BY <4>1, <1>1 DEF Uses
    <3> QED BY <3>1, <3>2
  <2>3. ASSUME ~Updates(k)'
        PROVE  /\ run'.entries[k] = run'.opened[k].entries
               /\ \A q \in Requests : run'.seen[k][q] # None => run'.entries[k][q] = run'.seen[k][q]
    <3>1. /\ ~Updates(k) /\ run.entries[k] = run.opened[k].entries
          /\ \A q \in Requests : run.seen[k][q] # None => run.entries[k][q] = run.seen[k][q]
      BY <2>3, <1>6, <1>10 DEF Collects
    <3>2. mine => run.entries[k][r] = body
      BY <3>1, <1>9
    <3>3. run'.entries[k] = run.entries[k]
      <4>1. run.entries \in [Locks -> LockEntries] /\ run.entries[k] \in LockEntries
        BY RunType DEF LockInv
      <4>2. CASE mine
        <5>1. run'.entries[k] = [run.entries[k] EXCEPT ![r] = body]
          BY <4>2, <1>1, <4>1
        <5> QED BY <5>1, <4>1, <4>2, <3>2 DEF LockEntries
      <4>3. CASE ~mine
        BY <4>3, <1>1, <4>1
      <4> QED BY <4>2, <4>3
    <3> QED BY <3>1, <3>2, <3>3, <1>1, <1>8
  <2> QED BY <2>1, <2>2, <2>3 DEF Collects
<1>12. \A i \in run'.done, q \in Requests : q \in Reads[i] => run'.read[i][q] # None
  <2>1. run.done \subseteq Jobs
    BY RunType DEF LockInv
  <2> QED BY <2>1, <1>0, <1>1, <1>7 DEF LockInv, Collected
<1>13. Compatible(run'.plans)
  BY <1>0, <1>1 DEF LockInv, Collected
<1>14. Collected'
  BY <1>11, <1>12, <1>13 DEF Collected, Compatible
<1> QED BY <1>4, <1>5, <1>14 DEF LockInv

LEMMA LockPublishKeeps ==
  ASSUME LockInv, Publish
  PROVE  LockInv'
<1>1. run' = NoRun(run.plans) /\ last' = run.plans /\ verified' = run.intent
  BY DEF Publish, Ended
<1>2. /\ UNCHANGED <<served, project, changes>> /\ run.plans \in [Jobs -> Plan]
      /\ run.intent \subseteq Locks
  BY RunType DEF Publish, Ended, LockInv
<1>3. run' \in Run /\ run'.at = "idle"
  BY <1>1, <1>2, NoRunType
<1>4. outputs' = [j \in Jobs |-> [from |-> run.read[j], plan |-> run.plans[j]]]
  BY DEF Publish
<1>5. outputs' \in [Jobs -> Output]
  BY <1>4, RunType DEF LockInv, Output
<1>6. locks' \in [Locks -> LockFile]
  <2>1. run.seen \in [Locks -> LockEntries] /\ locks \in [Locks -> LockFile]
    BY RunType DEF LockInv, LockTypeOK
  <2> QED BY <2>1 DEF Publish, LockFile
<1>7. LockTypeOK'
  BY <1>1, <1>2, <1>3, <1>5, <1>6 DEF LockInv, LockTypeOK
<1>8. StillRequired'
  <2>1. \A j \in Jobs : Bound(run.plans[j], run.intent)
    BY DEF LockInv, Settled, Publish
  <2> QED BY <2>1, <1>1, <1>4 DEF StillRequired, Bound
<1>9. Settled' /\ Unread' /\ Collected'
  BY <1>3 DEF Settled, Unread, Collected
<1> QED BY <1>7, <1>8, <1>9 DEF LockInv

LEMMA FailKeeps ==
  ASSUME LockInv, Fail
  PROVE  LockInv'
<1>1. /\ run' = NoRun(run.plans) /\ last' = run.plans /\ verified' = verified \cup run.intent
      /\ UNCHANGED <<served, project, changes, locks, outputs>>
  BY DEF Fail, Ended
<1>2. run.plans \in [Jobs -> Plan] /\ run.intent \subseteq Locks
  BY RunType DEF LockInv
<1>3. run' \in Run /\ run'.at = "idle"
  BY <1>1, <1>2, NoRunType
<1>4. LockTypeOK'
  BY <1>1, <1>2, <1>3 DEF LockInv, LockTypeOK
<1>5. StillRequired'
  <2>1. \A j \in Jobs : Bound(run.plans[j], run.intent) /\ Bound(outputs[j].plan, verified)
    BY DEF LockInv, Settled, StillRequired, Fail
  <2> QED BY <2>1, <1>1 DEF StillRequired, Bound
<1>6. Settled' /\ Unread' /\ Collected'
  BY <1>3 DEF Settled, Unread, Collected
<1> QED BY <1>4, <1>5, <1>6 DEF LockInv

\* The first state: no run, and nothing published.
LEMMA LockInitSound == LockInit => LockInv
<1> SUFFICES ASSUME LockInit PROVE LockInv
  OBVIOUS
<1>1. /\ last = [j \in Jobs |-> Unplanned(j)]
      /\ outputs = [j \in Jobs |-> [from |-> Nothing, plan |-> Unplanned(j)]]
  BY DEF LockInit
<1>2. \A j \in Jobs : Unplanned(j) \in Plan /\ Unplanned(j).policy = "inactive"
  BY DEF LockInit, Unplanned, Plan, Options, Policies
<1>3. last \in [Jobs -> Plan] /\ outputs \in [Jobs -> Output]
  BY <1>1, <1>2, NothingType DEF Output
<1>4. run \in Run /\ run.at = "idle"
  BY <1>3, NoRunType DEF LockInit
<1>5. served \in [Requests -> Bodies] /\ locks \in [Locks -> LockFile]
  <2>1. served \in [Requests -> Bodies]
    BY RemoteLockAssumption DEF LockInit, Bodies
  <2>2. {Missing, [is |-> TRUE, entries |-> served]} \subseteq LockFile
    BY <2>1, NothingType DEF LockFile, LockEntries
  <2> QED BY <2>1, <2>2 DEF LockInit
<1>6. LockTypeOK
  BY <1>3, <1>4, <1>5, RemoteLockAssumption DEF LockInit, LockTypeOK
<1>7. StillRequired
  BY <1>1, <1>2 DEF StillRequired, Bound
<1> QED BY <1>4, <1>6, <1>7 DEF LockInv, Settled, Unread, Collected

\* Every reachable state.
LEMMA LockInvariantHolds == LockSpec => []LockInv
<1>1. LockInv /\ [LockNext]_lockVars => LockInv'
  <2> SUFFICES ASSUME LockInv, [LockNext]_lockVars PROVE LockInv'
    OBVIOUS
  <2>1. CASE \E r \in Requests : Serve(r)
    BY <2>1, ServeKeeps
  <2>2. CASE \E l \in Locks : EditLock(l)
    BY <2>2, EditLockKeeps
  <2>3. CASE \E j \in Jobs : EditProject(j)
    BY <2>3, EditProjectKeeps
  <2>4. CASE Begin
    BY <2>4, LockBeginKeeps
  <2>5. CASE Open
    BY <2>5, OpenKeeps
  <2>6. CASE \E j \in Jobs : (\E r \in Requests : Fetch(j, r)) \/ Generated(j)
    BY <2>6, FetchKeeps, GeneratedKeeps
  <2>7. CASE Publish
    BY <2>7, LockPublishKeeps
  <2>8. CASE Fail
    BY <2>8, FailKeeps
  <2>9. CASE UNCHANGED lockVars
    <3>1. LockTypeOK'
      BY <2>9 DEF LockInv, LockTypeOK, lockVars
    <3> QED BY <2>9, <3>1, OutsideKeeps DEF lockVars
  <2> QED BY <2>1, <2>2, <2>3, <2>4, <2>5, <2>6, <2>7, <2>8, <2>9 DEF LockNext
<1> QED BY <1>1, LockInitSound, PTL DEF LockSpec
-----------------------------------------------------------------------------
(* What is published. *)

\* The servers, the lock files, the project, the run under way and what was published stay in
\* their sets, whoever edits them and wherever a run fails.
THEOREM LockTypeCorrect == LockSpec => []LockTypeOK
<1>1. LockInv => LockTypeOK
  BY DEF LockInv
<1> QED BY <1>1, LockInvariantHolds, PTL

\* What a run that publishes had planned, read and seen.
LEMMA PublishIs ==
  ASSUME LockInv, Publish
  PROVE  /\ Compatible(run.plans) /\ \A l \in Locks : Collects(l)
         /\ \A j \in Jobs : outputs'[j].plan = run.plans[j] /\ outputs'[j].from = run.read[j]
         /\ \A j \in Jobs, r \in Requests : r \in Reads[j] => run.read[j][r] # None
         /\ \A l \in Locks : Published(l) => locks'[l].entries = run.seen[l]
BY DEF LockInv, Collected, Publish

\* The lock a run writes (publishable_paths, _publish_or_error) records, for every job under it,
\* the very content that job was generated from, and nothing that no job read: jobs that share a
\* lock share a collector, which takes a second answer to a request only if it is the first.
THEOREM LockRecordsReads == LockSpec => RecordsWhatWasRead
<1> DEFINE Records ==
      \A l \in Locks : Published(l) =>
        LET users == {j \in Jobs : outputs'[j].plan.lock = l}
        IN /\ \A j \in users : \A r \in Reads[j] : locks'[l].entries[r] = outputs'[j].from[r]
           /\ \A r \in Requests :
                locks'[l].entries[r] # None => \E j \in users : r \in Reads[j]
<1>1. ASSUME LockInv, Publish PROVE Records
  <2> SUFFICES ASSUME NEW l \in Locks, Published(l)
               PROVE  LET users == {j \in Jobs : outputs'[j].plan.lock = l}
                      IN /\ \A j \in users : \A r \in Reads[j] : locks'[l].entries[r] = outputs'[j].from[r]
                         /\ \A r \in Requests :
                              locks'[l].entries[r] # None => \E j \in users : r \in Reads[j]
    OBVIOUS
  <2> DEFINE users == {j \in Jobs : outputs'[j].plan.lock = l}
  <2>1. users = {j \in Jobs : run.plans[j].lock = l} /\ locks'[l].entries = run.seen[l]
    BY <1>1, PublishIs
  <2>2. \A j \in users : Uses(j, l)
    BY <1>1, <2>1, PublishIs, PublishedIs DEF Uses
  <2>3. ASSUME NEW j \in users, NEW r \in Reads[j]
        PROVE  locks'[l].entries[r] = outputs'[j].from[r]
    <3>1. j \in Jobs /\ r \in Requests
      BY RemoteLockAssumption
    <3>2. run.read[j][r] # None
      BY <1>1, <3>1, PublishIs
    <3>3. run.seen[l][r] = run.read[j][r]
      BY <1>1, <2>2, <3>1, <3>2, PublishIs DEF Collects
    <3> QED BY <1>1, <2>1, <3>1, <3>3, PublishIs
  <2>4. ASSUME NEW r \in Requests, locks'[l].entries[r] # None
        PROVE  \E j \in users : r \in Reads[j]
    <3>1. PICK j \in Jobs : Uses(j, l) /\ r \in Reads[j]
      BY <1>1, <2>1, <2>4, PublishIs DEF Collects
    <3> QED BY <2>1, <3>1 DEF Uses
  <2> QED BY <2>3, <2>4
<1>2. LockInv /\ [LockNext]_lockVars => [Publish => Records]_lockVars
  BY <1>1
<1> QED BY <1>2, LockInvariantHolds, PTL DEF LockSpec, RecordsWhatWasRead

\* What is published with --locked, or verified, was generated from the content its lock recorded
\* when the run opened it (record_response), whatever other jobs and edits did meanwhile.
THEOREM ReadOnlyUnchanged == LockSpec => PublishedAsLocked
<1> DEFINE AsLocked ==
      \A j \in Jobs : outputs'[j].plan.policy \in ReadOnly =>
        \A r \in Reads[j] :
          run.opened[outputs'[j].plan.lock].entries[r] = outputs'[j].from[r]
<1>1. ASSUME LockInv, Publish PROVE AsLocked
  <2> SUFFICES ASSUME NEW j \in Jobs, run.plans[j].policy \in ReadOnly, NEW r \in Reads[j]
               PROVE  run.opened[run.plans[j].lock].entries[r] = run.read[j][r]
    BY <1>1, PublishIs
  <2> DEFINE l == run.plans[j].lock
  <2>1. l \in Locks /\ r \in Requests
    BY <1>1, RunType, RemoteLockAssumption DEF LockInv, Plan
  <2>2. Uses(j, l) /\ ~Updates(l)
    BY <1>1, PublishIs, UpdatesIs DEF ReadOnly, Uses
  <2>3. run.seen[l][r] = run.read[j][r] /\ run.read[j][r] # None
    BY <1>1, <2>1, <2>2, PublishIs DEF Collects
  <2> QED BY <1>1, <2>1, <2>2, <2>3, PublishIs DEF Collects
<1>2. LockInv /\ [LockNext]_lockVars => [Publish => AsLocked]_lockVars
  BY <1>1
<1> QED BY <1>2, LockInvariantHolds, PTL DEF LockSpec, PublishedAsLocked

\* A job whose lock was verified because its file was there is not published unverified by a later
\* run (_apply_remote_lock_plans), unless one command generates a target: it plans again, without
\* the locks that must exist, and the run of RemoteLockTarget.cfg shows what that allows.
THEOREM VerifiedStays ==
  ASSUME ~SingleTarget
  PROVE  LockSpec => StaysVerified
<1> DEFINE Stays ==
      \A j \in Jobs : \A earlier \in {outputs[j].plan, last[j]} :
        /\ earlier.option = "auto" /\ earlier.policy # "inactive"
        /\ earlier.lock = outputs'[j].plan.lock
        => outputs'[j].plan.policy # "inactive"
<1>1. ASSUME LockInv, Publish PROVE Stays
  <2> SUFFICES ASSUME NEW j \in Jobs, NEW earlier \in {outputs[j].plan, last[j]},
                      earlier.option = "auto", earlier.policy # "inactive",
                      earlier.lock = run.plans[j].lock
               PROVE  run.plans[j].policy # "inactive"
    BY <1>1, PublishIs
  <2>1. run.plans[j].lock \in verified
    BY <1>1 DEF LockInv, StillRequired, Bound
  <2>2. run.plans[j].lock \in run.intent
    BY <1>1, <2>1 DEF LockInv, Settled, Publish
  <2> QED BY <1>1, <2>2 DEF LockInv, Settled, Publish
<1>2. LockInv /\ [LockNext]_lockVars => [Publish => Stays]_lockVars
  BY <1>1
<1> QED BY <1>2, LockInvariantHolds, PTL DEF LockSpec, StaysVerified
=============================================================================
