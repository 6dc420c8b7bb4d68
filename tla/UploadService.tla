--------------------------- MODULE UploadService ----------------------------
(***************************************************************************)
(* What a resumable upload promises its callers: the server keeps a prefix *)
(* of the content that only grows, every client knows of a part of that    *)
(* prefix and never of more, and a client that reports completion has the  *)
(* whole content kept.                                                     *)
(***************************************************************************)
EXTENDS Integers

CONSTANTS Handles, Size

VARIABLES
  held,   \* how much of the content the server keeps
  known,  \* how much of it each client knows the server keeps
  done    \* the clients that reported a complete upload

vars == <<held, known, done>>

Init ==
  /\ held = 0
  /\ known = [h \in Handles |-> 0]
  /\ done \in SUBSET (IF Size = 0 THEN Handles ELSE {})

Keep ==
  /\ held' \in (held + 1)..Size
  /\ UNCHANGED <<known, done>>

\* A client learns of more of what is kept, and may report the last of it.
Learn(h) ==
  /\ h \notin done
  /\ \E n \in known[h]..held :
       /\ known' = [known EXCEPT ![h] = n]
       /\ done' \in {done, done \cup (IF n = Size THEN {h} ELSE {})}
  /\ UNCHANGED held

\* A client starts over from what an earlier one knew.
Rejoin(h) ==
  /\ \E n \in 0..held : known' = [known EXCEPT ![h] = n]
  /\ done' = done \ {h}
  /\ UNCHANGED held

Next == Keep \/ \E h \in Handles : Learn(h) \/ Rejoin(h)

Spec == Init /\ [][Next]_vars
=============================================================================
