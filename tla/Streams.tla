-------------------------------- MODULE Streams --------------------------------
(***************************************************************************)
(* A server-sent event or NDJSON stream that is reopened after the cursor  *)
(* of the last event it delivered (_runtime/protocols/streams.py): within  *)
(* a step after an interruption, and by resume from a checkpoint that an   *)
(* application saved before it closed, failed or died.  The server sends   *)
(* its events in order, to a reopen those after the cursor given; the      *)
(* connection may break anywhere.                                          *)
(***************************************************************************)
EXTENDS Integers

CONSTANTS
  Events,         \* how many events the server has
  Marks,          \* what they may say of the cursor: "own", "same", "cleared"
  MaxReconnects,  \* StreamOptions.max_reconnects
  MaxResumes      \* bound: how often the application resumes

ASSUME StreamsAssumption ==
  /\ Events \in Nat /\ Marks \subseteq {"own", "same", "cleared"}
  /\ MaxReconnects \in Nat /\ MaxResumes \in Nat

VARIABLES
  plan,     \* what the helper declares and the call enables
  log,      \* the server's events
  stream,   \* the handle
  doing,    \* the step that has taken the handle, if one has
  conn,     \* the response it reads
  got,      \* the events the application got, those its checkpoint covers included
  again,    \* those it got again since it opened or resumed
  saved,    \* the checkpoint it keeps, and the events it covers
  resumes,  \* how often it resumed
  counted   \* how often its streams reconnected, over all of them

streamVars == <<plan, log, stream, doing, conn, got, again, saved, resumes, counted>>

Index == 1..Events

NoCursor == 0  \* no cursor, or a cleared one; any other is the event it was read from

(* StreamResumePlan and EventPlan *)
Plan ==
  [byId:    BOOLEAN,             \* the cursor is the SSE event ID, not a value of the data
   missing: {"inherit", "error"},
   null:    {"clear", "error"},
   eof:     BOOLEAN,             \* completion: the end of the body is the stream's
   onEof:   BOOLEAN,             \* reconnect_on names incomplete_eof
   onCut:   BOOLEAN,             \* and transport_interruption
   enabled: BOOLEAN,             \* StreamOptions.reconnect
   idle:    BOOLEAN]             \* an idle limit is set, as the read timeout

(* StreamEvent, as it bears on the cursor *)
Event ==
  [mark: Marks,    \* its ID, or the value the cursor is read from: its own, none, or empty
   data: BOOLEAN,   \* an event without data is not delivered; its ID counts
   good: BOOLEAN]   \* it decodes, and is no error event

Stream ==
  [state:      {"open", "ended", "failed", "closed"},
   cursor:     Index \cup {NoCursor},
   cursored:   BOOLEAN,
   carried:    Index \cup {NoCursor},
   reconnects: 0..MaxReconnects,
   cause:      {"none", "read", "idle", "other", "eof"}]  \* the last interruption

Conn ==
  [live:       BOOLEAN,               \* the response is held
   at:         0..Events,             \* the last event read
   last:       Index \cup {NoCursor},    \* the last event ID the response set
   identified: BOOLEAN]               \* it set one that is not empty

Saved == [some: BOOLEAN, cursor: Index \cup {NoCursor}, got: SUBSET Index]

StreamTypeOK ==
  /\ plan \in Plan /\ log \in [Index -> Event] /\ stream \in Stream /\ conn \in Conn
  /\ doing \in {"none", "reading", "waiting"}
  /\ got \subseteq Index /\ again \subseteq Index /\ saved \in Saved
  /\ resumes \in 0..MaxResumes /\ counted \in Nat

-----------------------------------------------------------------------------
(* Reading. *)

Released == [conn EXCEPT !.live = FALSE]

(* The server sends a reopen what follows its cursor, and everything without one. *)
Reply(cursor) == [live |-> TRUE, at |-> cursor, last |-> NoCursor, identified |-> FALSE]

(* __next__ and _enter: one step at a time has the stream. *)
Step ==
  /\ doing = "none" /\ stream.state = "open"
  /\ doing' = "reading"
  /\ UNCHANGED <<plan, log, stream, conn, got, again, saved, resumes, counted>>

(* The connection once it read its next event: IDs stay until another one is set. *)
Read(i) ==
  LET last == IF log[i].mark = "own" THEN i
              ELSE IF log[i].mark = "cleared" THEN NoCursor ELSE conn.last
  IN [conn EXCEPT !.at = i, !.last = last, !.identified = @ \/ last # NoCursor]

(* _dispatched: the ID of an event, the one the stream reopened after until one is set *)
EventId(c) == IF c.last # NoCursor THEN c.last
              ELSE IF c.identified THEN NoCursor ELSE stream.carried

(* _advance refuses an event whose data lacks a cursor it must give. *)
Lacks(i) ==
  /\ ~plan.byId
  /\ \/ log[i].mark = "same" /\ plan.missing = "error"
     \/ log[i].mark = "cleared" /\ plan.null = "error"

(* _advance: the stream once it took the cursor of event i *)
Advanced(i) ==
  IF plan.byId
  THEN [stream EXCEPT !.cursor = EventId(Read(i)),
                      !.cursored = @ \/ EventId(Read(i)) # NoCursor]
  ELSE IF log[i].mark = "own" THEN [stream EXCEPT !.cursor = i, !.cursored = TRUE]
  ELSE IF log[i].mark = "cleared" THEN [stream EXCEPT !.cursor = NoCursor]
  ELSE stream

(* Mutant: the cursor is taken before the event is decoded. *)
RefusedAdvanced(i) == [Advanced(i) EXCEPT !.state = "failed"]

Refused(i) == [stream EXCEPT !.state = "failed"]

Deliver(i) ==
  /\ stream' = Advanced(i)
  /\ conn' = Read(i)
  /\ got' = got \cup {i}
  /\ again' = IF i \in got THEN again \cup {i} ELSE again
  /\ doing' = "none"

Receive ==
  /\ doing = "reading" /\ conn.at < Events
  /\ LET i == conn.at + 1
     IN \/ ~log[i].data
           /\ conn' = Read(i)
           /\ UNCHANGED <<stream, doing, got, again>>
        \/ log[i].data /\ log[i].good /\ ~Lacks(i) /\ Deliver(i)
        \/ log[i].data /\ (~log[i].good \/ Lacks(i))
           /\ stream' = Refused(i) /\ conn' = Released /\ doing' = "none"
           /\ UNCHANGED <<got, again>>
  /\ UNCHANGED <<plan, log, saved, resumes, counted>>

(* The terminal event, or the end of a body that is the stream's, wherever it is cut. *)
Finish ==
  /\ doing = "reading" /\ (plan.eof \/ conn.at = Events)
  /\ stream' = [stream EXCEPT !.state = "ended"]
  /\ conn' = Released /\ doing' = "none"
  /\ UNCHANGED <<plan, log, got, again, saved, resumes, counted>>

-----------------------------------------------------------------------------
(* Interruptions. *)

(* _broken, _retryable: the read failures after which a stream may reopen; a read that *)
(* exceeded its timeout is one, whichever limit set it.                                *)
Reconnectable(cause) ==
  IF cause = "eof" THEN plan.onEof ELSE cause \in {"read", "idle"} /\ plan.onCut

(* _reconnection: whether to reopen; a wait longer than allowed is not begun. *)
MayReconnect(cause) ==
  /\ plan.enabled /\ stream.cursored /\ Reconnectable(cause)
  /\ stream.reconnects < MaxReconnects

Break(cause) ==
  /\ stream' = [stream EXCEPT !.state = "failed", !.cause = cause]
  /\ conn' = Released
  /\ doing' \in IF MayReconnect(cause) THEN {"waiting", "none"} ELSE {"none"}

(* The connection breaks, the read takes too long, or the body ends before the stream, or *)
(* within a line.                                                                         *)
Cut ==
  /\ doing = "reading"
  /\ \/ \E cause \in {"read", "other"} : Break(cause)
     \/ plan.idle /\ Break("idle")
     \/ (~plan.eof \/ ~plan.byId) /\ Break("eof")
  /\ UNCHANGED <<plan, log, got, again, saved, resumes, counted>>

(* The consumer's task is cancelled, or its thread interrupted, while it reads or waits. *)
InterruptStep ==
  /\ doing # "none" /\ doing' = "none"
  /\ stream' = [stream EXCEPT !.state = "failed"] /\ conn' = Released
  /\ UNCHANGED <<plan, log, got, again, saved, resumes, counted>>

(* Mutant: a reopened response's events start without an ID. *)
CarriedNot(cursor) == NoCursor

(* _carry *)
Carried(cursor) == IF plan.byId THEN cursor ELSE NoCursor

(* _reopen: the delay is over, the reopen is sent, and counts whatever comes of it. *)
Reopen ==
  /\ doing = "waiting"
  /\ counted' = counted + 1
  /\ \/ /\ stream' = [stream EXCEPT !.state = "open", !.reconnects = @ + 1,
                                    !.carried = Carried(stream.cursor)]
        /\ conn' = Reply(stream.cursor) /\ doing' = "reading"
     \/ \E state \in {"failed", "ended"} :   \* an error; a 204, read as the end
          /\ stream' = [stream EXCEPT !.state = state, !.reconnects = @ + 1]
          /\ doing' = "none" /\ UNCHANGED conn
  /\ UNCHANGED <<plan, log, got, again, saved, resumes>>

-----------------------------------------------------------------------------
(* Between steps. *)

(* checkpoint, in any state of the stream, once an event gave a cursor; the application *)
(* keeps it with what it got so far.                                                    *)
Checkpoint ==
  /\ doing = "none" /\ stream.cursored
  /\ saved' = [some |-> TRUE, cursor |-> stream.cursor, got |-> got]
  /\ UNCHANGED <<plan, log, stream, doing, conn, got, again, resumes, counted>>

CloseStream ==
  /\ doing = "none" /\ stream.state = "open"
  /\ stream' = [stream EXCEPT !.state = "closed"] /\ conn' = Released
  /\ UNCHANGED <<plan, log, doing, got, again, saved, resumes, counted>>

(* resume, once the application is done with its stream, or is started again. *)
Resume ==
  /\ saved.some /\ resumes < MaxResumes /\ resumes' = resumes + 1
  /\ stream' = [state |-> "open", cursor |-> saved.cursor, cursored |-> TRUE,
                carried |-> Carried(saved.cursor), reconnects |-> 0, cause |-> "none"]
  /\ conn' = Reply(saved.cursor) /\ doing' = "none"
  /\ got' = saved.got /\ again' = {}
  /\ UNCHANGED <<plan, log, saved, counted>>

-----------------------------------------------------------------------------

(* open_events; a plan that declares what it has no use for is left out. *)
StreamInit ==
  /\ plan \in {p \in Plan : /\ p.onEof \/ p.onCut
                            /\ p.byId => p.missing = "inherit" /\ p.null = "clear"}
  /\ log \in {l \in [Index -> Event] :
                \A i \in Index : (~plan.byId => l[i].data) /\ (~l[i].data => l[i].good)}
  /\ stream = [state |-> "open", cursor |-> NoCursor, cursored |-> FALSE, carried |-> NoCursor,
               reconnects |-> 0, cause |-> "none"]
  /\ conn = Reply(NoCursor) /\ doing = "none"
  /\ got = {} /\ again = {} /\ saved = [some |-> FALSE, cursor |-> NoCursor, got |-> {}]
  /\ resumes = 0 /\ counted = 0

StreamNext ==
  \/ Step \/ Receive \/ Finish \/ Cut \/ InterruptStep \/ Reopen
  \/ Checkpoint \/ CloseStream \/ Resume

StreamSpec == StreamInit /\ [][StreamNext]_streamVars

-----------------------------------------------------------------------------
(* Properties. *)

(* Delivery is at least once: the application has every event before one it has, over   *)
(* reconnections, checkpoints and resumes, so no event is passed over that was lost in a *)
(* broken connection, refused, or unread when the stream closed (_advance, _carry).      *)
NoneSkipped == \A d \in got, e \in Index : e < d /\ log[e].data => e \in got

(* Only what follows the cursor comes again: an event with a cursor of its own is       *)
(* delivered twice in one session only if a later one cleared the cursor.               *)
RepeatedAfterCursor ==
  \A d \in again : log[d].mark = "own" =>
    \E e \in Index, g \in got : d < e /\ e <= g /\ log[e].mark = "cleared"

(* _broken: "never by its idle limit" does a stream reconnect. *)
IdleNeverReconnects == doing = "waiting" => stream.cause # "idle"

(* The documentation's table of limits: reconnections are "counted across resumes". *)
CountedAcrossResumes == counted <= MaxReconnects
=============================================================================
