# Verification of datamodel-code-generator

TLA+ models of the parts of datamodel-code-generator where the order of events decides what
happens, TLC configurations that check them on small instances, and TLAPS proofs of what
matters most. Source paths are below `src/src/datamodel_code_generator/` unless they start
with `docs/` or `tests/`.

The program reads schemas (JSON Schema, OpenAPI, AsyncAPI, GraphQL, XML Schema, ...), and
writes Python models, HTTP clients and FastAPI servers. Most of it is a sequential translation
of data, which its tests compare with expected outputs. The parts with state that outlives a
call, with several actors, or with failures in the middle are few, and they are what is
modelled here: the files it publishes, its watch mode, the runtime it ships with generated clients,
and one part of the translation that must foresee an order of events, that in which Python imports the
modules it is about to write.

## 1. Inventory

| component | state | operations | hard because of |
| --- | --- | --- | --- |
| **Resumable uploads** `_runtime/protocols/uploads.py` | `_phase`, `_confirmed`, `_verify`, `_high`, `_changed`; the server's offset; the checkpoint the application keeps | `start`, `advance`, `run`, `checkpoint`, `close`, `resume`, asynchronous twins | lost, late and repeated requests, partial commits, gateways, crashes, two processes on one upload |
| **Publication** `_publication.py` | `journal`, `created_directories`, backups beside the targets | `publish_staged_files`, `stage_outputs`, `StagingDirectory` | failure of any system call, interrupts, kills, a destination replaced meanwhile |
| **Long-running operations** `_runtime/protocols/polling.py`, `options.py` | `_phase`, `_bound`, `_cancel`, `_polls`, `_not_before`; the step lock and the guard; the session | `start`, `status`, `wait`, `cancel_remote`, `checkpoint`, `close`, `resume`, asynchronous twins | several threads on one handle, limits, deadlines, errors that ask for a wait |
| **Watch mode** `watch.py`, `watch_dependencies.py` | the watcher's hand-off, the graph of dependencies and its published snapshot, fingerprints, the loop | `watch_and_regenerate`, `_watch_once`, `_watch_changes`, `generation`, `record_file`, `set_pending`, `_publish` | a background thread beside the regeneration loop, changes during a regeneration, failures that must not forget what was depended on |
| **One logical call** `_runtime/client/client.py`, `logical.py`, `retry.py` | deadline, attempts, how far delivery got, whether retries are blocked | `_exchange`, `admit_send`, `delivery`, `next_send`, `retry_stop`, `retry_delay` | retries of requests that may have been applied, redirects and challenges inside one send |
| **OAuth providers** `_runtime/client/oauth.py`, `auth.py` | the held token, the refresh token, one lock for threads and one per loop | `token`, `atoken`, the flow's resend after 401 | concurrent renewals of a rotating token, a callback that fails |
| **HTTP cache** `_runtime/protocols/cache.py`, `cache_stores.py` | the store's entries in LRU order | `fetch`, `afetch` | reads and writes of one key with a request between them, credentials renewed in between |
| **Event streams** `_runtime/protocols/streams.py` | the cursor, the carried ID, reconnections, the response | steps, `checkpoint`, `close`, `resume` | connections cut anywhere, an event refused after it was read |
| **Remote references and their lock** `http.py`, `remote_lock.py`, `_lock_plan.py` | lock files, recorded responses, which locks earlier runs verified | plan, open, `record_response`, publish | jobs that share a lock, servers that change, locks that vanish between runs |
| **Import cycles of the output** `parser/_passes/_import_edges.py`, `_scc.py` | the plan of imports; Tarjan's stack; the walk's | `_import_graph`, `strongly_connected_components`, `_first_failing_read`, `failing_import_reads` | modules that import one another fail or not depending on which is imported first |
| **Raw responses, websockets** `_runtime/client/raw.py`, `_runtime/protocols/websocket.py` | the native connection's | `read`, `stream_to`, `send`, `receive`, `close` | a reader and a closer at once, over HTTPX2's own locking |
| **Pagination, links, webhooks, signatures** | a cursor; remote keys | next page, verify | cycles, limits (sequential) |
| **Process-wide state** `_process_state.py`, `dynamic.py`, `_caches.py` | one lock, warnings, caches | short sections | none of its own |
| **Parsers, passes, resolver, other graph algorithms** `parser/*`, `reference.py`, `_mro.py`, `_graph.py` | the schema's models | parse, sort, rename, render | size of the data; sequential |
| **Rendering** `model/*`, `format.py`, `_client/*`, `_fastapi/*` | none | text | sequential |
| **Command line, recommender, runtime server** | none that outlives a call | | sequential |

How they interact. The command line (`__main__.py`) and the API (`__init__.py`) parse, render
into a staging directory and call the publication for all outputs and the remote lock file at
once. Watch mode calls that whole pipeline again and reads from it which files it depended on.
The generated client calls the runtime: every protocol helper (uploads, polling, cache, ...)
sends its requests through one logical call (`execute_page`, then `_exchange`), which applies
the retries, the deadline of the helper's session and the authentication. A helper and the call
share the session: a deadline and a count of sends. The polling model depends on both. What
`Upload` and `Polling` take for one request and its answer, retries included, is what `ClientCall`
models from inside; its `FurthestTrue` is what lets a helper trust that a request was never sent.

The properties that make each modelled component correct are in section 3. `PROJECT.json`
lists the hazards line by line, with the properties that watch over each and those nothing
covers yet.

## 2. Modules

| module | what it is |
| --- | --- |
| `Upload` | handles, network and server of a resumable upload |
| `UploadService` | what an upload promises its callers; `Upload` is shown to implement it |
| `MCUpload` | constants of `Upload` for TLC |
| `UploadProofs` | theorems about `Upload` and that it implements `UploadService` |
| `Publication` | one publication of staged files, and others in the same directories |
| `MCPublication` | constants of `Publication` |
| `PublicationProofs` | theorems about `Publication`, all its invariants, for every list of files; and about `RemoteLock` |
| `Polling` | one handle of a long-running operation, used by several threads |
| `MCPolling` | the module the polling runs check |
| `PollingProofs` | theorems about `Polling` |
| `WatchGraph`, `Watch` | the dependency graph of a watch session; the loop and the watcher's thread around it |
| `WatchProofs` | theorems about `Watch` |
| `OAuth` | one refresh token provider and the calls that share it |
| `OAuthProofs` | theorems about `OAuth` |
| `Cache` | fetches through one memory store, and the origin |
| `CacheProofs` | theorems about `Cache` |
| `ClientCall` | one logical call over a network |
| `ClientCallProofs` | theorems about `ClientCall` and `Streams` |
| `RemoteLock` | runs of a process that share and publish remote lock files |
| `Streams` | one resumable event stream, its server and its application |
| `Components` | Tarjan's algorithm over a graph |
| `Imports` | the graph of a generated package's imports, and the walk of Python's import over it |
| `ImportsProofs` | theorems about `Components` and `Imports` |
| `MCWatch`, `MCOAuth`, `MCCache`, `MCClientCall`, `MCRemoteLock`, `MCStreams`, `MCImports` | constants of these for TLC |

### Upload

`handle[h]` is the attributes of `_Upload` together with the place its current step has come to
and the answer to its call. `wire` and `finals` are the appends and the completions on their way;
a request whose caller gave up stays there, addressed to `Nobody`, and may still be served, at any
time: this is how requests arrive late or after a crash. `saved` is the checkpoint the application
last kept.

* `Step`, `Verified`, `ProbeFails`: `_step` up to the end of its probe, and the probe of `resume`.
* `Buffer`: reading the chunk, with the source possibly of another size by now (`_buffer`).
* `Send`, `Appended`, `AppendRaises`, `AppendUncertain`: `_append` and its ways to end.
* `Reconciled`: the probe after an append of unknown outcome (`_reconciled`): resend, confirmed,
  confirmed in part, or refused.
* `Complete`, `Resend`, `Completed`, `CompletionRefused`, `CompletionUnknown`: the completion, with
  the shared retries of `_exchange` that answer 502, 503 and 504 by sending the same call again.
* `Checkpoint`, `Close`, `Crash`, `Resume`.

The asynchronous handle makes the same calls in the same order; it has no actions of its own. A
cancelled task is an `AppendRaises`, a `CompletionUnknown` or a `ProbeFails`, as an interrupt is.
Probes are a request and an answer in one step: the server's offset never shrinks, so a delayed
probe answer is an answer given earlier, which `ServeProbe` may do at any time before it is read.

The server is external: it keeps an append at its offset, whole or (partial commits) in part,
refuses others, and applies a completion once it has all bytes. A gateway may answer for it.

### Publication

`_publish_staged_files_at`, system call by system call, as far as others can see the difference.
`target` and `backup` are directory entries in two trees: the one the path named when the call
was planned and one that may take its place. An entry is the original inode (`old`), a second
inode with its content (`copy`), part of such a copy (`partial`), the staged file (`new`), somebody
else's (`foreign`) or a directory. `old` in both `target` and `backup` is two links of one inode, on which a rename does
nothing: `Restored` is about that case.

* `Validate`, `Enter`, `OpenPart`, `MakePart`, `RecordPart`, `RecordFails`: the anchor's check and
  the walk down to the target's directory, with descriptors.
* `Backup`, `Journal`, `Replace`, `CheckAnchor`, `CheckPath`: one file.
* `CopyTorn`: the except branch of `_copy_target` (`_publication.py:557-567`), when it cannot clean up.
  A backup that cannot be linked is copied; the copy fails or is interrupted after it made the file,
  and the removal, whose errors are suppressed, fails too. It raises `torn` (or the interrupt), and
  leaves a `partial` backup that is neither journaled nor named. The copy and its removal count as one
  fault, so that a further one is left for the rollback.
* `RollBack`, `RolledBackFiles`, `Unmake`, `Propagate`: the except branch.
* `Cleanup`, `Finish`: the else branch.
* `CallFails` fails any of these calls, with nothing left behind; `Interrupt` is a KeyboardInterrupt between any two.
* `MoveTree`, `Meddle`: other processes.

A kill needs no action: whatever holds in every state holds in the one a kill leaves.

### Polling

`thread[t]` is what each thread is doing, `lock` and `guard` the handle's two locks. `due` is the
time left until `_not_before`, `left` until the session's deadline, if it has one: a handle is
created or resumed with any of `Totals`. Time is in polling intervals.

* `Enter`, `Check`, `Due`, `Wake`, `Ask`: `status` and `wait` up to a request, which holds `lock`
  from its first line to its last, sleeps included.
* `Polled`, `SettleBound`, `SettleCancel`: a poll is read and settled in the order `_settle` writes
  the attributes, holding `guard`; `Fetched` is the result fetch.
* `Raises`, `Lost`, `Interrupt`: the call's error with a response, without one, and a wait cut short.
* `Cancelling`, `SendCancel`, `CancelEnds`: `cancel_remote`, which takes no lock but reads what it
  sends under the guard, and whose request counts in the session's sends as any other.
* `Checkpoint`, `Close`, `Resume`.

`moved` is the comparison of `_counted`: the session sent since the poll read its count. `asked`
and `quiet` are history variables: the polls really sent, and the time the last response asked for.

### Watch

`WatchGraph` is `_DependencyGraph`: what the configuration names (`static`), what the last
generation read (`gen`), and the candidates of attempts that have not succeeded (`pending`,
`failed`, `failedGen`). `Known` is the published snapshot, `Recovery` the paths of failed attempts,
which count even when they are outputs. `Watch` puts the two threads around it. `disk[f]` is a
version, and `text[f]` what the file says: the files it names, and whether it can be used. `seen` is
what the last attempt really read.

* `Load`, `Stage`, `Begin`, `Record`, `Read`, `Finish`: one regeneration in `_main`, from the project's
  file to the published outputs, with the fingerprints taken where `generation` and `record_file` do.
* `Start`, `Take`, `GiveUp`, `Interrupt`, `Stop`, `Join`: `watch_and_regenerate` and `_watch_once`; a
  regeneration that changes the watched roots ends the watcher and starts one that catches up.
* `Enable`, `Subscribe`, `Deliver`, `Timeout`, `Stops`, `Fails`: the watcher's thread, its hand-off
  (`pending`, `named`, `error`, `exhausted`) and the second look of `pending_polling_fallback`.
* `Edit`: others write a file; polling may report the file, its directory, or nothing.

`lost` is history: the edits that nobody was in a position to see, and why. The properties excuse
those and no other; the configurations under *Disagreements* are about them.

### OAuth

Token sets are numbered as the server issues them; `caller[c]` is the place of a call in
`SchemeAuth`'s flow and in `token`. `Request`, `Adopt`, `Notify` and `Fail` are `_renew` under the
lock, `Use` the look at the held token that makes a renewal unnecessary, `Rejected` the one resend
after a 401. The server may grant with rotation or without, and refuse; answers are lost; the
callback returns or raises; a caller may be interrupted. `adopted`, `notified` and `renewed` are
history. The model has one lock for each of `Locks`; the runs and theorems assume `OneLock`, which
`docs/python-client.md:1233-1256` asks of a provider's users: threads only, or one event loop.

### Cache

`entries` and `used` are `MemoryCacheStore`'s ordered entries. A fetch is `Look` (`keyed`, `found`),
then `Serve` (fresh) or `Send`, `Answer`, `Receive` (`stored`, the looked-up entry behind a 304) and
`Write`, or `Refuse` or `Fail`. `Rotate` is a credential that becomes another identity's between the
lookup and the send, `Change` a new version at the origin. One clock serves all; the age a `Date`
tells never exceeds the time since the request; validators are strong. `raced` and `outdone` are
history: the fetches whose key another fetch stored under since they looked it up, and, for each key,
the newest version returned and not stored, with the fetches then under way.

### ClientCall

`call` is `LogicalCallContext` and the state `_exchange` has beside it; `native` the send under
way in HTTPX2, which follows redirects and answers one challenge inside a single call. `Attempt`,
`Decide`, `Recover`, `Close`, `Wake` are the loop of `_exchange` with `admit_send`, `retry_stop` and
`retry_delay`; `Unsent`, `Lost`, `Redirected`, `Challenged`, `Answered` what a send may meet, and
`Hooked`, `ResponseHooked` a failing hook of the HTTP client, which may raise an error of any kind,
with its request named or not. `policy`, any value of it, is fixed when the call is made; `heeds` is
`respect_retry_after`, without which a server's delay is neither waited for nor refused. `executed`, `reached` and `asked`
are the server's side.

### RemoteLock

One action for each phase of a run: `Begin` (`remote_lock_plan`, `_apply_remote_lock_plans`, the
intent a watched process keeps), `Open` (`_RemoteLockTransaction.open`), `Fetch` (`record_response`),
`Generated`, `Publish` (outputs and locks in one journal: `Publication` has what is inside it) and
`Fail`. Servers, lock files and the project's configuration change at any time.

### Streams

`stream` is the handle, `conn` the response with HTTPX2's last event ID, `log` the server's events,
`plan` what the helper declares and the caller enables. `Receive` reads one event and delivers,
skips or refuses it (`_advance`, `_dispatched`); `Cut`, `Reopen` are `_broken` and `_reopen`; the
application's `got` goes with its checkpoint in `saved`. The server sends a reopen what follows its
cursor, or everything without one, and event IDs are distinct.

### Components and Imports

`Components` is `_scc.py`: `Start` begins a walk at a node not visited, `Down` goes from the last frame
of `call_stack` down to the first neighbor not visited, and `Ends` ends the frame's node, taking a
component off the stack where it is the component's root. `Imports` gives
it the graph of `_import_graph` and then walks Python's import as `_first_failing_read` does: `Import`
runs the first package or module that has not begun, `RunImport`, `RunName` and `RunEnds` are the lines
of a running module. `lines` and `reads` are the plan; a submodule and a class are names of two
kinds, and the class a module defines is one. The blocks of a module come in the order
`written_import_blocks` gives them, the names of one block in any order: the code sorts classes and
submodules together by name, and classes have none here. The code walks only from modules that run into a cycle; the model
walks from any, and `Walked` says which the code would.

## 3. Properties and runs

| run | instance | checks |
| --- | --- | --- |
| `UploadOne` | one handle at a time, 3 bytes in chunks of 2, partial commits, a completion, a source that may change size, 4 faults, under fairness | `TypeOK`, `CompleteIsDone`, `CompletionAppliedOnce`, `NoOffsetRefused`, `UploadEnds` |
| `UploadTwo` | two handles at once, 3 faults, a completion and one shared retry of it | `ConfirmedIsHeld`, `ImplementsService` |
| `UploadRetried` | as `UploadOne` with one shared retry | `AppliedAtMostOnce` is **violated** |
| `PublicationMoved` | two files, the second two directories down, two faults, two steps of others | `TypeOK`, `NothingLost`, `RolledBack`, `PublishedAsPlanned` |
| `PollingThreads` | two threads, result fetch, 2 polls, a deadline of 4 intervals or none, one fault, one cancel, under fairness | `TypeOK`, `OutcomeIsServers`, `SettledStays`, `ReadTogether`, `NeverEarly`, `PollsBounded`, `WaitEnds` |
| `Watch` | a project, a schema, an option's file in another directory and a referenced file; polling or native events; 2 edits; a failing or interrupted watcher; under fairness | `TypeOK`, `NothingForgotten`, `AcknowledgesRead`, `CatchesUp` |
| `OAuth` | two callers, two calls each, two grants, a clock of 2, under fairness | `NoReplacedSent`, `ReplacedOnce`, `SavedInOrder`, `CallsEnd` |
| `Cache` | two fetchers of different variants and `max_ttl`, two identities, two renewals, one change at the origin, three fetches, a clock of 2, a store of one entry | `TypeOK`, `NotBehind`, `AnswersItsOwn`, `CurrentEnough` |
| `ClientCall` | two retries, one redirect, every policy, a deadline of 4 in a clock of 5, server delays below, at and beyond what is accepted | `ExecutedOnce`, `FurthestTrue`, `ResentInTime` |
| `RemoteLock` | two jobs, two locks, two requests one of which both read, two edits | `RecordsWhatWasRead`, `PublishedAsLocked`, `StaysVerified` |
| `Streams` | three events over every log and plan, two reconnections, one resume | `NoneSkipped`, `RepeatedAfterCursor` |
| `Imports` | a root package, a package with a module, and a module; three imported names, every choice of them and of what definitions read, every entry | `ComponentsFound`, `FailsInCycle` |

Deadlock is checked in `RemoteLock` alone, whose runs go on for ever. Elsewhere the system may
really stop: an upload, a publication, a call, a handle, a stream and a watch session end, callers
and fetches have made all their calls, an import ends, and a bounded environment stops.

What they say:

* `ConfirmedIsHeld`, `ImplementsService`: resuming from any checkpoint ever given leaves no gap in
  the content, whatever was lost, delayed or sent twice, and with two processes on one upload.
* `NoOffsetRefused`: the check of a probe's offset (not below the confirmed one, not past what
  was sent) never refuses an honest server. This is why `_high` exists, and it is `Size` after a
  resume: what an earlier process sent is unknown.
* `CompletionAppliedOnce`: of the completions in one handle's past, one at most is ever applied.
* `NothingLost`: a kill at any point. `RolledBack`: an error leaves all as it was or names what is
  not, and leaves beside the targets no backup but the one copy it failed to remove. `PublishedAsPlanned`: success means the directory that was planned, and nothing left in
  another, unless others exchanged it three times during the call.
* `SettledStays`, `OutcomeIsServers`: the handle's outcome is the server's, and final.
* `ReadTogether`: a checkpoint or a cancel never mixes the values of two responses; the guard is
  for this. `NeverEarly`, `PollsBounded`: no poll before its time, none past the limit.

* `NothingForgotten`: a loop that waits with nothing on its way to it has read all it depends on as
  it is. Several steps must work together for it: the filter that uses a graph a generation is
  replacing, the reset of the hand-off before the regeneration, the restart that catches up, and
  what failed attempts leave in the graph. `CatchesUp` is the same in the long run, and adds that no
  output of a generation sets off the next. `AcknowledgesRead`: no fingerprint is newer than what
  was read, or an edit during a generation would never be seen by polling.
* `NoReplacedSent`, `ReplacedOnce`, `SavedInOrder`: the client never sends a refresh token it knows
  replaced, so that a server which revokes a family of tokens for that has cause to only where the
  answer that replaced one was lost; ten calls answered 401 at once renew once; and the
  application's storage ends with the token set in use.
* `AnswersItsOwn`: an entry is never served to, or stored for, another identity or variant.
  `CurrentEnough`: the freshness of what is served counts from before its request. `NotBehind`:
  once a fetch has returned a version it may not store, what the store has under its key is no older,
  unless it was current until then or is of a fetch then under way, or another wrote between that
  fetch's lookup and its end (disagreement 8). So no later fetch brings a superseded version back, and
  none that was there stays, which takes the removal of the entry looked up whatever its variant, and
  the dates of what is stored.
* `ExecutedOnce`, `FurthestTrue`: the two sides of `delivery`: nothing that may have been executed is
  repeated unless that is safe, and what is called unsent was. `ResentInTime`: neither a backoff nor
  a late answer lets a retry go out before the server's delay, where the call respects Retry-After, or
  after the deadline. The one exception in `FurthestTrue` is a request hook that raises, for the request
  of a redirect, a connection error that does not name it: `_answered` (`client.py:559-562`) takes
  the call for unsent although the redirect was answered. It is not retried.
* `RecordsWhatWasRead`, `PublishedAsLocked`: a lock and the outputs published with or under it agree,
  whatever the servers do between two jobs. `StaysVerified`: a lock that was verified is not
  silently given up when its file vanishes.
* `NoneSkipped`, `RepeatedAfterCursor`: delivery is at least once and repeats only what follows the
  cursor, over reconnections, refused events, checkpoints and resumes.
* `ComponentsFound`: each component taken off the stack is all the nodes that lead to one another, and
  leads only to those found before. `FailsInCycle`: whatever is imported first, a read of a module that
  still runs is one the code looks for, and the component it merges holds both the reader and the
  module read. The graph knows nothing of the order in which packages run; that it holds every edge
  the walk can take, though it leaves out the packages above an importer, is what this shows.

### The bounds and why they are enough

Three bytes in chunks of two have a whole chunk, a short one, and an offset inside a chunk; with
one byte less there is no partial commit, with more only more of the same. `MaxFaults` counts the
lost calls, error answers, crashes and closes: four allow a crash after an uncertain append whose
probe also failed, with an error answer after the resume. In `UploadTwo` two completion calls are enough to apply
two; in `UploadOne` there is one for each fault and one more, so that the upload never waits for
the bound. An upload complete by its length is the configuration `UploadLength`, run by hand, with
`CompletionDeclared` (the assertion of `_complete`); the theorems hold for it too. Two files are the least with a file to roll back behind the one that failed; the second is
two directories below the first, so that a created directory contains another. Two faults are a
failure and one of its rollback, or of the clean-up. Two steps of others are a move and a move back,
or a move and a write. `PublishedAsPlanned` speaks of fewer than three: the anchor's check and the
path's are two looks, and a directory exchanged before the walk, put back for the first look and
exchanged again for the second is seen by neither, as the run with `MaxMoves = 3` and without that condition
shows. `SuccessIsPlanned` proves the rest for every bound. Two threads are all the roles
there are, as one step at a time holds the lock: one that steps and one beside it. `MaxPolls = 2`
lets one poll fail and one settle; `Delays = {1, 2}` with `MaxWait = 1` has one delay that is
waited out and one refused; a deadline of four intervals expires before, during and after a wait.

Two edits are one that starts a regeneration, or changes the roots, and one at every point of what
that sets off; three, in all of the safety part, were found to hold too (four million states), but
are too many for the liveness part. Four files are one of each role, in two directories, so that
roots change. Two callers are one that renews and one that waits or was answered before; two calls
each let a token be rejected, replaced, and rejected again, and two grants let one replacement be
replaced. Three fetches are two that overlap and one that reads what they left; two renewals make a
fetcher's credential another's and its own again; a freshness of two with a clock of two has an
answer that took a whole tick and one that is just stale. Identities are symmetric, which is sound:
no action and no property names one. The `Cache` run leaves out requests with `no-cache` or
`no-store`, responses with `no-cache`, and an intermediary's `Age`; an instance with all of these,
two fetches and one renewal was found to satisfy the same properties (4.5 million states). Two retries have a first, a middle and a last attempt, and a
redirect puts an answered request before a refused one. Two jobs on one lock are the sharing, two
locks a change of lock; two edits remove a lock and put it back, or change the plan meanwhile. Three imported names make a cycle of two modules through the package of one of them, or a re-export that is
read; `FailuresAreInCycles` covers any number. Three
events are one delivered, one that bears the cursor and one in flight; two reconnections reach the
limit and stay below it.

### Fairness

`UploadOne`: the application calls `run` again, or resumes, after an error, and a call ends in an
answer or an error, since every call has timeouts. So a handle's steps, `Resume`, and the server's
answers are weakly fair; faults, crashes and closes are not. `UploadEnds` then says no sequence of
probe, append and reconcile goes round for ever once faults stop.

`PollingThreads`: a thread in a step goes on, calls end (timeouts again) and time passes. Nothing
obliges the operation to settle, and no thread to start a step. `WaitEnds` holds, without a deadline
too, because every poll counts.

`Watch`: the loop and the watcher's thread go on when they can, a delivered event is handed over, and
a poll times out again and again (`watchfiles` is called with a timeout). Nothing obliges anyone to
edit, fail or interrupt. `CatchesUp` then says that a session has ended or caught up for good.

`OAuth`: a call that can go on does, and a request ends in an answer or an error, since
`oauth.py` gives it a timeout. The server need not grant, time need not pass, and the lock is free
for all: that each of them gets it in turn follows from calls being finite here, as it does from a
fair lock there.

### Disagreements between documentation and code

Each has a configuration that makes TLC show it. `UploadRetried` is one of the runs above and a
finding of `PROJECT.json`; the others are asked for by hand, as in
`tlc -config WatchUnwatched.cfg MCWatch.tla`, and each ends in the violation of its one property.

1. `UploadRetried` (`AppliedAtMostOnce`): `docs/python-client-helpers.md:1046` says a completion of
   unknown outcome is never sent again. With a replay-safe completion and shared retries, the first
   try may be applied and answered 504, and a second be refused; only the last answer is looked at
   (`uploads.py:522`), the handle goes back to uploading and the completion is sent as a new call. The
   trace ends when the server has applied that one too.
2. `PublicationInterrupted` (`InterruptRollsBack`): the docstring of `publish_staged_files` says an
   interrupt rolls back every file already replaced. During the removal of the backups it does not
   (`_publication.py:840`).
3. `PollingCounted` (`CountsOnlyPolls`): `docs/python-client-helpers.md:678` says polls refused before
   sending are not counted. They are when `cancel_remote` sent meanwhile (`polling.py:485`).
4. `WatchUnwatched` (`WatchedFromStart`): `docs/fastapi-server.md:963` says `--watch` regenerates
   whenever an input changes. The first generation is over before the watcher starts
   (`watch.py:249`), its thread subscribes later still, and the first watcher does not catch up: an
   edit in between goes unnoticed.
5. `WatchUndiscovered` (`WatchedOnceRead`): the same sentence. Events are filtered by the published
   snapshot (`watch_dependencies.py:518`): an edit of a document that the running generation has just
   read for the first time is dropped.
6. `WatchUnreadable` (`ComesToRest`): a project file that cannot be read ends an attempt
   (`__main__.py:2604`) before a graph is published; its fingerprint stays old, and with polling the
   loop regenerates for ever, where `docs/cli-reference/general-options.md:3000` says it does when
   changes are detected.
7. `WatchAcknowledged` (`AcknowledgesObserved`): a comment in `generation` (`watch_dependencies.py:376`)
   says later edits are not acknowledged. The project's file is read before its fingerprint is taken.
8. `CacheRaced` (`SupersededAlways`): `docs/python-client-helpers.md:1754` says a response that cannot be
   stored removes the entry it supersedes. It does only if its own lookup found one (`cache.py:548`):
   of two first fetches at once, the older answer may stay to be served.
9. `CacheErrors` (`ErrorsKeep`): the next line says errors keep the entry. A 304 that validates nothing
   is one, and deletes it (`cache.py:539-544`).
10. `ClientCallChallenged` (`NeverForgets`): the docstring of `furthest` (`logical.py:130`) says it never
    forgets an earlier send. After a challenge is answered the same request object is sent again, and
    a connection refused then makes the call one that was never sent (`client.py:551`). The request
    was not executed: `FurthestTrue` and `ExecutedOnce` hold.
11. `RemoteLockTarget` (`StaysVerified`): a watched run of one target discards the plan that keeps a
    vanished lock required (`__main__.py:2733`), and plans again from the disk: its next output is
    published unverified. `tests/main/test_main_watch.py:3493` says a vanished lock remains required.
12. `StreamsIdle` (`IdleNeverReconnects`): the docstring of `_broken` (`streams.py:769`) says a stream
    never reconnects by its idle limit. The limit is set as the read timeout, and any read timeout may.
13. `StreamsCounted` (`CountedAcrossResumes`): `docs/python-client-helpers.md:1215` says reconnections are
    counted across resumes. A checkpoint holds no count (`streams.py:1236`).

## 4. Proofs

All theorems hold for every value of the constants that the named assumptions
(`UploadAssumption`, `PublicationAssumption`, `PollingAssumption`, `OAuthAssumption`,
`CallAssumption`, `StreamsAssumption`, `CacheAssumption`, `WatchAssumption`, `RemoteLockAssumption`,
`ComponentsAssumption`, `ImportsAssumption`) allow, and for unbounded faults in the sense that the
bounds are arbitrary natural numbers. Each safety property of a passing run is the statement of a
theorem. Two modules prove about two components each, whose definitions have names of their own
(`StreamSpec`, `LockSpec` and so on) so that one module can extend both.

**`UploadProofs`.** `TypeCorrect`, `ConfirmedHeld`, `CompleteDone` and `CompletionAlwaysDeclared` follow
from one inductive invariant:

    IInv == TypeOK /\ (\A h : Sound(handle[h], remote, applied)) /\ Wired /\ Resumable

None of the four is inductive alone. That a handle's `confirmed` is held by the server depends on
what an "ok" it is about to read means (`Known`: the append's end, the probe's offset), and that on
the request it answers being the one the step made (`Wired`): a request addressed to a handle is the
only one, is not answered yet, and carries the offsets of the current chunk. `Placed` says where a
step may be with which phase, and that an upload complete by length is complete as soon as the last
byte is confirmed. `Resumable` carries all that over a crash. There is one lemma per action, from
three about the state of one handle (`HangupSound`, `SettledSound`, `DecidedSound`).

`Implements`, in the same module, shows every step of `Upload` to be a step or a stutter of
`UploadService` under the refinement `held <- remote`, `known <- confirmed`, `done <- complete`:
appends are `Keep`, confirmations and completions `Learn`, a resume `Rejoin`.

Two properties hold of a part of the configurations only, and their theorems assume it. `AppliedOnce`
needs `Retries = 0` (with a retry below the handle the property is false, which `UploadRetried`
shows). Its invariant `Once` is over the completions *at large*, those the server applied or may still
receive: of a handle's past completions only the last may be at large, and none while the handle
uploads, or the last was refused. So the handle calls again only after an answer that says the
earlier call came to nothing. `OffsetsAccepted` needs one handle at a time, `Handles = {First}`: its
invariant `Honest` says that the server is within the chunk after what the handle confirmed, and that no
append of a later chunk is on its way (`Ahead`), so that what a probe reads is not below the confirmed
offset, not beyond `_high`, and at a chunk's edge where the server commits whole chunks (`Edge`).

**`PublicationProofs`.** All of the run's invariants. `PublicationTypeCorrect` and `NoOriginalLost`, from

    IInv == TypeOK /\ Ordered /\ \A s \in Slots : Owned(s) => Protected(s)

`NothingLost` alone is not inductive: between `Backup` and `Replace` the original is in two places,
and which it is depends on the journal. `Protected` says that a target the journal does not name
still holds the original, and one it names has a backup until the rollback has come to it;
`Ordered`, that the journal names the files in order, each once, so that the rollback cannot come
to a target twice.

`FailureUndone` adds `RInv`. `Tracked` follows each target nobody else writes: it is as before until
the journal names it; once it does, what is noted of it (`Noted`: a backup that holds the original, or
that there was nothing) undoes the change; and from the rollback's step over it on, it is as before or
among the failures. That needs the order *backup, journal, replace*: between the first two the backup
is there and not journaled, which is the case an interrupt alone can hit, and why the property asks
less of an interrupt. A copy that could not be removed is the one other such case (`Cleared`): it is
beside the file the loop had come to, which the journal does not name. `Recorded` is the same for directories: each one made is in `created`, but for the
one made a moment ago, whose record fails as error `dup`.

`SuccessIsPlanned` adds `PInv`: `Placed`, that a target already replaced and journaled stays the staged
file and keeps its backup until the cleanup's step over it; and `Looked`, which counts how often the
directory must have been exchanged for the open descriptor to be in another tree: once when it is
opened, twice when the anchor's check passed all the same, three times when the path's check did
too. Fewer than three therefore leave nothing outside the planned directory.

Of `RemoteLock`, in the same module: `LockTypeCorrect`, `LockRecordsReads`, `ReadOnlyUnchanged` and
`VerifiedStays`, from

    LockInv == LockTypeOK /\ StillRequired /\ Settled /\ Unread /\ Collected

The three properties look at a run's last step only; `Collected` says how it got there. Of each open
lock (`Collects`): its collector has seen exactly what the jobs that use it read, the same for all of
them, and if it is not to update its lock, it still holds what the lock recorded when it was
opened. That the first job of a lock speaks for the rest (`UpdatesIs`) is where `Open`'s refusal of
incompatible plans is needed. `StillRequired` and `Settled` carry the intent from run to run: a lock that
an earlier plan verified because it was there is among those that must exist, and no job that uses one
of these is planned without it. The last fails for one command that generates a target, so
`VerifiedStays` assumes `~SingleTarget`; disagreement 11 is the other case.

**`PollingProofs`.** All six safety properties of `Polling`, two of them action properties:
`PollingTypeCorrect`, `OutcomeTrue`, `OneResponse`, `PollLimit`, `Settled` and `NotEarly`, from

    IInv == TypeOK /\ (\A t : Sound(t, thread[t], ...)) /\ Outcome /\ Together /\ Kept /\ Count
            /\ quiet = due

`Placed` is the discipline of the two locks: a thread in a step holds the lock, and one that settles
holds the guard. From it follows `Alone`, that two threads are never in a step, and so that what a
step read before it slept or sent is still so when it acts on it (`Fits`): the handle is pending, a
poll is left, no time is left to wait, a terminal answer is still what the operation is. `Together`
is what the guard protects, and `Fits` what holds of a half-written handle between the writes of
`_settle`. `Count` is why `PollsBounded` holds although a poll is counted after it was sent: at most
the one that is waited for is not counted yet. For the action properties, `AsksOnly` shows that no
action but `Ask` sends, and `Final` that none changes a settled phase.

**`OAuthProofs`.** `TypeCorrect` for any assignment of locks; `ReplacedNeverSent`, `RejectedReplacedOnce`
and `SavedAsAdopted` for `OneLock`, from

    IInv == TypeOK /\ (\A c : Sound(c, ...)) /\ Log /\ held.value <= issued /\ Saved

`Sound` says that a caller that waits for an answer or notifies holds the lock, sent the current
refresh token, and was granted a token set newer than all that were adopted; `Log`, that the adopted
sets grow, the last is the one held, and each rejected token they replaced is the one adopted just
before. Without the first, `ReplacedOnce` says nothing of a second caller that was rejected
with the same token; with it, that caller finds `held.value # stale`. `Saved` is where the callback
stands. `OneLock` is used where a caller's holding its lock must keep all others out.

**`ClientCallProofs`.** `TypeCorrect`, `NotRepeated`, `UnsentUnreached` and `SentInTime`, from

    IInv == TypeOK /\ Ready /\ Executions /\ Unreached /\ Heeded

`Executions` bounds how often a request was executed by what the call can know: none before the
first send, one at most while a send is under way, and none at all if the call may be repeated
although that is not safe, for then every attempt was unsent (`Unreached`). `Unreached`
has the property's exception: a blocked call ends with that attempt. `Heeded` is the server's delay, for a
policy that heeds it, carried from the answer over the decision and the wait; `Ready`, that a call about to send
has an attempt left and is not blocked.

Of `Streams`, in the same module: `StreamTypeCorrect`, `DeliveredAtLeastOnce` and `RepeatsFollowCursor`, from

    StreamInv == StreamTypeOK /\ Sound(got, stream.cursor) /\ Sound(saved.got, saved.cursor) /\ Reading
                 /\ Repeats /\ (what is read is live, and what waits may reconnect)

`Sound(set, cursor)` is what makes a cursor safe to reopen from: every event with data up to it was
got, and what was got has no gap. It holds of the handle and of the checkpoint for the same reason,
and `Reading` extends it to what the open response has passed over; the carried ID of `_dispatched`
is why an event that sets no ID cannot move the cursor back. `ReconnectsBounded` says what the code
promises where the documentation says more (disagreement 13): all reconnections together are at most
`max_reconnects` for each stream opened or resumed.

**`CacheProofs`.** `AnsweredItsOwn` and `AnsweredCurrent`, from

    IInv == Shaped /\ (\A k : Kept(entries[k], k) /\ Dated(entries[k], until, now))
            /\ (\A f : Sound(f, fetch[f], until, now))

`Kept` says that an entry under a key is that identity's, `Dated` that it is never newer than its age
says: what it holds was still current at its response time less its initial age. `Sound` carries
both through a fetch, from the entry it looked up, which others may replace or delete meanwhile, over
the reply, which may be for an identity the fetch did not look up, to the entry it writes. The order
of the store plays no part: dropping entries breaks neither.

`StoreNotBehind` adds `HInv`, about the history. `Aware` is what a fetch that is not `raced` knows: if it
found nothing under its key, nothing is there. So its removal, which depends on what was found, takes
away whatever is there. `Later` is about the fetches that come after: one that was not under way when a
version was returned (it is not in `late`) sends its request after that, so what it stores (`Answers`) was
current then or since, by `IInv`. A fetch in `late` may store something older, and the history then
no longer counts that version.

The store's order is what `TypeCorrect` is about: `Ordered`, inductive with `IInv`, says that the keys in order
are those that have an entry, each once, and at most `max_entries`. Its lemmas say what an order
is with one key left out (`WithoutIs`), used again (`TouchedIs`) or with its first ones gone (`LeftIs`).
`SupersededAlone` assumes one fetcher and proves what the documentation says of all (disagreement 8):
from its lookup to its end the store has under its key what it found (`Untouched`), so the removal that
depends on what was found removes what is there. Concurrent fetches are all that breaks it.

**`WatchProofs`.** `TypeCorrect`, `ReadAcknowledged` and `NoneForgotten`, from

    IInv == TypeOK /\ Dated /\ Printed /\ Control /\ Loaded /\ Reading /\ Acknowledged /\ Due /\ Ended

`NothingForgotten` speaks of a loop that waits, and what makes it true happened long before. `Due` is
its strengthening to the whole session: an edit of a file the last attempt read, unless it is
declared lost, makes no difference (`Current`), or word of it is kept for the loop (`Told`: in the
hand-off, in the thread's error, or in an event the graph lets pass), or, with polling, shows as a
fingerprint no newer than what was read. A loop that is about to generate again needs none of them, for
it will read everything anew; one that will wait first, or is generating (`Live`), does. The
project's file, which is read before its fingerprint is taken, has cases of its own. `Control` is why
the restart of a watcher loses no word: where the loop may be, relative to the thread, to the first
generation and to the fingerprints. `Loaded` and `Reading` follow an attempt: it has read what it
recorded but for the open file, and, while no file it read has changed since, will read all that is
named. `Ended` is what is left of that when it is over: what was read is in the graph, by a commit or
as a candidate kept after a failure, and if all of it is as it was, nothing named is missing.
`Acknowledged` and `Dated` are what the order *fingerprint, then read* gives.

**`ImportsProofs`.** `ComponentsAlwaysFound` is the correctness of the iterative Tarjan of `_scc.py`, for
every finite graph, from

    TInv == TarjanTyped /\ Stacked /\ Framed /\ Joined /\ LookedAt /\ Low /\ Separate

The stack is in the order of the indices (`Stacked`) and the frames are a path through it (`Framed`).
A frame's node leads to all that is above it on the stack, and what lies in its part of the stack
leads back to it (`Joined`). All neighbors a frame has passed over are visited (`LookedAt`), and none of
them on the stack is lower than what the frame knows (`Low`). So when a node's low link is its index, what is cut
off is one component, and since it leads to nothing below, it is closed but for the components found
before (`Separate`).

`FailuresAreInCycles` is `FailsInCycle` for every package, plan of imports and entry, from an invariant
`IInv` about the walk: the modules that run are, from the entry up, a path of the graph of imports in
which the packages above a module count as imported by it. Those are not in the code's graph: it leaves
out the packages above an importer, on the ground that they have begun already. `Started` makes that
precise: what has begun is closed under the packages above, so a step to a module that
has not begun never needs the edges left out, and a running module that another reads is
joined to its reader by edges that are there.

Only model-checked: all liveness (`UploadEnds`, `WaitEnds`, `CallsEnd`, `CatchesUp`), which is out of the
prover's reach, as are `ENABLED` and induction over data. No module has a recursive operator, which
the prover does not take: recursion is by functions, and the store's order is changed by
`SubSeq`, `\o` and `Append`.

## 5. Not modelled

* The content of requests, media types, the reading of headers, and the range syntax of offsets.
* `start` itself: the models begin where it returned a handle. A create call that fails returns none.
* The publication's variant by path, used where directory descriptors are missing (Windows), the
  staging directory's clean-up, files published without an anchor (`_publication.py:680-681`), whose
  directory is not checked against a plan, and a directory another process makes between the failed open and
  the mkdir.
* The deadline inside one call of a poll: a call and its retries are one request.
* `Watch`: symbolic links and other variants of a path, roots inside one another, batches,
  dependencies recorded outside a generation, and an error of the watcher's thread before its `try`
  (`watch.py:125-126`).
* `OAuth`: `ClientCredentials`, which keeps nothing but the held token, and users that mix threads and
  event loops on one provider, which the documentation tells them not to.
* `Cache`: helpers of different declarations on one store, `max-age` in requests, a caller's own
  validators, stores of other kinds.
* `RemoteLock`: the fetching itself, `--check` and `--diff-against`, two paths of one lock.
* `Streams`: what an event's data decodes to, the lengths of delays, and an interrupt between the
  advance of the cursor and the return of `__next__`, which are one step.
* Websockets and raw responses: what two threads do to one connection is decided by HTTPX2's locking,
  which is not in the repository. Pagination and webhooks are sequential.
* `Imports`: names bound to another name, the lines of a failing read and the move of a generic base
  class (`_free_base_class_module`), and the merge and the parse that follows: what the parser writes
  after a merge is not decided there.
* The rest of the translation, from parsers to templates, is a function of its inputs, which the tests
  compare with expected outputs: there is no order of events in it for a model to explore.
* Everything else listed as such in `PROJECT.json`, with the reason.

## 6. Plan

Done: `Upload` and `UploadService`, `Publication`, `Polling`, `Watch`, `OAuth`, `Cache`, `ClientCall`,
`RemoteLock`, `Streams`, `Components` and `Imports`; the proofs of section 4. What is left, in this order:

1. `Cache` with stores of other kinds, and helpers of different declarations on one store.
2. `ClientCall` composed with `OAuth`: one call whose challenge renews the token others share.
3. The other graph algorithms (`stable_toposort`, `_mro.py`) against reference definitions over all small
   graphs, and the loop of parses that merges of import cycles start (`_parse_with_import_cycle_seeds`).
