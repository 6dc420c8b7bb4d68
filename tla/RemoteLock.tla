------------------------------ MODULE RemoteLock ------------------------------
(***************************************************************************)
(* The integrity lock of remote references (remote_lock.py, _lock_plan.py) *)
(* over the runs of one process (__main__.py): each run plans the lock of  *)
(* its jobs, opens it, records every response its jobs read, and publishes *)
(* their outputs together with the locks it updates.  A watched process    *)
(* runs again, and keeps which locks it verifies (watch_dependencies.py).  *)
(* The servers, the lock files and the project change at any time.         *)
(***************************************************************************)
EXTENDS Integers

CONSTANTS
  Jobs,          \* the jobs of the batch, 1..n in the order they run; {1} for one command
  Requests,      \* request identities
  Reads,         \* the requests each job's schemas reach
  Locks,         \* lock file paths
  SingleTarget,  \* whether the one command generates a target rather than models
  MaxBody,       \* bound: the content of a request changes this often
  MaxChanges     \* bound: edits of lock files and of the project

ASSUME RemoteLockAssumption ==
  /\ Jobs \subseteq Nat \ {0} /\ Reads \in [Jobs -> SUBSET Requests]
  /\ SingleTarget \in BOOLEAN /\ (SingleTarget => Jobs = {1})
  /\ MaxBody \in Nat /\ MaxChanges \in Nat

None   == -1
Bodies == 0..MaxBody

LockEntries == [Requests -> Bodies \cup {None}]
LockFile    == [is: BOOLEAN, entries: LockEntries]
Nothing     == [r \in Requests |-> None]
Missing     == [is |-> FALSE, entries |-> Nothing]

Options  == {"auto", "locked", "update"}
Policies == {"inactive", "verify", "locked", "update"}
ReadOnly == {"verify", "locked"}
Plan     == [lock: Locks, option: Options, policy: Policies]

VARIABLES
  served,    \* the servers: what each request is answered with
  locks,     \* the lock files
  project,   \* the lock and the option each job is configured with
  verified,  \* _verified_remote_locks: locks that must exist, of earlier runs
  run,       \* the run under way
  outputs,   \* each job's published output: what it was made from, and its plan
  last,      \* history: each job's plan in the run before, whatever its result
  changes    \* how many edits there were

lockVars == <<served, locks, project, verified, run, outputs, last, changes>>

Run ==
  [at:      {"idle", "planned", "jobs"},
   plans:   [Jobs -> Plan],
   intent:  SUBSET Locks,
   opened:  [Locks -> LockFile],            \* history: the locks as they were opened
   entries: [Locks -> LockEntries],         \* _entries of each collector
   seen:    [Locks -> LockEntries],         \* _seen of each collector
   done:    SUBSET Jobs,
   read:    [Jobs -> LockEntries]]          \* the bodies each job generated from

Output == [from: LockEntries, plan: Plan]

LockTypeOK ==
  /\ served \in [Requests -> Bodies]
  /\ locks \in [Locks -> LockFile]
  /\ project \in [Jobs -> [lock: Locks, option: Options]]
  /\ verified \subseteq Locks
  /\ run \in Run
  /\ outputs \in [Jobs -> Output]
  /\ last \in [Jobs -> Plan]
  /\ changes \in 0..MaxChanges

-----------------------------------------------------------------------------
(* Plans. *)

(* remote_lock_plan *)
PolicyOf(j) ==
  CASE project[j].option # "auto"  -> project[j].option
    [] locks[project[j].lock].is   -> "verify"
    [] OTHER                       -> "inactive"

(* Mutant: only the locks this run verifies. *)
FreshIntent == {l \in Locks : \E j \in Jobs : project[j].lock = l /\ PolicyOf(j) = "verify"}

(* _apply_remote_lock_plans: the locks in use that this or an earlier run verifies. *)
Intent ==
  {l \in Locks : \E j \in Jobs : project[j].lock = l /\ (l \in verified \/ PolicyOf(j) = "verify")}

(* A lock that has gone is required all the same; the run of a single target plans again. *)
Planned(j) ==
  [lock   |-> project[j].lock,
   option |-> project[j].option,
   policy |-> IF PolicyOf(j) = "inactive" /\ project[j].lock \in Intent /\ ~SingleTarget
              THEN "locked" ELSE PolicyOf(j)]

(* Mutant: jobs may share a lock under any policies. *)
AnyPolicies(plans) == TRUE

(* _validate_remote_lock_policies *)
Compatible(plans) ==
  \A i, j \in Jobs :
    plans[i].lock = plans[j].lock =>
      plans[i].policy = plans[j].policy \/ {plans[i].policy, plans[j].policy} \subseteq ReadOnly

Users(plans, l) == {j \in Jobs : plans[j].lock = l /\ plans[j].policy # "inactive"}
First(jobs)     == CHOOSE j \in jobs : \A i \in jobs : j <= i

(* The collector of a lock is opened with the policy of the first job that uses it. *)
Updates(l) == LET users == Users(run.plans, l)
              IN users # {} /\ run.plans[First(users)].policy = "update"

(* publishable_paths *)
Published(l) == \E j \in Jobs : run.plans[j].lock = l /\ run.plans[j].policy = "update"

(* A run that verifies a lock needs its file; a single target's only with --locked. *)
Required(l) ==
  \E j \in Users(run.plans, l) :
    run.plans[j].policy = "locked" \/ (run.plans[j].policy = "verify" /\ ~SingleTarget)

-----------------------------------------------------------------------------
(* The environment. *)

Serve(r) ==
  /\ served[r] < MaxBody
  /\ served' = [served EXCEPT ![r] = @ + 1]
  /\ UNCHANGED <<locks, project, verified, run, outputs, last, changes>>

(* Another process, or the user, removes a lock file or writes it anew. *)
EditLock(l) ==
  /\ changes < MaxChanges /\ changes' = changes + 1
  /\ \E file \in {Missing, [is |-> TRUE, entries |-> served]} :
       file # locks[l] /\ locks' = [locks EXCEPT ![l] = file]
  /\ UNCHANGED <<served, project, verified, run, outputs, last>>

EditProject(j) ==
  /\ changes < MaxChanges /\ changes' = changes + 1
  /\ \E job \in [lock: Locks, option: Options] :
       job # project[j] /\ project' = [project EXCEPT ![j] = job]
  /\ UNCHANGED <<served, locks, verified, run, outputs, last>>

-----------------------------------------------------------------------------
(* A run. *)

NoRun(plans) ==
  [at |-> "idle", plans |-> plans, intent |-> {},
   opened |-> [l \in Locks |-> Missing], entries |-> [l \in Locks |-> Nothing],
   seen |-> [l \in Locks |-> Nothing], done |-> {}, read |-> [j \in Jobs |-> Nothing]]

(* _watch_remote_lock_setup and _run_watched_jobs: the plans, and the intent to settle *)
Begin ==
  /\ run.at = "idle"
  /\ run' = [NoRun([j \in Jobs |-> Planned(j)]) EXCEPT !.at = "planned", !.intent = Intent]
  /\ UNCHANGED <<served, locks, project, verified, outputs, last, changes>>

(* _RemoteLockTransaction.open: compatible plans, and one collector for each lock in use *)
Open ==
  /\ run.at = "planned" /\ Compatible(run.plans)
  /\ \A l \in Locks : Required(l) => locks[l].is
  /\ run' = [run EXCEPT !.at = "jobs", !.opened = locks,
                        !.entries = [l \in Locks |-> locks[l].entries]]
  /\ UNCHANGED <<served, locks, project, verified, outputs, last, changes>>

(* Mutant: a response is compared with the lock only. *)
AcceptsAgain(j, r) ==
  LET l == run.plans[j].lock
  IN run.plans[j].policy = "inactive" \/ Updates(l) \/ run.entries[l][r] = served[r]

(* record_response: whether a job may use what it was answered *)
AcceptsResponse(j, r) ==
  LET l == run.plans[j].lock
  IN \/ run.plans[j].policy = "inactive"
     \/ run.seen[l][r] # None /\ run.seen[l][r] = served[r]
     \/ run.seen[l][r] = None /\ (Updates(l) \/ run.entries[l][r] = served[r])

(* The jobs run one after the other. *)
Running(j) == run.at = "jobs" /\ j \notin run.done /\ j = First(Jobs \ run.done)

(* A job reads a request once; record_response enters the content in the collector. *)
Fetch(j, r) ==
  /\ Running(j)
  /\ r \in Reads[j] /\ run.read[j][r] = None
  /\ AcceptsResponse(j, r)
  /\ LET l    == run.plans[j].lock
         read == [run EXCEPT !.read[j][r] = served[r]]
     IN run' = IF run.plans[j].policy = "inactive" THEN read
               ELSE [read EXCEPT !.entries[l][r] = served[r], !.seen[l][r] = served[r]]
  /\ UNCHANGED <<served, locks, project, verified, outputs, last, changes>>

Generated(j) ==
  /\ Running(j)
  /\ \A r \in Reads[j] : run.read[j][r] # None
  /\ run' = [run EXCEPT !.done = @ \cup {j}]
  /\ UNCHANGED <<served, locks, project, verified, outputs, last, changes>>

Ended ==
  /\ run' = NoRun(run.plans) /\ last' = run.plans
  /\ UNCHANGED <<served, project, changes>>

(* _publish_or_error: every output, and what was seen for each lock to update, in one *)
(* journal; the intent of a run that succeeded replaces the locks to verify.          *)
Publish ==
  /\ run.at = "jobs" /\ run.done = Jobs
  /\ outputs' = [j \in Jobs |-> [from |-> run.read[j], plan |-> run.plans[j]]]
  /\ locks' = [l \in Locks |->
                 IF Published(l) THEN [is |-> TRUE, entries |-> run.seen[l]] ELSE locks[l]]
  /\ verified' = run.intent
  /\ Ended

(* A refused plan, lock or response, a generation, check or publication that fails: *)
(* nothing is published, and the locks the run verified must exist from now on.     *)
Fail ==
  /\ run.at # "idle"
  /\ verified' = verified \cup run.intent
  /\ Ended
  /\ UNCHANGED <<locks, outputs>>

-----------------------------------------------------------------------------

Unplanned(j) == [lock |-> project[j].lock, option |-> "auto", policy |-> "inactive"]

LockInit ==
  /\ served = [r \in Requests |-> 0]
  /\ locks \in [Locks -> {Missing, [is |-> TRUE, entries |-> served]}]
  /\ project \in [Jobs -> [lock: Locks, option: Options]]
  /\ verified = {} /\ changes = 0
  /\ last = [j \in Jobs |-> Unplanned(j)]
  /\ run = NoRun(last)
  /\ outputs = [j \in Jobs |-> [from |-> Nothing, plan |-> Unplanned(j)]]

LockNext ==
  \/ \E r \in Requests : Serve(r)
  \/ \E l \in Locks : EditLock(l)
  \/ \E j \in Jobs : EditProject(j)
  \/ Begin \/ Open
  \/ \E j \in Jobs : (\E r \in Requests : Fetch(j, r)) \/ Generated(j)
  \/ Publish \/ Fail

LockSpec == LockInit /\ [][LockNext]_lockVars

-----------------------------------------------------------------------------
(* Properties. *)

(* An updated lock records the very content each of its jobs generated from, though *)
(* jobs share it and the servers change between them, and nothing no job read.      *)
RecordsWhatWasRead ==
  [][Publish =>
       \A l \in Locks : Published(l) =>
         LET users == {j \in Jobs : outputs'[j].plan.lock = l}
         IN /\ \A j \in users : \A r \in Reads[j] : locks'[l].entries[r] = outputs'[j].from[r]
            /\ \A r \in Requests :
                 locks'[l].entries[r] # None => \E j \in users : r \in Reads[j]]_lockVars

(* What is published under a lock that is not to be updated was made from the *)
(* content that the lock recorded when the run opened it.                     *)
PublishedAsLocked ==
  [][Publish =>
       \A j \in Jobs : outputs'[j].plan.policy \in ReadOnly =>
         \A r \in Reads[j] :
           run.opened[outputs'[j].plan.lock].entries[r] = outputs'[j].from[r]]_lockVars

(* A job whose lock was verified because its file was there, by the run that published *)
(* its output or by the run before, is not published unverified once the file is gone. *)
StaysVerified ==
  [][Publish =>
       \A j \in Jobs : \A earlier \in {outputs[j].plan, last[j]} :
         /\ earlier.option = "auto" /\ earlier.policy # "inactive"
         /\ earlier.lock = outputs'[j].plan.lock
         => outputs'[j].plan.policy # "inactive"]_lockVars
=============================================================================
