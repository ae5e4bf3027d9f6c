----------------------------- MODULE Ingestion -----------------------------
(***************************************************************************)
(* Ingestion of a workspace's files (apps/api, ingest_service.py): POST    *)
(* /ingest answers 202 and leaves a background task behind; both go by one *)
(* IngestionProgress per workspace, kept in the process's memory.          *)
(*                                                                         *)
(* All requests and tasks share one event loop and interleave at awaits.   *)
(* The actions below are the stretches between two awaits.  One workspace  *)
(* is enough: the table is keyed by workspace and nothing crosses keys.    *)
(***************************************************************************)
EXTENDS Integers, FiniteSets

CONSTANTS
  Files,     \* ids a file of the workspace may get; an id is never reused
  Requests,  \* bound: POST /ingest requests, each with the task it schedules
  None       \* no entry in _active_ingestions; no file yet

ASSUME IngestionAssumption ==
  IsFiniteSet(Files) /\ IsFiniteSet(Requests) /\ None \notin Files \cup Requests

VARIABLES
  files,     \* rows of the workspace
  deleted,   \* ids of rows deleted again
  described, \* files whose description is committed
  pc,        \* where each request is, and after it its background task
  listed,    \* files its last query found and it has not taken up yet
  current,   \* the file its task works on
  entry,     \* _active_ingestions[workspace]: the request that made it
  progress,  \* the IngestionProgress each request made
  record,    \* run_ingestion's local variable progress
  (* Records the past for the properties; no guard reads it.               *)
  attempts   \* <<task, file, whether it counted as analyzed>>

dbVars == <<files, deleted, described>>
taskVars == <<listed, current, record>>
vars == <<dbVars, taskVars, pc, entry, progress, attempts>>

Ended == {"done", "lost"}
Processing == {"files", "file"}
Scheduled == {"scheduled", "list", "grace"} \cup Processing

Pending(p) == progress[p].total - progress[p].analyzed - progress[p].failed
Running(p) == Pending(p) > 0

-----------------------------------------------------------------------------

Init ==
  /\ files \in SUBSET Files /\ deleted = {} /\ described = {}
  /\ pc = [r \in Requests |-> "idle"]
  /\ listed = [r \in Requests |-> {}]
  /\ current = [r \in Requests |-> None]
  /\ entry = None
  /\ progress = [r \in Requests |-> [total |-> 0, analyzed |-> 0, failed |-> 0]]
  /\ record = [r \in Requests |-> None]
  /\ attempts = {}

Goto(r, from, to) == pc[r] = from /\ pc' = [pc EXCEPT ![r] = to]

(* A request that meets a running ingestion reports that one's counts; its *)
(* route sees pending > 0 and schedules a task all the same.               *)
Trigger(r) ==
  /\ Goto(r, "idle", IF entry # None /\ Running(entry) THEN "scheduled" ELSE "query")
  /\ UNCHANGED <<dbVars, taskVars, entry, progress, attempts>>

(* list_without_description, as the database answers it.                   *)
Query(r) ==
  /\ Goto(r, "query", "store")
  /\ listed' = [listed EXCEPT ![r] = files \ described]
  /\ UNCHANGED <<dbVars, current, record, entry, progress, attempts>>

StoreFirst(r) ==    \* mutant: the entry is made before the list is looked at
  /\ Goto(r, "store", IF listed[r] = {} THEN "done" ELSE "scheduled")
  /\ entry' = r
  /\ progress' = [progress EXCEPT ![r].total = Cardinality(listed[r])]
  /\ UNCHANGED <<dbVars, taskVars, attempts>>

(* The answer to the query arrives.                                        *)
Store(r) ==
  /\ Goto(r, "store", IF listed[r] = {} THEN "done" ELSE "scheduled")
  /\ IF listed[r] = {} THEN UNCHANGED <<entry, progress>>
     ELSE /\ entry' = r
          /\ progress' = [progress EXCEPT ![r].total = Cardinality(listed[r])]
  /\ UNCHANGED <<dbVars, taskVars, attempts>>

StartUnchecked(r) ==    \* mutant
  /\ Goto(r, "scheduled", "list")
  /\ record' = [record EXCEPT ![r] = entry]
  /\ UNCHANGED <<dbVars, listed, current, entry, progress, attempts>>

(* run_ingestion takes whatever record the table holds by now.             *)
Start(r) ==
  /\ Goto(r, "scheduled", IF entry = None THEN "done" ELSE "list")
  /\ record' = [record EXCEPT ![r] = entry]
  /\ UNCHANGED <<dbVars, listed, current, entry, progress, attempts>>

List(r) ==
  /\ Goto(r, "list", "files")
  /\ listed' = [listed EXCEPT ![r] = files \ described]
  /\ UNCHANGED <<dbVars, current, record, entry, progress, attempts>>

(* The task's query is outside the try: its exception skips the clean-up.  *)
ListFails(r) ==
  /\ Goto(r, "list", "lost")
  /\ UNCHANGED <<dbVars, taskVars, entry, progress, attempts>>

TakeFile(r) ==
  /\ Goto(r, "files", "file")
  /\ \E f \in listed[r] :
       /\ current' = [current EXCEPT ![r] = f]
       /\ listed' = [listed EXCEPT ![r] = @ \ {f}]
  /\ UNCHANGED <<dbVars, record, entry, progress, attempts>>

Attempt(r, analyzed) == attempts' = attempts \cup {<<r, current[r], analyzed>>}

(* create only flushes; the session then closes without a commit, so the   *)
(* description it inserted is rolled back.                                 *)
Describe(r) ==
  /\ current[r] \in files
  /\ Goto(r, "file", "files")
  /\ progress' = [progress EXCEPT ![record[r]].analyzed = @ + 1]
  /\ Attempt(r, TRUE)
  /\ UNCHANGED <<dbVars, taskVars, entry>>

FailUncounted(r) ==    \* mutant
  /\ Goto(r, "file", "files")
  /\ Attempt(r, FALSE)
  /\ UNCHANGED <<dbVars, taskVars, entry, progress>>

(* The download, the analyzer or the insert raises: always when the file   *)
(* was deleted meanwhile.                                                  *)
Fail(r) ==
  /\ Goto(r, "file", "files")
  /\ progress' = [progress EXCEPT ![record[r]].failed = @ + 1]
  /\ Attempt(r, FALSE)
  /\ UNCHANGED <<dbVars, taskVars, entry>>

FinishWhenComplete(r) ==    \* mutant: goes by the shared counts
  /\ Goto(r, "files", "grace")
  /\ listed[r] = {} /\ Pending(record[r]) = 0
  /\ UNCHANGED <<dbVars, taskVars, entry, progress, attempts>>

Finish(r) ==
  /\ listed[r] = {}
  /\ Goto(r, "files", "grace")
  /\ UNCHANGED <<dbVars, taskVars, entry, progress, attempts>>

PopOwn(r) ==    \* mutant: leaves the entry to the request that made it
  /\ Goto(r, "grace", "done")
  /\ entry' = IF entry = r THEN None ELSE entry
  /\ UNCHANGED <<dbVars, taskVars, progress, attempts>>

(* The finally block, a minute later: pop(workspace_id, None).             *)
Pop(r) ==
  /\ Goto(r, "grace", "done")
  /\ entry' = None
  /\ UNCHANGED <<dbVars, taskVars, progress, attempts>>

(* A query of a request raises: 500.                                       *)
RequestFails(r) ==
  /\ Goto(r, "query", "done")
  /\ UNCHANGED <<dbVars, taskVars, entry, progress, attempts>>

Upload(f) ==
  /\ f \notin files \cup deleted
  /\ files' = files \cup {f}
  /\ UNCHANGED <<deleted, described, taskVars, pc, entry, progress, attempts>>

(* DELETE of the file; its description goes with it.                       *)
Delete(f) ==
  /\ f \in files
  /\ files' = files \ {f} /\ deleted' = deleted \cup {f}
  /\ described' = described \ {f}
  /\ UNCHANGED <<taskVars, pc, entry, progress, attempts>>

(* "Delete the existing description and queue re-analysis": nothing queues *)
(* anything, the next ingestion is to find the file undescribed.           *)
Reanalyze(f) ==
  /\ f \in files
  /\ described' = described \ {f}
  /\ UNCHANGED <<files, deleted, taskVars, pc, entry, progress, attempts>>

(* The API process restarts: the table and all tasks are gone.             *)
Restart ==
  /\ \E r \in Requests : pc[r] \notin Ended \cup {"idle"}
  /\ pc' = [r \in Requests |-> IF pc[r] = "idle" THEN "idle" ELSE "done"]
  /\ entry' = None
  /\ UNCHANGED <<dbVars, taskVars, progress, attempts>>

(* What the event loop runs for request r once it has arrived.             *)
Task(r) ==
  \/ Query(r) \/ Store(r) \/ RequestFails(r)
  \/ Start(r) \/ List(r) \/ ListFails(r) \/ TakeFile(r)
  \/ Describe(r) \/ Fail(r) \/ Finish(r) \/ Pop(r)

Next ==
  \/ \E r \in Requests : Trigger(r) \/ Task(r)
  \/ \E f \in Files : Upload(f) \/ Delete(f) \/ Reanalyze(f)
  \/ Restart

SafeSpec == Init /\ [][Next]_vars

(* Every await of a request or task returns or raises, and the event loop  *)
(* resumes it.  Requests, uploads, deletions and restarts need not happen. *)
Spec == SafeSpec /\ \A r \in Requests : WF_vars(Task(r))
-----------------------------------------------------------------------------
(* Properties.                                                             *)

TypeOK ==
  /\ files \subseteq Files /\ deleted \subseteq Files \ files /\ described \subseteq files
  /\ pc \in [Requests -> {"idle", "query", "store"} \cup Scheduled \cup Ended]
  /\ listed \in [Requests -> SUBSET Files] /\ current \in [Requests -> Files \cup {None}]
  /\ entry \in Requests \cup {None}
  /\ progress \in [Requests -> [total : Nat, analyzed : Nat, failed : Nat]]
  /\ record \in [Requests -> Requests \cup {None}]
  /\ \A r \in Requests : pc[r] \in {"list", "grace"} \cup Processing => record[r] \in Requests
  /\ \A r \in Requests : pc[r] = "file" => current[r] \in Files
  /\ attempts \subseteq Requests \X Files \X BOOLEAN

Counted(p, a) == {t \in attempts : record[t[1]] = p /\ t[3] = a}

(* Tasks that share a record never lose a count: its analyzed and failed   *)
(* are the attempts of all the tasks that took it up (run_ingestion).      *)
CountsAreAttempts ==
  \A p \in Requests :
    /\ progress[p].analyzed = Cardinality(Counted(p, TRUE))
    /\ progress[p].failed = Cardinality(Counted(p, FALSE))

(* An entry always has a task that will clean it up, that of the request   *)
(* that made it, unless that task's own query raised: only then can a      *)
(* workspace report an ingestion that nobody runs.                         *)
EntryIsOwned ==
  entry # None => pc[entry] \in Scheduled \cup {"lost"}

(* A task that got as far as its files removes the record it counts in,    *)
(* whatever other tasks and requests do meanwhile (the finally block).     *)
RecordRemoved ==
  \A r \in Requests : pc[r] \in Processing ~> entry # record[r]

(* Every request and the task it left behind come to an end.               *)
TasksEnd ==
  \A r \in Requests : pc[r] # "idle" ~> pc[r] \in Ended

(* "As files are analyzed, their status badge live-updates from pending    *)
(* ... to ready" (docs/Plan/UI.md:222): a file counted as analyzed has a   *)
(* description, which is what ready is told by (routers/v1/files.py).      *)
AnalyzedIsReady ==
  \A t \in attempts : t[3] /\ t[2] \in files /\ pc[t[1]] = "grace" => t[2] \in described

(* "Keep progress around for a short time for polling, then clean up"      *)
(* (run_ingestion): while a task still has files to do, its progress can   *)
(* be polled.                                                              *)
PollableWhileRunning ==
  \A r \in Requests : pc[r] \in Processing /\ Running(record[r]) => entry # None
=============================================================================
