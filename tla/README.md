# A TLA+ model of VERA

VERA answers questions about data files. A user keeps files in a workspace;
an ingestion describes them; a *run* lets language-model agents plan, write
code, execute it in a sandbox, judge the result, and extend or roll back the
plan until the answer is good enough or a budget is spent. This directory
models the parts of it in which order, failure or repetition decide
correctness, checks them with TLC and proves the safety of the loops with
TLAPS.

Paths below are relative to the repository; `core` stands for
`packages/core/src/vera_core`.

## 1. Inventory

| Component | State | Operations | Hard behaviour | What makes it correct |
|---|---|---|---|---|
| Precise run: `core/loop/runner.py`, `edges.py`, `nodes/` | `RunState`: plan, script, observations, checkpoints, verdicts, routes, round, debug attempts, cost, abandoned branches; `CycleDetector` history | one node per super-step of a LangGraph graph, and the edge chosen after it | long sequences of fixes, extensions and backtracks over sparse checkpoints; three counters that end the run; exceptions at every await | indices never reused; script and observation always belong together; the run ends, with a status that tells whether evidence was kept |
| Policies: `core/policies/` | none (`CycleDetector` apart) | supersede steps, fingerprint, budgets, truncation, parsing | off-by-one limits | limits taken where the comments say |
| Research run: `core/loop/research.py` | sub-questions with statuses, report, gap round; a child `RunState` each | generate, answer each by a child run, report, refine | partial failure of children, caps tested in two places, loops in loops | one child per question, DONE only with evidence, final report over everything |
| File analysis: `core/loop/nodes/analyze.py` | descriptions, cost | script per file, up to two fixes, fallback | | a description per file, whatever fails |
| Agents, prompts: `core/agents`, `core/prompts` | none | one model call and a schema check | | any schema-conforming answer or an exception |
| Ingestion: `apps/api/.../ingest_service.py`, `routers/v1/ingest.py` | in-memory progress per workspace; descriptions in the database | trigger, background task, status | check-then-set across an await, two tasks on one progress record, a late clean-up, a session nobody commits | progress tells what is stored |
| Files and workspaces: `upload_service.py`, `workspace_service.py`, `routers/v1/files.py` | objects in storage, rows in the database | upload, delete, download | two stores without a common transaction, check-then-insert | no row without object, no lost object |
| Provider connections, API and CLI: `provider_service.py` (both) | connection rows, secrets in the vault or keyring | register/connect, revalidate, disconnect | stale row written after an await, a limit counted before an insert | limit kept, a secret for each connection |
| Agent defaults: `settings_service.py` | rows per user | get (creates), update, reset | check-then-insert, several upserts | one row per tier |
| Web run stream: `apps/web/lib/hooks/useRunStream.ts`, `lib/stores/runStore.ts` | event buffer, last sequence number, store | message, flush, rehydrate, error, reset | lost, skipped and repeated events, reconnects racing fetches | the store is the replay of the run's log |
| Web workspace pages: `(app)/workspaces/`, `components/workspace/` | rows of the grid, the upload zone and the table, staged files, the drawer | upload, remove, analyze, create, re-analyze | answers that edit a local copy in the order they arrive; patches by index; a dialog edited while it is sending | what is shown is what the server has |
| Web run page: `(app)/runs/[runId]/`, `components/run/` | run polled, panes, selection | poll, select, cancel question | late answers for another step, a poll that is spent | panes show the step they are labelled with; an end is shown |
| Web runs list and new run: `(app)/runs/page.tsx`, `runs/new/page.tsx` | address, search text, rows; form with limits and ceiling | filter, search, page, retry; fill in, submit | a debounced search against the address; answers that overwrite a form | the user's last wish is kept |
| Web settings, saved analyses: `(app)/settings/`, `(app)/saved-analyses/` | forms, lists shown ahead of the server, keys in the browser | save, reset, register, remove, invite, pause, delete | two stores written one after the other, overlapping saves, whole-list rollbacks | form and lists agree with the server once nothing is under way |
| Web sign-in and routing: `middleware.ts`, `(app)/layout.tsx`, `(auth)/`, `auth/callback` | cookies, request, form | visit, log in, sign up, reset, sign out | token refreshed within a request, session ended elsewhere, redirect after redirect | a good session is let through; navigation ends |
| Sandbox, LLM clients: `packages/sandbox`, `packages/llm` | processes, connections | execute, complete | timeouts against late answers, retries | a result, a timeout or an error, once |
| Database layer, CLI commands, remaining web components, empty packages | | | | see `PROJECT.json`, "components" |

Components meet in few places: `run_research` calls `run_precise` once per
sub-question and learns only the child's final `RunState` or an exception; both
emit events to an event bus that the web store replays; ingestion and uploads
share the database and the object store; the web application talks to the API,
and to its auth server, by requests that a page sends and receives on its own;
everything else passes values.

The hazards of this code, each at its line and with the property that would
catch it, are listed in `PROJECT.json` under "hazards"; one that no property
covers says why.

## 2. Modules

```
RunLifecycle           what a precise run promises its caller
   ^  refinement              ^ INSTANCE (the child of a sub-question)
LoopPrecise            Research
   ^                          ^
MCLoopPrecise          Research_proofs
LoopPrecise_proofs
   (DataFacts: extrema, enumerations, induction over finite sets)

Ingestion <- Ingestion_proofs

RunStore <- RunStream <- MCRunStream
                ^ RunStream_proofs

WorkspaceFiles  NewWorkspace  DescriptionDrawer  RunView <- MCRunView
AgentDefaults   ProviderKeys  TeamMembers        Session
RunsList        NewRun        SavedAnalyses      Profile
   ^ all EXTENDed by MCWebApp
   ^ Workspaces_proofs (WorkspaceFiles, NewWorkspace)
   ^ Settings_proofs (ProviderKeys, TeamMembers, SavedAnalyses,
                      AgentDefaults, Profile)
MCWebApp, Workspaces_proofs, Settings_proofs <- WebApp_proofs
     (Session, DescriptionDrawer, NewRun, RunView, RunsList, the application)
```

### LoopPrecise: `run_precise`

One action is one LangGraph super-step: a node of `core/loop/nodes/`, with
`pc'` the node its edge (`core/loop/edges.py`, the wrappers in `runner.py`)
selects. A node sees and changes `RunState` alone: the graph runs one node at a
time, so no finer interleaving exists.

| State | Code |
|---|---|
| `pc` | the graph's next node; `"end"`, or `"raised"` when an exception leaves `ainvoke` |
| `plan`, `superseded` | `RunState.plan`, split by `superseded`; `plan` is `active_plan` |
| `script`, `scriptCheckpoints` | the artifact and its copies by step index; an artifact is its serial number |
| `observations`, `lastObservation`, `observationCheckpoints` | observations reduced to the script they belong to and `succeeded` |
| `sufficient`, `decision`, `round`, `abandoned` | last verdict, last route, round counter, abandoned branches |
| `debugAttempts`, `cost`, `history`, `status` | budgets, `CycleDetector._history`, `RunState.status` |
| `artifacts`, `crashes`, `everSucceeded`, `steps` | past recorded for properties; no guard reads them |

Agents are nondeterministic within their schemas: the planner answers any list
of texts (restating the plan, with other white space, or not), a script
succeeds or crashes (a timeout is a crash, as in `execute`), the verifier says
anything, the router names any index at all, also a superseded or unknown one.
Every node that awaits may raise (`Raise`); only `truncate` awaits nothing.
Texts are a small set with the equivalence `_norm` induces, costs are natural
numbers.

### RunLifecycle: what callers may rely on

The abstract specification: rounds are only spent on runs that hold evidence;
only a judged run can lose it; SUCCEEDED means evidence was kept, FAILED that
none was. `LoopPrecise!ImplementsLifecycle` is the refinement, with
`usable` mapped to "some kept observation succeeded", which is what
`finalize.py:27` computes. Degraded runs are included: a run that gives up with
evidence succeeds.

### Research: `run_research`

One action per stage of the coroutine: prepare (analyze and retrieve), generate
and append sub-questions, start the child of the next pending one, the child's
steps, resolve, write the report and decide on another gap round, finish. The
child is an INSTANCE of `RunLifecycle`, so what is shown of the parent holds of
any implementation of the child's promises. An exception anywhere ends the run;
a child that raised leaves its sub-question "running", as in the code.

### Ingestion: `ingest_service.py`

Requests and background tasks interleave at awaits in one event loop. `pc[r]`
follows request `r` through `trigger_ingestion` ("query", "store") and then its
task through `run_ingestion` ("scheduled", "list", "files", "file", "grace");
"lost" is a task whose own query raised, outside the `try`. One action is the
stretch between two awaits, so the check in `Trigger` and the assignment in
`Store` are separate steps, as in the code.

| State | Code |
|---|---|
| `entry` | `_active_ingestions[workspace]`, as the request whose record it is |
| `progress` | the `IngestionProgress` of each request |
| `record` | the local `progress` of each task |
| `listed`, `current` | `pending_files` not taken up yet, and the file in hand |
| `files`, `deleted`, `described` | committed rows of files and descriptions |
| `attempts` | past recorded for properties |

`described` starts empty and stays so: the service is the only writer of
descriptions, and its sessions are closed without a commit. The variable is
there because the queries, the badge and `Reanalyze` go by it. One workspace is
enough, since the table is keyed by it. The status request only reads
`progress`. The model is of a database role that row-level security does not
bind: a task's sessions set no `app.tenant_id`, so for a bound role
(`supabase/migrations/0009_workspace_rls.sql`) its query would see no file.

### RunStream and RunStore: the events of a run

`RunStore` is the reducer `applyEvent` as a function of state and event.
`RunStream` has the server's log with sequence numbers, the browser's
EventSource (`conn`, `cursor` for Last-Event-ID), the hook's refs (`lastSeq`,
`resuming`, `pending`, `frame`) and rehydrations under way (`fetches`). Events
are delivered in order behind the cursor, or skipped, or unreadable; the
connection drops and comes back or gives up; a rehydration is answered with the
state of some moment, in any order, also after the page has moved on to another
run. `exact` records whether anything happened that the code does not repair.
The EventSource is external and modelled as the hook uses it. No page of this
commit mounts the hook; the run page polls instead.

### The pages of the web application

Each page is a module. A request is sent, answered by the server at some later
moment and received at a later one still, so that the user and other requests
come between. A request that reads may fail; one that changes something may be
refused, or be carried out and its answer lost, which the page takes for a
refusal. The failure the page learns of comes after the server is done: a request
carried out only after its page has given it up is left out. Where one handler
makes two requests (`settings_service.py:83`, `87`, `105`, `106`) or writes two
stores (`ProviderKeyCard.tsx:109`, `126`, `158-160`), each is an action and may fail
by itself.
`useResource` and the API's own handlers behind the Next.js routes are modelled
by what the pages rely on: a new request supersedes the one before it, whose
answer is dropped.

| Module | Code | State worth naming |
|---|---|---|
| `WorkspaceFiles` | `workspaces/[workspaceId]/page.tsx`, `UploadDropzone.tsx` | `files` is the page's copy of the list; `slot` the index each upload patches |
| `NewWorkspace` | `workspaces/page.tsx`, `NewWorkspaceModal.tsx` | `creation` is `handleSubmit` under way with the files it took along |
| `DescriptionDrawer` | `DescriptionDrawer.tsx` | `fetch` of the file the drawer is on, `reanalysis` of the one it was asked for |
| `RunView` | `runs/[runId]/page.tsx`, `PlanTimeline`, `ObservationPane`, `StatusBar` | `detail`, the state shown, against `backend`; `paneReq` per pane |
| `RunsList` | `runs/page.tsx` | `searchParams`, the address; `navigation` on its way; `searchTimer` |
| `NewRun` | `runs/new/page.tsx` | `maxRounds`, `maxCost`, `costTouched` and the limits adopted late |
| `AgentDefaults` | `settings/agent-defaults/page.tsx`, `SaveButton.tsx`, `settings_service.py` | `settings`, the last answer; `values`, the form |
| `ProviderKeys` | `settings/api-keys/page.tsx`, `ProviderKeyCard.tsx`, `provider_service.py` | `row` at the server, `keyStore` in IndexedDB |
| `TeamMembers`, `SavedAnalyses` | `settings/team/page.tsx`, `saved-analyses/page.tsx` | the list shown, and in each change under way the list it goes back to |
| `Profile` | `settings/profile/page.tsx` | the name from the session and from each refresh; the mode it never reads |
| `Session` | `middleware.ts`, `(app)/layout.tsx`, `(auth)/`, `auth/callback`, `routers/v1/auth.py` | `token`, the cookies; `request`, the navigation under way |

`useResource`, the auth provider, the key store, and the files of `apps/web/lib`
that hold data and configuration are not among the sources of this commit;
definitions that stand for them are marked external in the map. The API routers of this
commit for runs and saved analyses are empty and there is none for the team, so those pages are
modelled against the contract they are written for.

Several properties name an overlap under which they do not hold: `shifted`,
`crossed`, `moved`, `raced`, `hurried`, `overlapped`, `cutShort` and the like
record that it happened and are read by no guard. Others name a failure the page
cannot know the effect of, an answer lost or half of two writes made: `orphans`,
`unheard`, `unseen`, `unsure`, `lost`. Each is a place where the page may show
something else than the server has, and the property is what is left to rely on
in the model beside them. Where the list is of people or rows (`mixed`,
`tangled`, `orphans`, `lost`), the exception is for those alone and the rest of
the page is held to the server. In short:

| Property | Excepted |
|---|---|
| `RowsReportOwnUpload` | uploads whose row's index a removal shifted |
| `GridShowsEachFileOnce` | an upload and an ingestion under way together; a file stored whose answer was lost |
| `TableIsServer` | a workspace whose creation failed or went unheard after it was made; a list loading during a creation |
| `ShowsOwnNewest` | the drawer moved to another file, or fetching, during a reanalysis; a reanalysis carried out unheard |
| `CleanFormIsServer` | overlapping saves and resets; half of one stored and the rest failed; an answer lost; a provider removed elsewhere |
| `CleanNameIsServer` | a save whose answer was lost |
| `KeysMatchConnections` | the row at which a save or a removal was cut short by a reload, a lost answer, an error or a failing browser store; cleared site data |
| `TeamIsServer`, `SavedIsServer` | the person or row whose change was taken along by another's rollback, changed twice at a time, or changed unheard; an invitation that crossed the list |
| `FiltersKept` | a filter chosen before a search fires, a wish overtaken by another on its way, the search text "all" |
| `StoreIsReplay` | events lost or unreadable, until an exact rehydration |

The search box's "all" is an example of a conversion: `updateParams` drops every
parameter of that value, so the search leaves the address without a text.
A person invited again while already a member is one person in `TeamMembers`,
though the page then has two rows; the team's and the saved analyses' servers are
external.

## 3. What TLC checks

| Run | Question | Bounds | Result |
|---|---|---|---|
| `precise` | Do plan, checkpoints, abandoned branches, budgets and the promised lifecycle survive every sequence of answers? | 3 texts of which two differ in white space only, up to 2 steps per planner answer, 3 rounds, 1 debug attempt, cost limit 11 at 1 per node, cycle after 2 equal plans | 1.2 million states, holds |
| `precise_live` | Does every run end, within the recursion limit? | 1 step per answer, 3 rounds, 2 debug attempts, cost limit 16, cycle after 3 | holds |
| `research` | One child per question, honest statuses, complete report, termination | 3 questions, generator answers of up to 2, 2 gap rounds, children of up to 2 rounds | holds |
| `cost_budget` | Does no round start once a budget is spent (`should_terminate`)? | cost limit 4 | **violated** |
| `failure_text` | Does FAILED mean that no execution succeeded (`finalize.py:32`)? | no cost limit in reach | **violated** |
| `ingestion` | Are counts exact, entries cleaned up, tasks finite, whatever requests, uploads, deletions and restarts do? | 2 requests with their tasks, 2 files | 267,068 states, holds |
| `ingestion_ready` | Does a file counted as analyzed become ready (`docs/Plan/UI.md:222`)? | the same | **violated** |
| `ingestion_polling` | Can progress be polled while files are left (`ingest_service.py:144`)? | the same | **violated** |
| `run_stream` | Is the store the replay of the run's events, through drops, skips, repeats and rehydrations in any order? | a log of 7 events with a backtrack, 2 runs shown one after the other, 1 gap, 2 drops, 1 rehydration | 1,851,871 states, holds |
| `web_app` | Does each of twelve pages show what the server has, keep what the user asked for, and come to an end? | 2 files, rows, people, keys, analyses, names, changes under way; 3 polls over 5 states of a run; 1 revocation, 1 failed read | 442,172 states, holds |
| `no_output` | Does "completed but produced no output" mean that (`docs/Plan/UI.md:785`)? | the same run | **violated** |
| `reset_link` | Does the mailed link open the form (`forgot-password/page.tsx:61`)? | as in `web_app` | **violated** |

Why the bounds are enough: three rounds allow two backtracks, or a backtrack
and an extension in either order, before a last plan, which is what it takes
for sparse checkpoints, reused indices and clamped targets to meet; two drafts
let one answer add several steps under one checkpoint; a cost limit inside the
third round makes the cost exit happen both before and after debug attempts.
Two requests are what it takes for tasks to share a record (the second request
meets a running one) or to replace each other's (both pass the check before
either stores); two files let one be deleted while another is in hand.
The proofs of section 4 then remove the bounds.

A gap and a rehydration are one of each what it takes for the answer of a fetch
to meet events received before, behind and after it, and a second run for it to
arrive at the wrong one; two drops let a connection be lost and the attempt to have
it again fail for good. In `web_app` two of each kind are what two
answers in the wrong order, or an answer on the wrong row, need; three polls
exceed the two a run needs to be seen on its way and ended.

The twelve pages run under one configuration: `page` is chosen at the start and
only that page moves. The pages share no state but the server's, which each
module keeps for itself, so a behaviour of the application, seen by one page, is
a behaviour of that page's module: the sum of their state spaces is checked, not
the product. What one page does to another is an action of the other
(`RemoveProvider` in `AgentDefaults`, `Revoke` in `Session`).

`CHECK_DEADLOCK FALSE` is used because the runs really stop: in `"end"`,
`"raised"`, `"succeeded"`, an ingestion when nobody asks for another, a stream
that is closed, and a page whose user does nothing.

Every property of a passing run has a mutant of a mapped definition (in the
modules, marked "mutant") that breaks it: an index taken from the active plan,
a debug fix that forgets its checkpoint, a checkpoint kept at the backtrack
index, a debug budget not reset, a round limit off by one, an unmapped edge
name, and so on.

### Fairness

`LoopPrecise!Spec` has weak fairness of `Next`: `ainvoke` awaits one node after
another, and every await returns or raises because the model clients and the
sandbox have timeouts of their own. Nothing is assumed about what agents
answer. `Research!Spec` adds weak fairness of a child's ending, which is
`LoopPrecise`'s `Terminates`; `RunLifecycle` has no progress of its own.
`Ingestion!Spec` is weakly fair to each request that has arrived and to its
task: the event loop resumes whatever has been answered, and queries, downloads
and sleeps return or raise. Arrivals, uploads, deletions and restarts need not
happen. `RunStream!StreamLive` is weakly fair to the animation frame that was
asked for: the browser runs it unless it is cancelled. `MCWebApp!WebSpec` is
weakly fair to the run page's interval, to the answers of its requests and
their receipt, and to the steps of a navigation, which the server takes without
the user. No user does anything by fairness.

### Findings

* **Cost limit between rounds** (`cost_budget`). `should_terminate` documents
  that the run must stop before the next round; nothing calls it.
  `check_budget` is asked only after a *failed* execution (`edges.py:21`), so a
  run whose executions succeed keeps spending until `max_rounds`.
* **"no successful execution"** (`failure_text`). The test behind this error
  text is over the observations a backtrack left. A run can fail with it after
  executions that succeeded.
* **Analyzed but never ready** (`ingestion_ready`). `run_ingestion` counts a
  file as analyzed after `create`, which flushes; the session then closes
  without a commit and the description is rolled back. The badge never turns
  ready, and every further ingestion analyzes the same files again.
* **The wrong entry is removed** (`ingestion_polling`). A finished task removes
  the workspace's entry after a minute, whoever's it is by then. An ingestion
  with files left then reads "idle", and a further request starts another
  beside it.

* **"No output" before there was any** (`no_output`). A pane is fetched once
  per step. Fetched before its step ran, it stays empty, and the page says the
  script completed without output once the run has moved on.
* **A reset link to no page** (`reset_link`). The mail leads to
  `/auth/reset-password`; the form is at `/reset-password`. The links to
  `/auth/forgot-password` lead nowhere either.

Noted, not counted as findings: `max_wall_clock_s` is never read by the loop;
a planner that rewords a step duplicates the plan (documented at
`plan.py:27`); `run_research` succeeds even if every child failed, and its
total cost is not bounded by `max_cost_usd`; a child's exception loses its
cost; a request that meets a running ingestion schedules a second task on the
same record, so its counts exceed `total` and `pending` goes below zero (the
counts themselves are exact, `CountsAreAttempts`); an entry whose task failed
in its own query reads "running" until a restart; `reanalyze` queues nothing.
In the web application: "Changes saved" is shown after a failed save too, since
the handler that `SaveButton` awaits has caught the error; answering "Yes" to the
cancel question only closes it (`runs/[runId]/page.tsx:349`); the notice that
assigned providers have been removed cannot show
(`agent-defaults/page.tsx:189-196`); the first event after a reconnect is not
checked for a gap (`useRunStream.ts:103-110`, against `docs/Plan/UI.md:538`);
`UploadDropzone` starts its uploads inside a state updater (lines 77-86), which
a strict-mode rendering may run twice; "Reset to recommended" first sets the
cap of the recommended rounds and only when pressed again the recommended cost
(`runs/new/page.tsx:120-124` with 82-86); a new run's list shows its first
workspace as chosen while none is; every save of the profile writes the mode
shown and a fixed time zone, and a refresh overwrites a name typed meanwhile;
team and saved analyses go back to a whole list of an earlier moment, so the
failure of one change may undo another on screen.

## 4. What is proved

Every invariant and every action property of the passing runs is a theorem of
the specification the run checks, or of the page's own specification, of which
the application's behaviours are behaviours (`PagesRunAlone`). What remains with
TLC is liveness.

All theorems are for arbitrary constants under the named assumptions of the
modules: texts with a normalisation, naturals, budgets positive where
`RunBudget` says `ge=1`, and what the code fixes. `LimitsAssumption` (the
recommended rounds lie on the slider), `DefaultAssumption` and `ModeAssumption`
(what is shown first is a value of the form), `InvitedAssumption`,
`FiltersAssumption` and `AnalysesAssumption` hold of the pages' own constants.
`UploadsAssumption` and `IngestionAssumption` say that finitely many files and
requests are looked at, `LogAssumption` that a run's log ends with its one
terminal event. The others give bounds and enumerations their types. TLC
evaluates each of them on a run.

**LoopPrecise** (`LoopPrecise_proofs`). The safety
properties of the run `precise`, and the recursion limit, are theorems of
`SafeSpec`. None is inductive alone; the argument is in two layers.

1. *Plan.* `IndexBound` says that every index ever used is below `NextIndex`
   and that active indices increase along the plan, so a backtrack to `j` keeps
   exactly a prefix. From it follow `IndexNamesOneStep`, `PlanHistoryKept` and
   the partition of the superseded steps by abandoned branches; checkpoints are
   keyed by active indices or 0.
2. *Recovery.* `PairInv` relates each script checkpoint to the observation
   checkpoint under the same key, depending on `pc`: between `code` and a
   successful execution the newest key is the one exception. `RoundInv` bounds
   the round by `pc`; `CrashInv` counts crashes against debug attempts;
   `PhaseInv` relates status and evidence to `pc`. Their conjunction,
   `RecoveryInv`, is preserved by every action (one lemma each) and gives
   `ResumesFromMatchingPair`, `RoundArmUnreachable`, `CrashExitSpentBudget` and
   each step of the refinement `ImplementsLifecycle`. `StepInv` bounds
   `steps` by a function of `pc`, round and debug attempts, which gives
   `WithinRecursionLimit`.

`DataFacts` holds what several proofs need of data: that `Min` and `Max` of the
community modules return a least and a greatest member, what enumerating a
finite set and removing an element of a sequence keep, and `SetInduction`:
a set of natural numbers that holds 0 and is closed under successor holds them
all. Induction over data is stated through a set instead of a predicate, since
the provers cannot instantiate an operator.

**Research** (`Research_proofs`). `ResearchInv` adds to the type invariant and
the properties what the parent relies on of a child (`ChildInv`: succeeded with
evidence, failed without) and where its loop stands (`LoopInv`: a report
covering everything when a gap round begins or the run finishes). It yields
`OneChildEach`, `DoneIsBacked` and `ReportIsComplete` for every budget.
`AnswersKept` follows from it step by step (`AnswersAtRest`): the generator
appends behind what is there (`AddedInCap`), and a child is started and resolved
for a sub-question that is not resolved yet.

**Ingestion** (`Ingestion_proofs`). `IngestionInv` adds `AttemptInv` to the type
invariant: the attempts are finitely many, none belongs to a task that has not
listed its files yet, and none is of a file the task still has before it or in
hand. So an attempt is always a new one, and the cardinality of the attempts a
record counts grows by exactly one; hence `CountsAreAttempts`.
`EntryIsOwned` is inductive beside the types. Both hold for any number of
requests and restarts.

**RunStream** (`RunStream_proofs`). `StoreIsReplay` speaks of what `ApplyAll`, a
recursive function, computes for every queue. The proof reads the function as a
path of stores (`Path`): a path exists for every length (by `SetInduction`), so
applying an event more is one reducer step (`ApplyOne`), and a log's replay grows
with each event. `StreamInv` is the types, `IsStore` (at most one step is the one
output and verdicts go to, kept by every event of the reducer in any state) and
`QueueLeads`: the queue leads from the store to the last event received. An
animation frame, a closed stream or a new event moves events from one side of
that equation to the other; a lost event, an unreadable one or an inexact
rehydration clears `exact`.

**The web application.** The theorems are about each page's own specification
and hold for any number of files, rows, polls, requests and revocations.
`PagesRunAlone` carries them over to the application: a step of one page leaves
the others' variables alone, so each page's part of a behaviour of `WebSpec` is
a behaviour of that page. `WebTypesHold`, `ListsAreServerHolds` and
`CleanFormsAreServerHolds` are theorems of `WebSpec` by it.

* `ValidSessionNotBouncedHolds` rests on `RouteInv`: a request that the
  middleware has let through to a page of `(app)` carries a good token until the
  session is cut off. A redirect hands the browser no new token (`SendAway`), so the
  request that follows refreshes the old one again; the auth server's reuse
  interval, which lets it, is assumed.
* `CeilingKeptHolds` needs that two numbers of rounds with the same cap are the
  same (`RoundsFromCap`): the slider leaves the default ceiling only by moving.
* `ShowsOwnNewestHolds` adds that a fetch is for the drawer's file, a reanalysis
  for the file it was on when asked, and that between the server's answer and
  its arrival, or for good if it does not arrive, what is shown may be old
  (`FetchInv`, `ReanalysisInv`, `ShownInv`).
* `PaneShowsItsStepHolds`: an answer still wanted is of the step shown now,
  because a change of the step starts the request over (`RefetchKeeps`).
* `FiltersKeptHolds`: filter and search text are followed apart. A wish that
  nothing has overtaken is in the timer, in the address to come, or in the
  address (`ChoiceInv`, `QSettled`, `QDebouncing`, `QNavigating`).
* `RowsReportOwnUploadHolds`: a file has one row, and an unfinished upload has
  its index, until a row at or below it is removed (`OwnRow`).
* `KeysMatchConnectionsHolds` follows the row being saved (`SaveInv`), the row
  being removed (`RemovalInv`) and the stores between them (`StoresInv`), through
  every failure between one store and the other; that a new id is later than every one listed keeps the two apart. TLC has one
  request of the list under way at a time; the theorem has any number, answered
  in any order.

* `TeamIsServerHolds` and `SavedIsServerHolds`: a person (a row) not excepted has
  at most one request under way, is shown as the server has them when there is
  none, and is remembered so by every change of another that does not count them
  among its `others`, so that going back to that list is right for them
  (`TeamShown`, `SavedShown`).
* `CleanFormIsServerHolds`: without an overlap there is one save or one reset,
  sent from what the page showed; once both its writes are done its answer is
  what the server then holds, and stopped between them it is unseen (`NoOverlap`,
  `AnswersAreServer`).
* `CleanNameIsServerHolds` (`NamesAreServer`). The proof showed that the property
  needs no exception for an answer that is still on its way, which it had; it
  is now stated without.
* `GridShowsEachFileOnceHolds`: while uploads and ingestions do not cross, the
  list last received and the answers of finished uploads divide the server's
  files among them, each once (`OneKind`, `GridWhole`). A file's rows are counted
  by the cardinality of its positions.
* `DialogDeliversHolds`: the staged files are the ones uploaded, the ones still to
  upload and the ones dropped since (`StagedInv`).
* `TableIsServerHolds`: the workspace being created is the newest and has no row
  yet (`TableApart`, `RowsRight`); so prepending its row keeps the order. One made
  unheard is an orphan, whose row a later list may show.

Only model-checked: `Terminates` of both loops, `TasksEnd`, `RecordRemoved`,
`CompleteIsFlushed`, `EndIsShown` and `NavigationSettles`. They are liveness under
fairness, which is out of the prover's reach. The safe half of termination is
proved: a natural number that every step makes smaller. For the precise loop it
is `WithinRecursionLimitHolds`, no run is longer than the limit; for the research
run `StagesRunOut`, every stage but a child's own step leaves fewer stages
(`StagesLeft`); for ingestion `TasksRunOut`, every step of a request leaves it
fewer, and no upload, deletion, restart or other task gives it more
(`StepsLeft`). TLC checked both measures on the instances of the runs before
they were proved.

## 5. Not modelled

* *Object store and database of uploads and deletions* (`upload_service.py`,
  `workspace_service.py`). Two uploads of one file, or a failure between the two
  stores, are hazards listed without a property. What the pages and the
  ingestion see of them is modelled.
* *File analysis node.* Its place in the loop and its cost are in `LoopPrecise`;
  the script and its fixes end in a description or none, which is all the loop
  sees.
* *CLI.* A command is one process that reads, asks and writes once; nothing
  runs beside it.
* *Sandbox, LLM clients, agents, prompts.* The loop sees an execution that
  succeeds, crashes, times out or raises, and an answer or an exception.
  Attempts within a call leave no other trace.
* *Database layer and remaining routers.* One statement each; the transactions
  that matter are in `Ingestion`.
* *Web pages and components left out*: the landing page, the sidebar's own state,
  the code pane's view, tabs, sizes, notes that fade, tooltips and popovers, which keep nothing
  another step depends on. The auth server's rotation of refresh tokens and a
  second tab are left out of `Session`; requests of one browser are taken one at
  a time.
* *Texts*: prompts, formatting, truncation of outputs and parsing of answers are
  abstracted where no control depends on them.

Two compositions are not attempted: `LoopPrecise` with `RunStream`, because the
code of this commit emits no events to a subscriber the web application could
reach; and several pages at once, for the reason given in section 3.
