# SolidityGuard in TLA+

SolidityGuard audits Solidity projects. A user uploads contracts; Slither, a
fuzzer and an LLM look at them in background tasks; a page shows the results as
they arrive. These modules model the parts of the system in which something can
go wrong that a unit test would hardly reach: the audit tasks and the ledger
that says what they covered, how a diff selects the functions to audit, the
token budget, the calls to the model, the knowledge base and the retrieval from
it, the Slither and fuzzing tasks, reports, the life of a project, and the
stream of updates to the page. TLC checks them on small instances
(`tlc -config X.cfg M`) and TLAPS proves the safety properties of several of
them for every instance (`tlapm M_proofs.tla`).

Paths below are relative to `src/backend/app` unless they begin with `src/`.

## 1. Inventory of the system

The deployment (`src/docker-compose.yml`) has one API process (FastAPI,
uvicorn), one Celery worker with several processes (prefork) and an embedded
beat, Postgres, Redis (broker, result store, Pub/Sub, budget counters), Chroma,
and a React frontend behind nginx. Messages are acknowledged when a task
starts; no task retries itself and none has a time limit.

| Component | Code | State | Operations | Hard behaviour |
|---|---|---|---|---|
| LLM audit tasks | `tasks/run_llm_audit.py`, `tasks/run_incremental_audit.py`, `services/engine/llm_audit.py`, `models/audit.py` | `audit_runs`, `llm_audit_results`, thread pools | plan, create row, audit files and functions in parallel, save findings, close row, publish, mark failed | partial failure, worker order, crashes, budget running out midway |
| Incremental plan | `services/incremental/` | none | parse diff, merge ranges, map them to functions | line numbers off by one, sections of several files, edits outside functions |
| Unit extraction | `services/engine/solidity_units.py` | none | mask comments and literals, find functions and their lines | braces in literals and comments, declarations without a body |
| Retrieval | `services/embedding.py`, `services/chroma_client.py` | vector store | embed in chunks, query | which errors are seen, retried, swallowed; answers out of order |
| Token budget | `llm/budget/token_budget.py` | counters per process, one Redis key per project | check, charge, load, persist | check-then-act over threads, overwriting between processes |
| LLM calls | `llm/sync_wrapper.py`, `llm/config.py`, `llm/provider/` | semaphore, event loop thread, cached configuration, provider registry | call, reload, retry | lazy singletons, hot reload during calls |
| Project lifecycle | `services/project_service.py`, `tasks/process_upload.py`, `services/engine/upload.py`, `state/project_state.py` | `projects`, `project_files`, upload directory | create, unpack, list, set status | two stores, failures between commits, redelivery |
| Task dispatch | `services/task_dispatcher.py`, trigger functions of the services, `celery_app.py` | messages in Redis | check status, look for a duplicate, publish | status read long before use, check against running tasks only |
| Cleanup | `tasks/cleanup.py` | the same rows and directory | remove old directories and rows | races with running tasks, failure after the files are gone |
| Live updates | `llm/pipeline/stream.py`, `api/v1/events.py`, `src/frontend/src/hooks/useSSE.ts` | Redis channel, connections, timers, query cache | publish, snapshot, subscribe, poll, reconnect, refetch | lost events, reconnection, timers, answers overtaken by events |
| Slither and fuzz tasks | `tasks/run_slither.py`, `tasks/run_fuzzer.py`, `services/engine/slither.py`, `services/engine/fuzzer.py` | result rows, a temporary workspace | find roots, run Slither per root or file; copy, generate tests, run forge, parse its output | one process of many failing, the upload removed meanwhile, output repeated or cut |
| Reports | `services/report_generator.py`, `services/engine/report.py`, `tasks/generate_report.py` | `reports`, report files | aggregate findings, have them rewritten in batches, render | several queries while others commit; answers of the wrong length |
| SWC knowledge base | `tasks/sync_swc.py`, `services/engine/swc_sync.py` | rows and vectors | fetch and validate, upsert, embed | two stores, failure per entry, overlapping syncs |
| Not production code | `llm/pipeline/audit_pipeline.py`, `services/token_budget.py` (legacy alias) | | | |

How they interact. The API creates a project and publishes `process_upload`;
that task makes the project ready. Trigger endpoints read the status and
publish a task. A task reads the project's files, calls tools or the model,
commits rows and publishes an event; the SSE endpoint forwards the event and
the page refetches. Audit tasks share the budget through Redis. The daily
cleanup deletes what all of them use.

What makes each correct:

* audit: every function of every processed file is recorded exactly once with
  one outcome; the counts add up; "completed" is said only of a run in which
  nothing was skipped, failed or unreadable; beside a verdict are all findings or
  none; one bad file does not stop the others; the row is not left running; the
  event comes after the verdict; the task ends;
* budget: overrun by no more than what is in flight; no answered call forgotten;
* lifecycle: status moves along `VALID_TRANSITIONS`; a ready project has its
  files listed; tasks run for ready projects only; cleanup leaves no orphans and
  no rows without files;
* plan and units: the units found are those written; an edited function is
  selected, and an edit that touches none selects all;
* LLM calls: a new limit takes over for good; every call ends;
* knowledge base: all of it or nothing; a clean sync leaves both stores equal; a
  function is shown entries retrieved for itself;
* tools: what a process reported is stored whatever the others do, and every file
  is tried; a stored failure is one forge reported, with its own example;
* reports: one run's findings under that run's coverage; none lost in polishing;
* live updates: what the page was told of is shown; it does not go back; what it
  missed while offline reaches it.

## 2. Modules

| Module | Models | Composition |
|---|---|---|
| `AuditRow` | one row of `audit_runs`, its two identities and the degraded condition | |
| `RunLedger` | abstract: what an audit promises about its row | extends `AuditRow` |
| `AuditTask` | both audit tasks, the engine's file and function workers | extends `AuditRow`, implements `RunLedger` |
| `AuditTask_proofs` | the inductive invariant and the theorems | extends `AuditTask` |
| `TokenBudget`, `TokenBudget_proofs` | the budget of one project over processes and threads; proofs | |
| `ProjectLifecycle`, `ProjectLifecycle_proofs` | one project: API, broker, worker, upload task, cleanup, database rows and directory | |
| `EventStream`, `EventStream_proofs` | one page: publication, SSE handler, EventSource, timers, queries; proofs | |
| `LlmCall`, `LlmCall_proofs` | `chat_completion` in one worker process: registry, configuration cache, semaphore, loop, retries; proofs | |
| `Selection`, `Selection_proofs` | lists made from parts of a list: comprehensions with a condition, `sorted()`; lemmas about them | |
| `KnowledgeBase` | syncs of the knowledge base and the retrieval for one file | extends `Selection` |
| `SolidityMembers` | what Solidity text means: what is code, which declarations have a body, what a member of a contract is | |
| `SolidityUnits` | `mask_source` and `extract_functions` over token sequences | extends `SolidityMembers`, `Selection` |
| `IncrementalPlan` | an edit, its diff, `parse_unified_diff`, `merge_ranges`, `build_plan` | extends `SolidityUnits` |
| `AuditInputs_proofs` | the background and the functions an audit is given: theorems | extends `KnowledgeBase`, `IncrementalPlan` |
| `UploadDirectory` | the directory both tool tasks read and the cleanup removes | |
| `SlitherRun`, `FuzzRun` | the two tool tasks | extend `UploadDirectory`, `Selection` |
| `AnalysisTools` | both tasks and the cleanup, interleaved | extends both |
| `Reporting` | report tasks between audits, tool tasks and marks that commit | extends `Selection` |
| `Findings_proofs` | findings from forge and Slither to the polished report: theorems | extends `AnalysisTools`, `Reporting` |
| `MC...` | instances for TLC | extend the module |

### AuditTask

`pc` is where the task's main thread is, `stage[e]` where `execute_single_file`
is on entry `e`, `outcome[<<e, u>>]` what became of unit `u` there. An entry is
a project file or, in an incremental run, a path of the diff, since the code
hands the engine one call per path. `PlanFull`/`PlanIncremental` choose the
entries; `CreateRun`, `StartAudit`, `SaveFindings`, `FinishRun`,
`PersistUsage`, `Publish` are the steps of the main thread, in the order of the
code and each with its failure (`BackendFails`, `MarkFailed`,
`MarkFailedRaises`); `ReadFile`, `Summarize`, `Retrieve`, `RetrievalGivesUp`,
`ReturnFile`, `FileRaises`, `SkipUnreadable` those of a file worker;
`StartCall`, `Reply`, `CallFails`, `CallEscapes` those of a function worker.
`Collect(e)` is the main thread taking a result from `as_completed`, in any order:
`merged` adds up the counts of the results appended to `file_results` (what
`build_coverage` sums; `FileResult` and `FailedFile` are what a worker that
returned, and the stand-in for one that did not, contribute) and `allFindings` is
the list the findings are appended to. The row's counts are `merged`, its total of
files is fixed when it is created, so that the ledger's identities relate numbers
computed at different times from different things. `RemoveRow` is a cleanup that
deletes the row under the task, which then closes nothing and publishes all the
same (`run is None`); `Crash` ends a process anywhere. A full run has a pool of
`MaxParallelFiles` workers, an incremental run takes its entries one by one, and a
file above `ParallelThreshold` units has a pool of its own. What a prompt contains
and what a finding says is abstracted to the outcome of a call; the order in which
a serial file takes its units is left open. A vector store that is down is, as in
the code, a retrieval that found nothing and raised nothing.

### TokenBudget

`usage[p]` is `_usage[project]` in process `p`, `inFlight[p]` its threads
between `check_budget` and the answer, `redis` the stored value. `Check` and
`Record` are the two critical sections; `StartTask` and `Persist` are
`load_usage` and `persist_usage`, which Redis may refuse; `Crash` replaces a
process.

### ProjectLifecycle

The row, the file rows, the result rows, the directory and its contents, and
the messages. A trigger endpoint is a coroutine which may be suspended at the
status read (`ReadStatus`) but blocks the one event loop from the inspection of
the workers to the publication (`Look`, `Trigger`; `LoopFree`), because both
are synchronous calls. `process_upload` is `Validate`, `MarkProcessing`, `Scan`,
`CommitFiles`, which may run twice at a time when Redis redelivers a message
(`Redeliver`). `cleanup_old_files` is `RemoveDirectory`, `DeleteDependents`,
`DeleteProject`/`DeleteFails`. Foreign keys are modelled where they decide an
outcome (`References`, `Deletable`). What other tasks compute is one
`CommitResult`.

### EventStream

A topic is a query of the page, its version the number of commits that changed
it. `Commit` and `Announce` are the two steps at the end of a task.
`Accept`, `SendSnapshot`, `Subscribe`/`StartPolling`, `Poll` are the SSE
handler in the order of its code: the generator is started only after the
snapshot has been yielded. `StartTimer`, `TimerFires`, `FallbackPoll`,
`StopFallback`, `Remount` are the callbacks of `useSSE`. `Invalidate`, `Read`,
`Show`, `RequestFails` are react-query's behaviour as the hook relies on it: an
invalidation cancels a request in flight and sends it again if the query has data
(`loaded`); during a query's first request it joins that request, whose answer then
counts as fresh. `missed` is the history of queries whose first answer had been
read, and was out of date, when that happened, until they are read again. A failed
query keeps what it showed. The fallback's interval of 10 s is taken to be longer
than a refetch, though not than a first request.

### LlmCall

A step is one read or write of a module variable, since only the replacement of
the semaphore and the creation of the loop hold a lock. `FindRegistry`,
`PublishRegistry`, `RegisterNext` are `get_provider_registry`; the `stat`,
`compare`, `load`, `store` places are `get_config`, which is called from three
sites; `SecondLook`, `CreateSemaphore` are the critical section of
`_get_semaphore`; `Acquire` and `Finish` the `with` block, in which the provider
retries. Semaphores and registries are kept in sequences, so that a thread can
hold one that has been replaced. `Edit` changes the file; `settled[t]` is the
history that says whether a call's view can be from before the last edit.

### KnowledgeBase

`rows` and `vectors` are the two stores, `sync[t]` the tasks, each of which
loads (`LoadSnapshot`, `Fetch` with its validation), writes and flushes row by
row under Postgres' locks, commits, and embeds and upserts entry by entry.
`retrieval` is `execute_single_file` embedding the functions of a file in
chunks, with tenacity's attempts starting over, the answer sorted by index, and
the way back to one text at a time. The provider may change between any two
attempts, and with it the length of the vectors.

### SolidityUnits and IncrementalPlan

A source is a sequence of tokens: the character classes and words that the two
passes of `extract_functions` distinguish. Sources are put together from members
of which it is known whether they are functions, which is what `FoundAsWritten`
compares with. `SolidityUnitsAssumption` says of each member that it is what it
is said to be, by definitions that follow the language and not the scanner
(`SolidityMembers`): `Reading` goes through a text token by token, without the
searches of `mask_source`, and `IsFunction`, `IsOther` describe a declaration by where
its parts are, each of which the code has to find. TLC evaluates the assumption
for the members of the run. An edit is a set of added lines and of gaps where lines were
removed; git shows it with some lines of context among the sections of other
files, and the parser follows line by line, the merge range by range
(`MergeRange`), and then the intersection. The reference is the edit itself, not
the diff. An added line that begins with `++ ` (a `lookalike`) is `+++ ` in the diff,
and is parsed as the header of another file: the hunks behind it are lost to the
file (`BodyOf`, `ParseFile`).

### UploadDirectory, SlitherRun, FuzzRun, AnalysisTools

`SlitherRun` has one action per process: which roots there are and whether they
need `solc` is computed as in the code (`ProjectRoots`, `NeedsSolc`), each process
reports, or fails in one of the ways `_run_slither_file` catches, and `Collect`
is what is kept. `FuzzRun` follows `FuzzerEngine.execute`: the workspace, the
contracts as the scanner sees them (`Parsed`), the tests derived from them,
whether the one test file compiles (`Fits`, `Declared`: external), forge's output
as a list of failure lines (`FailureLines`: external), which names each failing
test twice, and `NewLines`, `FailureOf` what is parsed from them, the counterexample
included. Whatever forge prints without a compiler error is taken for a result, also
by a forge that judged no test (`unjudged`). `RemoveWorkspace` may leave the
workspace, since `rmtree` ignores its errors. Names are sequences of their parts
between underscores, because the engine splits them there. The cleanup removes the
directory under both.

### Reporting

The session reads at READ COMMITTED: each query is a step that sees what is
committed then (`ReadMarks`, `ReadDetections`, `ReadFuzzResults`, `ReadLatestRun`,
`ReadFindings`). Audits, Slither and fuzz tasks commit in
between (`OpenRun`, `SaveFindings`, `CloseRun`, `StoreScan`, ...), with the order of
commits `AuditTask` has. `Polish` is all batches of the three categories in one
step: they touch nothing but what the task has read.

## 3. Runs

| Run | Instance | Shows |
|---|---|---|
| `audit` | 2 files, 2+3 units of which two share a key, 2 file workers with a function pool of 1 each, a budget of 1 call; full, and incremental with 3 diff paths, of which two mean one file and one means none | the ledger, the findings and the event stay truthful under every failure, crash and removal of the row, `AuditTask` implements `RunLedger`, and every task ends |
| `token_budget` | 2 processes of 3 threads, limits of 2 calls and 1 token | overrun bounded, no answer forgotten |
| `lifecycle` | 2 contracts, 2 requests, 4 messages, 2 worker processes | status, files and tasks stay consistent while a cleanup races with them |
| `events` | 2 queries, 1 commit to each, 2 failures | nothing told is dropped once a query is loaded, nothing older is shown, offline pages catch up |
| `llm_calls` | 2 threads of 2 calls, 1 edit of the file, 2 contents that load, 1 that does not | a new limit takes over, semaphore and limit agree, every call ends |
| `knowledge` | 2 syncs of 2 entries, 3 functions in chunks of 2, 3 providers, 1 change | no partial knowledge base, clean syncs agree, contexts are not shifted |
| `incremental_plan` | contracts of up to 2 of 14 members, up to 2 changes, contexts 0, 1, 3, 3 orders of sections, any of the added lines a lookalike | units are found as written, edited functions are selected |
| `analysis_tools` | 8 layouts and 7 uploads of 2 files, 1 example beside a failure without one | results survive the failures beside them, every file is tried, failures are forge's |
| `reporting` | 1 report, 2 audits, 1 detection, 1 fuzz row of up to 3 failures, 1 old finding, batches of 2 | a report tells one run and keeps every finding |

Why the bounds are enough. The audit's interesting cases are a file above and
one at the parallel threshold, a unit without keyword, an overload of a selected
unit on its line, a budget that ends between two calls, a worker that fails while
another one runs, a diff path without a file, and two of one file: the run has each
of them, and the safety properties are proved for every size. One slot per function
pool is enough because calls of the two file workers overlap; `TokenBudget` has the
race for the budget with more threads. Two processes and one thread more than the budget have calls
produce every overlap of check and charge. In the lifecycle a message is needed
for the upload, a redelivery, a trigger and a cleanup: four. For the page, two
failures allow a loss and another while it is being repaired, and two queries
one that an event names and the project detail every event refreshes. Two
threads are one that replaces a semaphore and one that holds it; their second
calls are the ones that begin after the edit. Three texts in chunks of two are a
full and a partial chunk. An edit of two changes can hit two functions, or one
and the lines between; 3 lines of context, git's default, reach across a
member. Three failures and batches of two are again a full and a partial batch,
and two audits the newest run and one it hides. Counters are bounded by `MaxCalls`,
`MaxVersion`, `MaxFailures`, `MaxEdits`, `MaxEdited`, `MaxRuns` and the like, each
named a bound where it is declared; the number of messages by `Task`. Model
values are permuted (`SYMMETRY`) in runs without liveness.

Deadlock is checked except where the system really stops, when every bounded input is used up (`events`, `llm_calls`, `knowledge`,
`incremental_plan`).

Three runs show where the code and its own promises part:

* `token_budget_lost_update`: a process that loaded before another one persisted
  erases that one's calls from Redis (the run's Redis never fails,
  `RedisMayFail = FALSE`, so that nothing else can be the cause);
* `events_window`: an event between the snapshot and the subscription is lost;
* `llm_hot_reload`: a call that begins after the provider in the file was changed
  asks the provider of the first configuration (one thread, so that the change and
  not a half-filled registry is the cause).

### Known divergences without a run

Met while modelling. No property claims that they do not happen: where a property
would be about one, it names it as its exception. Those marked (o) are outside the
models; the others are behaviour of the models.

Audits:

* when the embedding API fails on every attempt, tenacity's `RetryError` is
  neither of the exceptions `execute_single_file` expects: the file counts as
  unreadable instead of audited without retrieval
  (`src/docs/design/audit-integrity/spec.md:274`), and in an incremental run the
  task fails;
* a vector store outage becomes an empty answer (`services/chroma_client.py:66`),
  counts no retrieval failure, and the run is completed: `CompletedMeansAudited`
  says that no retrieval raised, not that there was one;
* when a cleanup has removed the run's row, no verdict is written, the findings
  cannot be saved, and the task still announces results;
* two diff paths that resolve to one file by their base name count its units
  twice; overloads on one line share their key, and one that is not selected
  leaves the ledger (`services/engine/llm_audit.py:408` says none does). The run
  `audit` has both, and `EveryUnitOnce` says what is counted then;
* `src/docs/evidence/coverage-accounting.md:13` wants every run with an unaudited
  function degraded, filtered ones do not count;
  `src/docs/design/audit-integrity/blueprint.md:128` wants findings and verdict in
  one commit, they are two; `models/audit.py:29` wants the identities for every
  row, a failed or crashed run has no file counts; (o) the docstring of
  `tasks/run_llm_audit.py` still has the identity of three terms; (o) `load_usage` is
  documented as running at the start of a worker and runs at the start of a task;
* (o) `audit_runs.kb_version` is the hash of the snapshot even after a sync with
  `refresh=True` has embedded upstream texts
  (`services/engine/swc_sync.py:7` says it is that of the entries used).

Plan and units: with context lines, an edit between two functions whose context
reaches one of them selects that one only, where without context it would select
the file; (o) a parameter of function type (`function f(function(uint) external g) public {...}`)
counts as a fallback with the body of the function it belongs to, since
the comment at `services/engine/solidity_units.py:169` and the test only think of
variables, which end with a semicolon; (o) a function of the time before 0.6 that is
named `receive` or `fallback` counts twice; an added line of the source that begins
with `++ ` is read as a file header (`incremental/diff_parser.py:39`), and the edits
behind it are not seen: `EditedIsSelected` and `OutsideMeansAll` except such diffs.

Live updates: an event that comes while the first answer of a query is on its way
does not make the page ask again, so what it announced is not shown until the next
event, poll or connection.

LLM calls: (o) `maxConcurrentCalls` may be 0, and then no call ever gets a slot;
`get_config` may keep an instance with the time of a newer file, until the next
edit, so that an old limit stays in force (`LimitDescribesGate` and `LimitRestored`
are about the semaphore in use, not the file); a thread may find the registry empty,
or filled in part; (o) polishing a report is charged to no budget.

Lifecycle: triggers in quick succession are all accepted, since the duplicate
check sees running tasks only (`services/task_dispatcher.py:8`, "or queued"); a
cleanup whose transaction fails leaves a ready project without files, which no
later cleanup finds; (o) report directories are removed without their rows.

Tools: an error of Slither is stored as a row without detections, and only one
raw result is kept; a framework in one subdirectory hides the contracts beside it,
which are never tried (`EveryFileIsTried` is about the files of the roots);
when the directory goes while it is listed, or Slither's JSON is of another shape,
the task fails and what was found is lost; repeated runs add up. The fuzzer asks for `transfer` and a balance
getter but not for `totalSupply`, which its docstring requires (`fuzzer.py:11`):
one such contract makes the whole test file fail to compile; the first contract
of a file is taken for all of it; the `Counter` that `forge init` adds clashes
with a user's; a `setUp` that reverts is recorded as clean, and so is a forge that judged nothing;
names with underscores are taken apart at the wrong place; a workspace may stay
behind, because a copy that fails is outside the `try` (`fuzzer.py:370`) and `rmtree`
ignores its errors (`fuzzer.py:424`).

Reports: the newest run may be running or failed and hides the last complete
one; without a run at the time of the first query, findings of a run created
before the second are shown as legacy ones; (o) all reports of a project write to one
path, so older rows show newer files.

## 4. Fairness

Safety runs use `Init /\ [][Next]_vars` alone. `AuditTask!FairSpec` has weak
fairness of the task's own steps: threads are scheduled, and calls to the model
and the tools have timeouts, so a started step ends; failures and crashes are
never required. `EventStream!FairSpec` has weak fairness of each step of the
SSE handler, of the browser's timers and of requests: the event loop, the
browser and Redis' answers make progress. Nothing is assumed about commits,
publications, outages or their repair, and a connection may be lost as often as
`MaxFailures` allows. A rejected connection is not repaired at all, which is why
`OfflineCatchesUp` needs the fallback. `LlmCall!FairSpec` has weak fairness of
each thread's next step: threads are scheduled and the HTTP clients have
timeouts. It suffices for the semaphore because calls are finitely many; a
thread kept waiting by an endless supply of others would need `threading` to be
fair, which it is not. Edits and new calls are never required.

## 5. Proofs

`AuditTask_proofs` proves every property of the run `audit` but the liveness one,
the refinement `LedgerSpec` included, from `ConstantsAssumption` alone (finite sets
of files, units and paths; positive pool sizes): keys and paths may be shared. None
of the invariants is inductive alone, because a row is closed with counts that were
added up while other workers were still writing. `Inv` adds what ties them together:
`Untouched` (nothing happens before the plan), `RowFollowsTask` and `RowKeepsTotal`
(the row at each step of the main thread, unless a cleanup has removed it),
`SelectedGetOutcomes` (a returned entry has a settled outcome for each selected
unit), `AllCollected` and `FindingsAreSaved` (row and table were written after the
last result was collected). Its core is `Tally`, which holds after each result, in
whatever order they come: each collected entry's worker is done and writes no more
(`CollectedAreDone`); the counts are those of the entries collected so far
(`MergedAddsUp`); what went wrong with one of them shows in a count
(`MergedHidesNothing`); the list of findings is theirs. A result adds up because a
file's list of units is the disjoint union of the five outcomes (`ListPartition`,
`ResultAddsUp`), a failed file because something stands in for it, and one more
result keeps the tally (`CollectTally`); so the closing step writes counts
that add up (`ClosedRowIsSound`) and a verdict that is honest
(`CompletedRowIsHonest`). `EveryUnitOnce` needs `OnRecord` beside it: what each step
of a file's worker has put on the list. The refinement maps `Open` to `CreateRun`,
`Close` to the two closing steps, `Fail` to `MarkFailed`, `Remove` to `RemoveRow`,
everything else to a stutter.

`TokenBudget_proofs` proves its four properties from `BudgetAssumption`. The
bound of `CallsOvershoot` is not inductive: what is invariant
(`CallsCommitted`) is that charged calls and calls in flight together stay
below the limit plus the number of threads, unless nothing more can start;
`TokensCommitted` is the same with the largest cost per call, and
`RestMeansQuiet` that a process outside a task has nothing in flight.

`ProjectLifecycle_proofs` proves the five properties of the run `lifecycle`.
`Inv` adds three facts about the order of things: while the project is being
created only cleanups can be about, and they find nothing old (`BeingCreated`,
`UploadsPublished`); files in the directory only go once an upload task may have
looked, so what it found still covers them (`ScanCovers`); and, with a single
delivery, the status follows the one upload task (`StatusFollowsUpload`), from
which no request or task can have been let in before it is ready
(`RequestsNeedReady`). Each kind of step has a lemma for all tasks: one that
moves a task (`MoveInv`), one that publishes a message (`PublishInv`), one that
moves a request (`RequestInv`); the steps that write a row have one each.

`EventStream_proofs` proves all properties of the run `events` but the liveness
one, from the bounds alone. `ToldIsShown` speaks of a page at rest;
`NothingLost` is what holds on the way there: once the snapshot was sent, the
version told for a query is in an event on the wire, in a request not answered
yet, in an answer under way, or on the page, unless the query is in error or
`missed` (its first answer was older than an event, and was not cancelled). It
needs `OneRequest` (one request at a time for each query) and `VersionsInOrder`
(page, answer, database).

`Selection_proofs` holds the lemmas about lists that the next two modules rest on.
A set sorted by a strict order is a list of its elements in which none comes
before a smaller one (`SortedProperties`).
A list selected by positions (`Sublist`) has the chosen elements, each once and in
order (`SublistProperties`, from `InOrderRises`: a finite set of positions has
exactly one rising enumeration), also when the choice is "not repeated earlier"
(`FirstOnesProperties`); a flattened list is the last of the lists that each append
one more (`FlattenProperties`), and each of them stays where it was appended
(`EarlierListsStay`). The induction these need is by the least
counterexample (`LeastNumber`, `UpTo`).

`AuditInputs_proofs` is about what an audit is given to look at. It first proves all
four properties of the run `knowledge`. A task in
its transaction has written or found each entry it has passed (`Accounted`), so its
commit makes the table whole, also beside others that commit or roll back; one
that is alone has found or written its own texts, and while it embeds the
vectors behind it are its own (`Agrees`). For `ContextIsOwn` the invariant is about
the list of answers under way: its n-th vector is that of the n-th text, whichever
chunk it came in. That the answer to a chunk, sorted by index, continues it is
where the lemmas on rising lists come in (`InOrderOfInterval`).

Then it proves `FoundAsWritten` for contracts of any number of members, whatever
they are made of, as long as `SolidityUnitsAssumption` holds. Its invariant is
`ExtractInv`, in three parts, and the proof compares three readings of one text.

* The first pass against the reading of the source. `MaskInv`: before `pos` the
  text is `Code(source)`, behind it the source itself, and `quote` is what `pos` is
  within; only behind a line comment the two differ, where the code stops at the line
  end and the language is still in the comment. A jump over a comment
  is as good as going through it (`WithinUntil`), and a token behind a backslash may
  be past the end. This part needs no assumption on the members and is a theorem
  of its own, `MaskIsExact`.
* The reading of the source against that of its members. The members are where
  `StartOf` says (`MembersAreArranged`, from the lists that each append one more),
  each begins outside of comments and literals because the one before is closed
  (`MembersAreRead`), so the code of the source at its place is the code of the member
  alone (`SameReading`, `MemberCode`), and a bracket that is closed, a name or a
  semicolon that follows stays so in the longer text (`Carries` and its lemmas).
* The searches of the second pass against the positions the language gives
  (`BodyIsFound`, `NoBodyIsFound`). A declaration the pass comes to is then the
  beginning of a function or has no body (`OnlyWrittenIsFound`), and each function is
  one of those (`WrittenIsFound`). `UnitsInv`: the units are those of the functions
  that begin before `pos`; a new one is the last of them (`StartsRise`, `OneMoreUnit`),
  and when no declaration is left they are all.

The assumption leaves out what the code gets wrong: the two forms named under
"Plan and units" in section 3 are neither `IsFunction` nor `IsOther`. It also leaves out
functions nested in other members, which Solidity does not have, and says of a
unit that only a line end is behind it.

It also proves `EditedIsSelected` and `OutsideMeansAll` for any members of a
contract, any edit and any order of the files in the diff that contains the
file, if no added line is a lookalike. Only the step that makes the diff decides on
that (`ReadsRightBefore`), and then the invariant `PlanInv` follows one set of lines from the edit to the plan,
`MarkLines`: those the hunks of the edit show, and the anchors of the removals that
show none. The sorted hunks cover exactly these (`AllHunksProperties`: each line is
in one longest row of shown lines, `LongestRow`); so do the lines of the diff that
belong to the file, whatever sections stand before or behind (`DiffProperties`, by
`MineJoined`: what a diff shows is what its parts show, each read with the path in
force); so do, at each line of the parser, the ranges found and the lines left
together (`ParseInv`); so do the sorted ranges (`OrderedProperties`), and at each step
of the merge the merged ranges and those left, none of which begins before the
last merged one (`MergeInv`, without which the merge would lose lines,
`WithRangeKeeps`). A unit begins on or before its last line (`ScanInv`, from the
positions the scanner finds), so meeting a range and having a marked line are
the same (`TouchedUnits`). `EditedFunctionsReachTheAudit` puts both halves together: a
function that is written in the contract and was edited is audited, with the same exception.

`Findings_proofs` follows findings through three tasks.

* Slither (`DetectionsAreComplete`, `NoFileIsPassedOver`): the detections are at every
  moment what the processes so far reported (`DetectionsKept`, `RawIsError`) and the
  row a copy of them (`RowIsLast`); and as long as the upload is there, each file of a
  root has been tried or is in one of the lists the two loops still have to go
  through (`FilesAhead`, in `Loops`).
* Fuzzing (`FailuresAreTrue`): `FuzzInv` keeps what the generator, forge and the
  parser leave. Its core is `RowIsFaithful`: forge prints each failed test once
  with and once without its example, possibly cut (`ForgePrints`); of these lines one
  per test and example is kept; and taking a test's name apart gives the contract
  and the payout function it was made from, unless a name has an underscore
  (`NameOf`, `LineNamesTest`). The proof made the property more precise. "No two
  failures of a row share a test name" is false: contract `A` with payout
  `x_Conservation_y` and contract `A_Conservation_x` with payout `y` have tests of
  one name, in test contracts of their own. What holds is that the failures of a
  row are about different failed tests.
* Reports (`ReportsTellOneRun`, `PolishLosesNothing`): a task that has read the
  newest run with a verdict holds a run whose findings are saved (`RunIsThere`, since
  the findings are committed before the verdict: `SavedFirst`), and these rows never
  change while the project exists (`SavedStays`); so what it reads next are all of
  them (`ShowsOneRun`). A project that is deleted may leave a task with findings of
  no run, but then it cannot commit. `PolishKeeps` is about the arithmetic of
  batches: the list put together from the first n answers has the length of the
  first n batches, each place holding the finding or the answer to its own batch
  (`BatchAfter`, `OneMoreBatch`).

`LlmCall_proofs` proves `TypeOK`, `LimitDescribesGate` and `LimitRestored` for any
number of threads and edits. `Knows` says what a thread may rely on at each place: a loaded
configuration, a registry, a semaphore, none of which is ever set back to None.
`LockHeld` ties the lock to the thread between the two writes of
`_get_semaphore`, and `SlotsHeld` counts the slots in use by the calls holding
them, so that no exit returns a slot twice. `LimitRestored` needs one fact more
(`TakesOver`): once no call from before the last edit is without its semaphore,
one configuration is due (`Due`), whichever of its loaders stores and stamps it
last; `Follows` says what a call of that time has seen of it at each place, and
with it the semaphore is replaced at most once.

Only model-checked:

* liveness: `EveryTaskEnds`, `OfflineCatchesUp`, `EveryCallEnds`, which need fairness
  and `ENABLED`, out of this prover's reach. What a recursive definition computes for
  all inputs is out of it as well; the modules have none.

Every safety invariant and every action property of a passing run is stated by a
theorem.

What the proofs rest on besides the assumptions: the provers. The SMT backend of
tlapm 1.4.5 accepts `x = CHOOSE y : P(y)` from `P(x)` alone, although a second `y` may
have `P`. Leaves that expand a `CHOOSE` are therefore left to Zenon, which does not,
and use that the chosen element has its property, never that it is a given one;
where it is (`InOrderIs`, `FlattenIs`), uniqueness is proved first.

## 6. Not modelled

The run comparison (a set difference without state), JSON repair, prompt
templates and sanitizers: what they do to an answer is one of the outcomes of a
call. The files of reports, the list and the download. `audit_pipeline.py`, which
nothing imports. Authentication, rendering, migrations. The 30 day expiry of
budget keys. The libraries (Celery, SQLAlchemy, react-query, Redis, Chroma,
forge, solc) appear through the behaviour the code uses; those definitions are
marked external.

## 7. Plan

1. done: `AuditRow`, `RunLedger`, `AuditTask` and their proofs.
2. done: `TokenBudget` and its proofs.
3. done: `ProjectLifecycle`, with dispatch and cleanup, and its proofs.
4. done: `EventStream` and its proofs.
5. done: `LlmCall`, `KnowledgeBase`, `SlitherRun`, `FuzzRun`, `AnalysisTools`,
   `Reporting`, `SolidityUnits`, `IncrementalPlan` and their proofs.
6. done: a grammar of members for which `FoundAsWritten` holds in general
   (`SolidityMembers`), and its proof.
7. open: the files of reports, with the cleanup that removes them.

Runs are few on purpose: a divergence has a run of its own only when its
question is more important than the others'.
