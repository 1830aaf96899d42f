------------------------------ MODULE AuditTask ------------------------------
(***************************************************************************)
(* One execution of the Celery task run_llm_audit ("full") or              *)
(* run_incremental_audit ("incremental") over one project: the task's main *)
(* thread, the file workers, the function workers, the audit_runs row and  *)
(* the findings rows the task writes.                                      *)
(*                                                                         *)
(* A ledger entry is what the task hands to execute_single_file: a project *)
(* file, or, in an incremental run, a path named by the diff.              *)
(***************************************************************************)
EXTENDS AuditRow, FiniteSets

CONSTANTS
    File,               \* .sol files of the project (project_files rows)
    Unit,               \* function units of those files
    FileOf,             \* the file a unit is extracted from
    KeyOf,              \* a unit's (name, line_start)
    Keyworded,          \* the units select_units keeps
    DiffPath,           \* paths a diff may name
    Resolve,            \* the project file _resolve finds for a path, or NoFile
    NoFile,
    Modes,              \* the tasks to consider: subset of {"full", "incremental"}
    MaxParallelFiles,   \* run_llm_audit.MAX_PARALLEL_FILES
    ParallelThreshold,  \* LLMAuditEngine._PARALLEL_FUNC_THRESHOLD
    MaxParallelCalls,   \* LLMAuditEngine._FUNC_PARALLELISM
    MaxCalls            \* MAX_LLM_CALLS_PER_PROJECT

Entry == File \cup DiffPath

ASSUME ConstantsAssumption ==
    /\ IsFiniteSet(File) /\ IsFiniteSet(Unit) /\ IsFiniteSet(DiffPath)
    /\ File \cap DiffPath = {}
    /\ NoFile \notin File
    /\ FileOf \in [Unit -> File]
    /\ DOMAIN KeyOf = Unit
    /\ Keyworded \subseteq Unit
    /\ Resolve \in [DiffPath -> File \cup {NoFile}]
    /\ Modes \subseteq {"full", "incremental"}
    /\ MaxParallelFiles \in Nat \ {0}
    /\ ParallelThreshold \in Nat
    /\ MaxParallelCalls \in Nat \ {0}
    /\ MaxCalls \in Nat

VARIABLES
    mode,       \* which of the two tasks this is
    pc,         \* where the task's main thread is
    entries,    \* the entries of the run
    plan,       \* incremental only: the units build_plan marks changed
    stage,      \* progress of execute_single_file on each entry
    outcome,    \* what has become of each unit of an entry
    ragFailed,  \* an entry's rag_failures: units whose retrieval raised
    calls,      \* this process's LLM call count for the project
    collected,  \* entries whose result _collect has appended to file_results
    merged,     \* what build_coverage adds up over file_results
    allFindings, \* all_findings: units whose findings _collect has appended
    run,        \* the audit_runs row
    findings,   \* units with rows in llm_audit_results for this run
    notified    \* the new_audit_results event has been published

fileVars == <<stage, outcome, ragFailed, calls>>
resultVars == <<collected, merged, allFindings>>
vars == <<mode, pc, entries, plan, stage, outcome, ragFailed, calls, collected, merged,
          allFindings, run, findings, notified>>

-----------------------------------------------------------------------------
(* Units, selections and outcomes *)

FileOfEntry(e) == IF e \in DiffPath THEN Resolve[e] ELSE e

UnitsOf(f) == {u \in Unit : FileOf[u] = f}

\* The units of file f that share their (name, line_start) with a unit of S.
SharingKey(S, f) == {u \in UnitsOf(f) : \E v \in S : KeyOf[u] = KeyOf[v]}

SelectedUnits(e) ==
    IF mode = "full"
    THEN UnitsOf(e) \cap Keyworded
    ELSE SharingKey(plan[e], FileOfEntry(e))

\* Mutant: the units that are not audited leave the ledger.
ForgetDropped(e) == {}

\* The loop that records dropped units compares keys, not units.
DroppedUnits(e) ==
    UnitsOf(FileOfEntry(e)) \ SharingKey(SelectedUnits(e), FileOfEntry(e))

\* Mutant: the reason is written in place of the status.
ReasonAsStatus == IF mode = "full" THEN "keyword_filter" ELSE "not_in_diff"

DroppedAs == IF mode = "full" THEN "filtered" ELSE "unchanged"

\* An audited unit may ("found") or may not ("clean") have yielded findings.
Audited == {"found", "clean"}
Skipped == {"budget"}

Failed == {"failed"}
Settled == Audited \cup Skipped \cup Failed
Outcome == {"pending", "calling", "filtered", "unchanged"} \cup Settled

WithOutcome(e, S) == {u \in SelectedUnits(e) : outcome[<<e, u>>] \in S}

Processing == {e \in entries : stage[e] \in {"summary", "rag", "calls"}}
FileDone == {"returned", "unreadable", "raised"}
Returned == {e \in entries : stage[e] = "returned"}

-----------------------------------------------------------------------------
(* The result of a file, and the merged result of build_coverage *)

\* The unit list of e's worker, and the units in it that ended in one of S.
Listed(e) == {u \in Unit : outcome[<<e, u>>] \notin {"pending", "calling"}}
ListedAs(e, S) == {u \in Listed(e) : outcome[<<e, u>>] \in S}

\* What execute_single_file returns for a file it could read.
FileResult(e) ==
    [files_processed     |-> 1,
     files_unreadable    |-> 0,
     functions_extracted |-> Cardinality(Listed(e)),
     functions_audited   |-> Cardinality(ListedAs(e, Audited)),
     functions_skipped   |-> Cardinality(ListedAs(e, Skipped)),
     functions_failed    |-> Cardinality(ListedAs(e, Failed)),
     functions_filtered  |-> Cardinality(ListedAs(e, {"filtered"})),
     functions_unchanged |-> Cardinality(ListedAs(e, {"unchanged"})),
     rag_failures        |-> ragFailed[e]]

Count == {"files_processed", "files_unreadable", "functions_extracted",
          "functions_audited", "functions_skipped", "functions_failed",
          "functions_filtered", "functions_unchanged", "rag_failures"}

NoCounts == [c \in Count |-> 0]

\* Mutant: nothing stands in for a file whose worker raised.
VanishedFile == NoCounts

\* _unreadable_file, and _failed_file for a worker that raised: no units.
FailedFile == [NoCounts EXCEPT !.files_unreadable = 1]

ResultOf(e) == IF stage[e] = "returned" THEN FileResult(e) ELSE FailedFile

FoundIn(e) == {e} \X ListedAs(e, {"found"})

Coverage(status) ==
    [status |-> status,
     files_total         |-> Cardinality(entries),
     files_processed     |-> merged.files_processed,
     files_unreadable    |-> merged.files_unreadable,
     functions_extracted |-> merged.functions_extracted,
     functions_audited   |-> merged.functions_audited,
     functions_skipped   |-> merged.functions_skipped,
     functions_failed    |-> merged.functions_failed,
     functions_filtered  |-> merged.functions_filtered,
     functions_unchanged |-> merged.functions_unchanged,
     rag_failures        |-> merged.rag_failures]

\* Mutant: every run that gets this far is completed.
AlwaysCompleted == Coverage("completed")

ClosedRow ==
    Coverage(IF IsDegraded(Coverage("running")) THEN "degraded" ELSE "completed")

-----------------------------------------------------------------------------
(* Main thread: planning *)

Init ==
    /\ mode \in Modes
    /\ pc = "start"
    /\ entries = {}
    /\ plan = [e \in Entry |-> {}]
    /\ stage = [e \in Entry |-> "queued"]
    /\ outcome = [x \in Entry \X Unit |-> "pending"]
    /\ ragFailed = [e \in Entry |-> 0]
    /\ calls = 0
    /\ collected = {}
    /\ merged = NoCounts
    /\ allFindings = {}
    /\ run = NoRow
    /\ findings = {}
    /\ notified = FALSE

\* What the process and Redis have counted so far is the subject of TokenBudget.
LoadUsage == calls' \in 0..MaxCalls

\* run_llm_audit keeps the project's .sol files that are still on disk.
PlanFull ==
    /\ pc = "start" /\ mode = "full"
    /\ LoadUsage
    /\ \E onDisk \in SUBSET File : entries' = onDisk
    /\ pc' = "planned"
    /\ UNCHANGED <<mode, plan, stage, outcome, ragFailed, resultVars,
                   run, findings, notified>>

\* build_plan for one path: the units the hunks overlap, every unit when they
\* overlap none, and no unit when the path has no hunk.
ChangedUnits(f, hasHunk, hit) ==
    CASE ~hasHunk -> {}
      [] hasHunk /\ hit # {} -> hit
      [] hasHunk /\ hit = {} -> UnitsOf(f)

\* run_incremental_audit: an entry per diff path that resolves, then one per
\* remaining project file.
PlanIncremental ==
    /\ pc = "start" /\ mode = "incremental"
    /\ LoadUsage
    /\ \E named \in SUBSET DiffPath \ {{}} :
         LET resolved == {p \in named : Resolve[p] # NoFile}
         IN  /\ entries' = resolved \cup (File \ {Resolve[p] : p \in resolved})
             /\ \E withHunk \in SUBSET resolved, hit \in [resolved -> SUBSET Unit] :
                  /\ \A p \in resolved : hit[p] \subseteq UnitsOf(Resolve[p])
                  /\ plan' = [e \in Entry |->
                                IF e \in resolved
                                THEN ChangedUnits(Resolve[e], e \in withHunk, hit[e])
                                ELSE {}]
    /\ pc' = "planned"
    /\ UNCHANGED <<mode, stage, outcome, ragFailed, resultVars,
                   run, findings, notified>>

\* A diff without a changed .sol path is rejected before a row exists.
RejectDiff ==
    /\ pc = "start" /\ mode = "incremental"
    /\ LoadUsage
    /\ pc' = "raising"
    /\ UNCHANGED <<mode, entries, plan, stage, outcome, ragFailed, resultVars,
                   run, findings, notified>>

CreateRun ==
    /\ pc = "planned"
    /\ run' = RunningRow(Cardinality(entries))
    /\ pc' = "created"
    /\ UNCHANGED <<mode, entries, plan, fileVars, resultVars, findings, notified>>

\* A full run without files closes its row at once, and saves no usage.
CloseEmptyRun ==
    /\ pc = "created" /\ mode = "full" /\ entries = {}
    /\ \/ run.status # "removed" /\ run' = ClosedRow
       \/ run.status = "removed" /\ run' = run
    /\ pc' = "publishing"
    /\ UNCHANGED <<mode, entries, plan, fileVars, resultVars, findings, notified>>

StartAudit ==
    /\ pc = "created"
    /\ mode = "full" => entries # {}
    /\ pc' = "auditing"
    /\ UNCHANGED <<mode, entries, plan, fileVars, resultVars, run, findings, notified>>

-----------------------------------------------------------------------------
(* File workers: execute_single_file *)

restVars == <<mode, entries, plan, run, findings, notified>>
taskVars == <<restVars, resultVars>>

\* A full run of several files has a pool of MaxParallelFiles workers; for a
\* single file, and in an incremental run, the main thread takes an entry,
\* appends its result and goes on to the next.
Pooled == mode = "full" /\ Cardinality(entries) > 1

Takes(e) ==
    /\ pc = "auditing"
    /\ e \in entries
    /\ stage[e] = "queued"
    /\ IF Pooled THEN Cardinality(Processing) < MaxParallelFiles
                 ELSE \A d \in entries : stage[d] # "queued" => d \in collected

\* Mutant: the full run does not catch it either.
RaisesThrough(e) ==
    /\ stage' = [stage EXCEPT ![e] = "raised"]
    /\ pc' = "raising"

\* An exception that leaves execute_single_file.  The full run replaces the
\* file's result by _failed_file; the incremental run does not catch it.
FileRaises(e) ==
    /\ stage' = [stage EXCEPT ![e] = "raised"]
    /\ pc' = IF mode = "full" THEN pc ELSE "raising"

\* The file is gone or cannot be opened.
SkipUnreadable(e) ==
    /\ Takes(e)
    /\ stage' = [stage EXCEPT ![e] = "unreadable"]
    /\ UNCHANGED <<pc, outcome, ragFailed, calls, taskVars>>

\* The file is not UTF-8: UnicodeDecodeError is not an OSError.  In an
\* incremental run, which opens the file before the engine does, an OSError
\* is not caught either.
RaiseUndecodable(e) ==
    /\ Takes(e)
    /\ FileRaises(e)
    /\ UNCHANGED <<outcome, ragFailed, calls, taskVars>>

ReadFile(e) ==
    /\ Takes(e)
    /\ outcome' = [x \in Entry \X Unit |->
                     IF x[1] = e /\ x[2] \in DroppedUnits(e) THEN DroppedAs ELSE outcome[x]]
    /\ stage' = [stage EXCEPT ![e] = IF SelectedUnits(e) = {} THEN "returned" ELSE "summary"]
    /\ UNCHANGED <<pc, ragFailed, calls, taskVars>>

\* The summary is one more LLM call, outside the budget; its usual failures
\* are replaced by a canned text, any other exception is not caught.
Summarize(e) ==
    /\ pc = "auditing" /\ stage[e] = "summary"
    /\ \/ stage' = [stage EXCEPT ![e] = "rag"] /\ pc' = pc
       \/ FileRaises(e)
    /\ UNCHANGED <<outcome, ragFailed, calls, taskVars>>

\* One embedding batch and one query for the whole file, or, when that fails
\* with ValueError or HTTPError, one of each per unit, n of which fail as well.
\* A vector store that fails is not among them: query_vulnerabilities(_batch)
\* answers "nothing found" in its place.
Retrieve(e) ==
    /\ pc = "auditing" /\ stage[e] = "rag"
    /\ \E n \in 0..Cardinality(SelectedUnits(e)) : ragFailed' = [ragFailed EXCEPT ![e] = n]
    /\ stage' = [stage EXCEPT ![e] = "calls"]
    /\ UNCHANGED <<pc, outcome, calls, taskVars>>

\* When the embedding API fails three times, tenacity raises RetryError
\* (@retry without reraise), which neither handler of the engine names.
RetrievalGivesUp(e) ==
    /\ pc = "auditing" /\ stage[e] = "rag"
    /\ FileRaises(e)
    /\ UNCHANGED <<outcome, ragFailed, calls, taskVars>>

-----------------------------------------------------------------------------
(* Function workers: _audit_single_function.  The order in which the         *)
(* units of a file are taken is left open.                                   *)

Parallel(e) == Cardinality(SelectedUnits(e)) > ParallelThreshold

\* Mutant: a function worker keeps its slot after the answer.
SlotsLeak(e) == WithOutcome(e, {"calling"} \cup Settled)

Slots(e) == WithOutcome(e, {"calling"})

StartCall(e, u) ==
    /\ pc = "auditing" /\ stage[e] = "calls"
    /\ u \in WithOutcome(e, {"pending"})
    /\ Cardinality(Slots(e)) < (IF Parallel(e) THEN MaxParallelCalls ELSE 1)
    /\ outcome' = [outcome EXCEPT ![<<e, u>>] = IF calls < MaxCalls THEN "calling" ELSE "budget"]
    /\ UNCHANGED <<pc, stage, ragFailed, calls, taskVars>>

Waiting(e, u) ==
    /\ pc = "auditing" /\ stage[e] = "calls"
    /\ u \in WithOutcome(e, {"calling"})

\* The provider answers: the call is charged, then the answer is parsed.
Reply(e, u) ==
    /\ Waiting(e, u)
    /\ calls' = calls + 1
    /\ \E o \in Audited \cup Failed : outcome' = [outcome EXCEPT ![<<e, u>>] = o]
    /\ UNCHANGED <<pc, stage, ragFailed, taskVars>>

\* RuntimeError, ValueError or HTTPError, after the provider's own retries.
CallFails(e, u) ==
    /\ Waiting(e, u)
    /\ outcome' = [outcome EXCEPT ![<<e, u>>] = "failed"]
    /\ UNCHANGED <<pc, stage, ragFailed, calls, taskVars>>

\* Any other exception (a malformed provider response raises KeyError) is
\* caught per future on the parallel path only.
CallEscapes(e, u) ==
    /\ Waiting(e, u)
    /\ ~Parallel(e)
    /\ FileRaises(e)
    /\ UNCHANGED <<outcome, ragFailed, calls, taskVars>>

ReturnFile(e) ==
    /\ pc = "auditing" /\ stage[e] = "calls"
    /\ WithOutcome(e, {"pending", "calling"}) = {}
    /\ stage' = [stage EXCEPT ![e] = "returned"]
    /\ UNCHANGED <<pc, outcome, ragFailed, calls, taskVars>>

-----------------------------------------------------------------------------
(* Main thread: collecting the results and closing the run *)

\* Mutant: all_findings keeps the findings of the last file only.
KeepsLastFindings(e) ==
    /\ pc = "auditing"
    /\ e \in entries \ collected
    /\ stage[e] \in FileDone
    /\ collected' = collected \cup {e}
    /\ merged' = [c \in Count |-> merged[c] + ResultOf(e)[c]]
    /\ allFindings' = IF stage[e] = "returned" THEN FoundIn(e) ELSE allFindings
    /\ UNCHANGED <<pc, fileVars, restVars>>

\* _collect, for whichever future as_completed yields next: the result joins
\* file_results, to be added up by build_coverage, and its findings the list
\* of those to save.
Collect(e) ==
    /\ pc = "auditing"
    /\ e \in entries \ collected
    /\ stage[e] \in FileDone
    /\ collected' = collected \cup {e}
    /\ merged' = [c \in Count |-> merged[c] + ResultOf(e)[c]]
    /\ allFindings' = IF stage[e] = "returned" THEN allFindings \cup FoundIn(e) ELSE allFindings
    /\ UNCHANGED <<pc, fileVars, restVars>>

\* One commit for all findings.  When it fails, as it must once the row they
\* refer to was removed, it is rolled back, logged, and the task goes on.
SaveFindings ==
    /\ pc = "auditing"
    /\ entries \subseteq collected
    /\ \/ run.status # "removed" /\ findings' = allFindings
       \/ findings' = findings
    /\ pc' = "saved"
    /\ UNCHANGED <<mode, entries, plan, fileVars, resultVars, run, notified>>

\* A row that was removed meanwhile is not closed (run is None).
FinishRun ==
    /\ pc = "saved"
    /\ \/ run.status # "removed" /\ run' = ClosedRow
       \/ run.status = "removed" /\ run' = run
    /\ pc' = "finished"
    /\ UNCHANGED <<mode, entries, plan, fileVars, resultVars, findings, notified>>

\* Mutant: the event leaves before the row is closed.
PersistBeforeFinish ==
    /\ pc = "saved"
    /\ pc' = "publishing"
    /\ UNCHANGED <<mode, entries, plan, fileVars, resultVars, run, findings, notified>>

\* update_state succeeds, then persist_usage, whose failure is only logged.
PersistUsage ==
    /\ pc = "finished"
    /\ pc' = "publishing"
    /\ UNCHANGED <<mode, entries, plan, fileVars, resultVars, run, findings, notified>>

\* A failing Redis publish is only logged.
Publish ==
    /\ pc = "publishing"
    /\ notified' \in BOOLEAN
    /\ pc' = "done"
    /\ UNCHANGED <<mode, entries, plan, fileVars, resultVars, run, findings>>

-----------------------------------------------------------------------------
(* Failures *)

Ended == {"done", "failed", "unmarked", "crashed"}

\* The database or the Celery result backend refuses an operation of the main
\* thread: the project query, _create_run, update_state, _finish_run.
BackendFails ==
    /\ pc \in {"start", "planned", "created", "saved", "finished"}
    /\ pc' = "raising"
    /\ UNCHANGED <<mode, entries, plan, fileVars, resultVars, run, findings, notified>>

\* Mutant: the handler re-raises at once.
ReRaise ==
    /\ pc = "raising"
    /\ pc' = "failed"
    /\ UNCHANGED <<mode, entries, plan, fileVars, resultVars, run, findings, notified>>

\* The task's handler marks the row, if there still is one, and re-raises.
MarkFailed ==
    /\ pc = "raising"
    /\ run' = IF run.status \in {"none", "removed"} THEN run ELSE [run EXCEPT !.status = "failed"]
    /\ pc' = "failed"
    /\ UNCHANGED <<mode, entries, plan, fileVars, resultVars, findings, notified>>

\* _mark_failed needs the database too.
MarkFailedRaises ==
    /\ pc = "raising" /\ run # NoRow
    /\ pc' = "unmarked"
    /\ UNCHANGED <<mode, entries, plan, fileVars, resultVars, run, findings, notified>>

\* The worker process dies; the message was acknowledged, nobody redelivers it.
Crash ==
    /\ pc \notin Ended
    /\ pc' = "crashed"
    /\ UNCHANGED <<mode, entries, plan, fileVars, resultVars, run, findings, notified>>

\* While the task runs the cleanup of old projects deletes the run's findings
\* and its row in one transaction, without looking for tasks.
RemoveRow ==
    /\ pc \notin Ended
    /\ run.status \notin {"none", "removed"}
    /\ run' = RemovedRow
    /\ findings' = {}
    /\ UNCHANGED <<mode, pc, entries, plan, fileVars, resultVars, notified>>

Over == pc \in Ended /\ UNCHANGED vars

-----------------------------------------------------------------------------

MainStep ==
    \/ PlanFull \/ PlanIncremental \/ RejectDiff
    \/ CreateRun \/ CloseEmptyRun \/ StartAudit
    \/ SaveFindings \/ FinishRun \/ PersistUsage \/ Publish
    \/ BackendFails \/ MarkFailed \/ MarkFailedRaises

FileStep(e) ==
    \/ SkipUnreadable(e) \/ RaiseUndecodable(e) \/ ReadFile(e)
    \/ Summarize(e) \/ Retrieve(e) \/ RetrievalGivesUp(e) \/ ReturnFile(e)

CallStep(e, u) ==
    \/ StartCall(e, u) \/ Reply(e, u) \/ CallFails(e, u) \/ CallEscapes(e, u)

TaskStep ==
    \/ MainStep
    \/ \E e \in Entry : FileStep(e) \/ Collect(e)
    \/ \E e \in Entry, u \in Unit : CallStep(e, u)

Next == TaskStep \/ Crash \/ RemoveRow \/ Over

Spec == Init /\ [][Next]_vars

\* Threads are scheduled, and every LLM or embedding call answers or times
\* out, as long as the process lives.
FairSpec == Spec /\ WF_vars(TaskStep)

-----------------------------------------------------------------------------
(* Properties *)

TypeOK ==
    /\ mode \in Modes
    /\ pc \in {"start", "planned", "created", "auditing", "saved", "finished",
               "publishing", "raising"} \cup Ended
    /\ entries \in SUBSET Entry
    /\ plan \in [Entry -> SUBSET Unit]
    /\ stage \in [Entry -> {"queued", "summary", "rag", "calls"} \cup FileDone]
    /\ outcome \in [Entry \X Unit -> Outcome]
    /\ ragFailed \in [Entry -> Nat]
    /\ calls \in Nat
    /\ collected \in SUBSET Entry
    /\ merged \in [Count -> Nat]
    /\ allFindings \in SUBSET (Entry \X Unit)
    /\ run \in AuditRows
    /\ findings \in SUBSET (Entry \X Unit)
    /\ notified \in BOOLEAN

\* The two identities of the ledger, as docstring and models/audit.py give them.
\* The total of files is fixed before the workers start and the other counts
\* are added up as results are collected, so the first one says that no file
\* was lost or counted twice: not one that could not be read, that raised, or
\* whose worker finished out of order.  The second says that no unit ended in
\* a state the row has no column for.
LedgerBalances ==
    /\ FunctionIdentity(run)
    /\ run.status \in {"completed", "degraded"} => FileIdentity(run)

EverythingAudited ==
    \A e \in entries :
        /\ stage[e] = "returned"
        /\ ragFailed[e] = 0
        /\ \A u \in SelectedUnits(e) : outcome[<<e, u>>] \in Audited

\* A run is declared completed only if every file was read, every unit chosen
\* for audit got an answer that could be parsed, and the retrieval raised for
\* none of them.  It says nothing of a vector store that is down: that is
\* answered with an empty result, without an exception (chroma_client.py).
CompletedMeansAudited == run.status = "completed" => EverythingAudited

\* Findings and verdict are two commits, made from two lists the workers'
\* results were appended to.  Beside a verdict the table has all findings of
\* the files the row counts as processed, or none of them (the commit failed):
\* none of a file whose result was discarded, and none left behind.
FindingsAllOrNone ==
    run.status \in {"completed", "degraded"} =>
        findings \in {{}, {x \in Returned \X Unit : outcome[x] = "found"}}

\* Who is told that results are there finds a row with a verdict, whichever
\* commit failed on the way, unless a cleanup has removed the row: the event
\* is published all the same then (_finish_run returns without a word).
NotifiedAfterVerdict == notified => run.status \in {"completed", "degraded", "removed"}

\* Once the task is over its row is not left running, except when the process
\* died or the database refused the failure mark.
OverMeansSettled == pc \in {"done", "failed"} => run.status # "running"

\* Whatever happens to one file, a full run goes on to save its findings: only
\* the database or the result backend can make it fail.
FilesAreIsolated ==
    [][mode = "full" /\ pc = "auditing" => pc' \in {"auditing", "saved", "crashed"}]_vars

\* The units the ledger loses: one that is not selected, on the line and with
\* the name of one that is.
Shadowed(e) == SharingKey(SelectedUnits(e), FileOfEntry(e)) \ SelectedUnits(e)

\* The denominator of the coverage is the real function count of the files the
\* run processed: each result lists all units of its file but the shadowed
\* ones, and each listed unit is counted once, for every entry that names its
\* file.  An incremental run shadows nothing.
EveryUnitOnce ==
    run.status \in {"completed", "degraded"} =>
        /\ \A e \in Returned :
             /\ Listed(e) = UnitsOf(FileOfEntry(e)) \ Shadowed(e)
             /\ mode = "incremental" => Shadowed(e) = {}
        /\ run.functions_extracted =
               Cardinality({x \in Returned \X Unit : x[2] \in Listed(x[1])})

\* Every run ends: no file or call is left waiting for a worker for ever.
EveryTaskEnds == <>(pc \in Ended)

\* The task implements the ledger's promise.
Ledger == INSTANCE RunLedger WITH run <- run
LedgerSpec == Ledger!Spec
=============================================================================
