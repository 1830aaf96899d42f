------------------------------ MODULE AuditRow ------------------------------
(***************************************************************************)
(* One row of the audit_runs table (models/audit.py, class AuditRun): the  *)
(* ledger of one LLM audit.  The columns that no property tells apart      *)
(* (model, prompt and knowledge base version, rag_hits, invalid_findings,  *)
(* timestamps) are left out.                                               *)
(***************************************************************************)
EXTENDS Naturals

\* "none" stands for a row that has not been inserted, "removed" for one that a
\* cleanup has deleted with its project.
RowStatus == {"none", "running", "completed", "degraded", "failed", "removed"}

AuditRows ==
    [status: RowStatus,
     files_total: Nat, files_processed: Nat, files_unreadable: Nat,
     functions_extracted: Nat, functions_audited: Nat, functions_skipped: Nat,
     functions_failed: Nat, functions_filtered: Nat, functions_unchanged: Nat,
     rag_failures: Nat]

\* A row without counts, all of which default to 0.
FreshRow(status, n) ==
    [status |-> status,
     files_total |-> n, files_processed |-> 0, files_unreadable |-> 0,
     functions_extracted |-> 0, functions_audited |-> 0, functions_skipped |-> 0,
     functions_failed |-> 0, functions_filtered |-> 0, functions_unchanged |-> 0,
     rag_failures |-> 0]

NoRow == FreshRow("none", 0)
RemovedRow == FreshRow("removed", 0)

\* What _create_run inserts for a task that found n files.
RunningRow(n) == FreshRow("running", n)

\* Every file of the run was either processed or could not be read.
FileIdentity(r) == r.files_total = r.files_processed + r.files_unreadable

\* Every extracted function has exactly one of the five outcomes.
FunctionIdentity(r) ==
    r.functions_extracted = r.functions_audited + r.functions_skipped
                          + r.functions_failed + r.functions_filtered
                          + r.functions_unchanged

\* Mutant: a failed unit does not degrade the run.
IgnoresFailures(r) ==
    \/ r.functions_skipped + r.files_unreadable > 0
    \/ r.rag_failures > 0

\* The condition under which build_coverage calls a run degraded.
IsDegraded(r) ==
    \/ r.functions_skipped + r.functions_failed + r.files_unreadable > 0
    \/ r.rag_failures > 0
=============================================================================
