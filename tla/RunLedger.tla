------------------------------ MODULE RunLedger ------------------------------
(***************************************************************************)
(* What an audit promises about its audit_runs row, whatever the threads,  *)
(* the model provider and the database do meanwhile: the row is opened     *)
(* once, its counts are written once, they add up, the verdict follows     *)
(* from them, and a finished row can only be declared failed or be removed *)
(* with its project; it never comes back.  AuditTask implements this.      *)
(***************************************************************************)
EXTENDS AuditRow

VARIABLE run

Init == run = NoRow

Open ==
    /\ run = NoRow
    /\ run'.files_total \in Nat
    /\ run' = RunningRow(run'.files_total)

\* Closing writes all the counts at once: they satisfy both identities, keep
\* the number of files announced by Open, and fix the verdict.
Close ==
    /\ run.status = "running"
    /\ run' \in AuditRows
    /\ run'.files_total = run.files_total
    /\ FileIdentity(run')
    /\ FunctionIdentity(run')
    /\ run'.status = IF IsDegraded(run') THEN "degraded" ELSE "completed"

\* Declaring the run failed leaves whatever counts the row has.
Fail ==
    /\ run.status \in {"running", "completed", "degraded"}
    /\ run' = [run EXCEPT !.status = "failed"]

\* The cleanup of old projects deletes the row at any time.
Remove ==
    /\ run.status \notin {"none", "removed"}
    /\ run' = RemovedRow

Next == Open \/ Close \/ Fail \/ Remove

Spec == Init /\ [][Next]_run
=============================================================================
