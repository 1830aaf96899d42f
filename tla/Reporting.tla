----------------------------- MODULE Reporting -----------------------------
(***************************************************************************)
(* The reports of one project: what the Celery task generate_report reads  *)
(* while audits, Slither and fuzz tasks go on committing, what the model   *)
(* makes of it batch by batch, and the row it commits.  The file it writes *)
(* is left out.                                                            *)
(*                                                                         *)
(* The session reads at READ COMMITTED: every query sees what is committed *)
(* when it runs.                                                           *)
(***************************************************************************)
EXTENDS Selection

CONSTANTS
    Task,         \* report tasks
    Ref,          \* detection_ref of detections
    BatchSize,    \* _BATCH_SIZE
    Legacy,       \* findings from before there were audit runs
    MaxFindings,  \* bound: findings of an audit
    MaxRuns,      \* bound: audit runs
    MaxScans,     \* bound: detections, of all Slither tasks
    MaxFuzz,      \* bound: fuzz tasks
    MaxFailures   \* bound: failures a fuzz task reports

ASSUME ReportingAssumption ==
    /\ IsFiniteSet(Task) /\ IsFiniteSet(Ref)
    /\ BatchSize \in Nat \ {0}
    /\ Legacy \in Nat
    /\ {MaxFindings, MaxRuns, MaxScans, MaxFuzz, MaxFailures} \subseteq Nat

VARIABLES
    stored,       \* the project and its rows
    job           \* per report task: where it is, and what it holds

reportVars == <<stored, job>>

-----------------------------------------------------------------------------
(* The rows *)

\* audit_runs in the order of their ids; llm_audit_results, each with its run
\* (0: from before there were runs); detections; fuzzing_results, each with its
\* number of failures; false_positive_feedbacks; reports.
NoRows == [exists |-> FALSE, runs |-> <<>>, llm |-> <<>>, detections |-> <<>>,
           fuzz |-> <<>>, marks |-> {}, reports |-> {}]

Category == {"slither", "fuzzing", "llm"}
Format == {"html", "pdf", "word"}

Raw == [slither |-> <<>>, fuzzing |-> <<>>, llm |-> <<>>]

NewJob == [at |-> "idle", format |-> "html", marks |-> {}, raw |-> Raw, polished |-> Raw,
           run |-> 0, status |-> "legacy", odd |-> FALSE]

ReportInit ==
    /\ stored = [NoRows EXCEPT !.exists = TRUE, !.llm = [i \in 1..Legacy |-> 0]]
    /\ job = [t \in Task |-> NewJob]

-----------------------------------------------------------------------------
(* The other tasks: what they commit *)

Commits(rows) == stored.exists /\ stored' = rows /\ UNCHANGED job

\* _create_run.
OpenRun ==
    /\ Len(stored.runs) < MaxRuns
    /\ Commits([stored EXCEPT !.runs = Append(@, [status |-> "running", saved |-> FALSE])])

\* The findings of a run are one commit; when it fails the run goes on without.
SaveFindings(r) ==
    /\ stored.runs[r].status = "running" /\ ~stored.runs[r].saved
    /\ \E n \in 0..MaxFindings :
         Commits([stored EXCEPT !.runs[r].saved = TRUE, !.llm = @ \o [i \in 1..n |-> r]])

\* The verdict, completed or degraded, is the next; a run that fails may have
\* findings or not, and one whose process died stays as it is.
CloseRun(r) ==
    /\ stored.runs[r].status = "running"
    /\ \E verdict \in {"settled", "failed"} :
         /\ verdict # "failed" => stored.runs[r].saved
         /\ Commits([stored EXCEPT !.runs[r].status = verdict])

\* The result backend fails after the verdict.
DeclareFailed(r) ==
    /\ stored.runs[r].status = "settled"
    /\ Commits([stored EXCEPT !.runs[r].status = "failed"])

\* Results of Slither and of the fuzzer add up: nothing tells the newest ones.
StoreScan ==
    /\ \E refs \in BoundedSeq(Ref, MaxScans - Len(stored.detections)) :
         /\ refs # <<>>
         /\ Commits([stored EXCEPT !.detections = @ \o refs])

StoreFuzz ==
    /\ Len(stored.fuzz) < MaxFuzz
    /\ \E failures \in 0..MaxFailures : Commits([stored EXCEPT !.fuzz = Append(@, failures)])

\* mark_false_positive notes the reference of a detection, not its row.
MarkFalsePositive(ref) ==
    /\ ref \in ToSet(stored.detections) /\ ref \notin stored.marks
    /\ Commits([stored EXCEPT !.marks = @ \cup {ref}])

\* cleanup_old_files deletes all rows of an old project in one transaction.
DeleteProject == Commits(NoRows)

-----------------------------------------------------------------------------
(* aggregate_findings: one query after the other *)

At(t, place) == job[t].at = place

Becomes(t, j) == job' = [job EXCEPT ![t] = j] /\ UNCHANGED stored

\* The task was triggered for a ready project; it does not look at it again.
Start(t) ==
    /\ At(t, "idle")
    /\ \E f \in Format : Becomes(t, [job[t] EXCEPT !.at = "marks", !.format = f])

ReadMarks(t) ==
    /\ At(t, "marks")
    /\ Becomes(t, [job[t] EXCEPT !.at = "detections", !.marks = stored.marks])

Item(x) == [of |-> x, batch |-> 0]
Items(rows) == [i \in 1..Len(rows) |-> Item(rows[i])]

Unmarked(marks) == {i \in 1..Len(stored.detections) : stored.detections[i] \notin marks}

\* Detections whose reference was marked when the marks were read are left out.
ReadDetections(t) ==
    /\ At(t, "detections")
    /\ LET shown == Sublist(stored.detections, Unmarked(job[t].marks))
       IN  Becomes(t, [job[t] EXCEPT !.at = "fuzz", !.marks = {}, !.raw.slither = Items(shown)])

\* A fuzz row without failures, None, adds nothing.
ReadFuzzResults(t) ==
    /\ At(t, "fuzz")
    /\ LET failures == [k \in 1..Len(stored.fuzz) |-> [i \in 1..stored.fuzz[k] |-> Item(k)]]
       IN  Becomes(t, [job[t] EXCEPT !.at = "run", !.raw.fuzzing = FlattenSeq(failures)])

\* The newest run, whatever its state, is the one whose counts are shown.
ReadLatestRun(t) ==
    /\ At(t, "run")
    /\ LET newest == Len(stored.runs)
       IN  Becomes(t, [job[t] EXCEPT !.at = "llm", !.run = newest,
                         !.status = IF newest = 0 THEN @ ELSE stored.runs[newest].status])

\* Mutant: the findings of whichever run.
AnyRun(t, r) == TRUE

\* Without a run at the time of that query, all findings there are now.
Belongs(t, r) == job[t].run = 0 \/ r = job[t].run

ReadFindings(t) ==
    /\ At(t, "llm")
    /\ LET mine == Sublist(stored.llm, {i \in 1..Len(stored.llm) : Belongs(t, stored.llm[i])})
       IN  Becomes(t, [job[t] EXCEPT !.at = "polish", !.raw.llm = Items(mine)])

-----------------------------------------------------------------------------
(* polish_with_llm *)

BatchesOf(items) == (Len(items) + BatchSize - 1) \div BatchSize

BatchAt(items, b) ==
    LET last == b * BatchSize
    IN  SubSeq(items, last - BatchSize + 1, IF last < Len(items) THEN last ELSE Len(items))

Rewritten(n, b) == [i \in 1..n |-> [batch |-> b]]

\* Mutant: whatever list the model returns is taken.
TakeAnyList(batch, b, reply) == IF reply = 0 THEN batch ELSE Rewritten(reply, b)

\* The model answers a batch with a list of that many items; 0 stands for a call
\* that fails and an answer that is no JSON list, too.  A list of another length
\* is dropped; what is in a list of the right length is not looked at.
PolishSingleBatch(batch, b, reply) ==
    IF reply = Len(batch) THEN Rewritten(reply, b) ELSE batch

PolishCategory(items, replies) ==
    FlattenSeq([b \in 1..BatchesOf(items) |-> PolishSingleBatch(BatchAt(items, b), b, replies[b])])

Polishings(items) ==
    {PolishCategory(items, replies) : replies \in [1..BatchesOf(items) -> 0..(BatchSize + 1)]}

\* One call after the other, on what the task has read; no other state is
\* touched.  An item that is not an object is "odd".
Polish(t) ==
    /\ At(t, "polish")
    /\ \E s \in Polishings(job[t].raw.slither), f \in Polishings(job[t].raw.fuzzing),
          l \in Polishings(job[t].raw.llm), odd \in BOOLEAN :
         /\ odd => \E x \in ToSet(s) \cup ToSet(f) \cup ToSet(l) : x.batch # 0
         /\ Becomes(t, [job[t] EXCEPT !.at = "render",
                          !.polished = [slither |-> s, fuzzing |-> f, llm |-> l], !.odd = odd])

-----------------------------------------------------------------------------
(* The file and the row *)

\* The HTML template renders an odd item as an empty one, and the PDF is made
\* from the HTML; the Word document asks every item for its fields, which an
\* odd one has not.  What the file holds is not followed.
Render(t) ==
    /\ At(t, "render")
    /\ job[t].format = "word" => ~job[t].odd
    /\ Becomes(t, [job[t] EXCEPT !.at = "commit"])

CommitReport(t) ==
    /\ At(t, "commit") /\ stored.exists
    /\ stored' = [stored EXCEPT !.reports = @ \cup
         {[task |-> t, raw |-> job[t].raw, polished |-> job[t].polished,
           run |-> job[t].run, status |-> job[t].status]}]
    /\ job' = [job EXCEPT ![t] = [NewJob EXCEPT !.at = "done"]]

\* The database, the disk or the PDF converter fails, the project is gone, or an
\* odd item raises: what was read is dropped, what was written stays.
TaskFails(t) ==
    /\ job[t].at \notin {"idle", "done", "failed"}
    /\ Becomes(t, [NewJob EXCEPT !.at = "failed"])

Done == /\ \A t \in Task : job[t].at \in {"done", "failed"}
        /\ UNCHANGED reportVars

-----------------------------------------------------------------------------
OtherStep ==
    \/ OpenRun \/ StoreScan \/ StoreFuzz \/ DeleteProject
    \/ \E r \in 1..Len(stored.runs) : SaveFindings(r) \/ CloseRun(r) \/ DeclareFailed(r)
    \/ \E ref \in Ref : MarkFalsePositive(ref)

ReportStep(t) ==
    \/ Start(t) \/ ReadMarks(t) \/ ReadDetections(t) \/ ReadFuzzResults(t)
    \/ ReadLatestRun(t) \/ ReadFindings(t) \/ Polish(t) \/ Render(t) \/ CommitReport(t) \/ TaskFails(t)

ReportNext == OtherStep \/ (\E t \in Task : ReportStep(t)) \/ Done

ReportSpec == ReportInit /\ [][ReportNext]_reportVars

-----------------------------------------------------------------------------
(* Properties *)

FindingsOf(r) == {i \in 1..Len(stored.llm) : stored.llm[i] = r}

\* A report that names a run shows findings of that run only, although runs and
\* findings are two queries between which others commit; and when it shows a
\* verdict, it shows all the findings of the run.
ReportTellsOneRun ==
    \A report \in stored.reports :
        report.run # 0 =>
            /\ \A x \in ToSet(report.raw.llm) : x.of = report.run
            /\ report.status = "settled" =>
                 Len(report.raw.llm) = Cardinality(FindingsOf(report.run))

\* The polished list of these items.
KeptInPlace(items, polished) ==
    /\ Len(polished) = Len(items)
    /\ \A i \in 1..Len(items) :
         polished[i] = items[i] \/ polished[i].batch = (i - 1) \div BatchSize + 1

\* Whatever the model answers, a report has as many findings of each kind as
\* were aggregated, and each place holds the finding that was there or the
\* answer to the batch it was in.
PolishKeepsEveryFinding ==
    \A report \in stored.reports, c \in Category :
        KeptInPlace(report.raw[c], report.polished[c])
=============================================================================
