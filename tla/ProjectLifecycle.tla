--------------------------- MODULE ProjectLifecycle ---------------------------
(***************************************************************************)
(* One project from its upload to its removal: the API that creates it and *)
(* triggers tasks on it (services/project_service.py, audit_service.py and *)
(* the other trigger services, services/task_dispatcher.py), the Celery    *)
(* broker and worker, the upload task (tasks/process_upload.py) and the    *)
(* periodic cleanup (tasks/cleanup.py), over the Postgres rows of the      *)
(* project and its upload directory.  What an audit, an analysis, a fuzz   *)
(* run or a report computes is not modelled here: such a task commits one  *)
(* batch of result rows or fails.                                          *)
(*                                                                         *)
(* A trigger endpoint is a coroutine: it may be suspended while it reads   *)
(* the project row, and blocks the event loop of the one API process from  *)
(* the inspection of the workers to the publication.                       *)
(***************************************************************************)
EXTENDS Naturals, FiniteSets

CONSTANTS
    SolFile,    \* the .sol files an upload may contain
    Request,    \* trigger requests in flight
    Task,       \* identities of broker messages
    Kind,       \* kinds of tasks a request can trigger
    Guarded,    \* those that are published by CeleryTaskDispatcher
    Slots,      \* processes of the worker
    MayFail     \* whether processes, the broker, the database and inspect fail

ASSUME LifecycleAssumption ==
    /\ Guarded \subseteq Kind
    /\ {"process_upload", "cleanup"} \cap Kind = {}
    /\ Slots \in Nat \ {0}
    /\ MayFail \in BOOLEAN
    /\ Task \cap SolFile = {}

VARIABLES
    row,        \* Project.status, or "none" when there is no row
    files,      \* the files that have a ProjectFile row
    results,    \* the tasks whose result rows are committed
    dir,        \* whether the upload directory exists
    disk,       \* the .sol files in it, archives unpacked
    old,        \* the directory is older than CLEANUP_DAYS
    api,        \* progress of create_project_with_files
    request,    \* progress of each trigger request
    task,       \* each message or running task
    doomed      \* rows deleted by the open transaction of each cleanup task

vars == <<row, files, results, dir, disk, old, api, request, task, doomed>>

Status == {"uploaded", "processing", "ready"}
TaskKind == Kind \cup {"process_upload", "cleanup"}

Idle == [pc |-> "idle"]
Requests == [pc: {"idle"}] \cup [pc: {"checked", "looked"}, kind: Kind]

Unused == [at |-> "unused"]
Queued(k) == [at |-> "queued", kind |-> k]
Tasks ==
    [at: {"unused"}]
    \cup [at: {"queued", "started", "validated", "marked", "removed", "deleting", "over"},
          kind: TaskKind]
    \cup [at: {"scanned"}, kind: {"process_upload"}, found: SUBSET SolFile]

Exists(t) == task[t].at # "unused"
Active(t) == task[t].at \notin {"unused", "queued", "over"}
Waiting(t) == task[t].at = "queued"
IsAt(t, k, step) == Exists(t) /\ task[t].kind = k /\ task[t].at = step

Moves(t, step) == task' = [task EXCEPT ![t] = [at |-> step, kind |-> @.kind]]
Ends(t) == Moves(t, "over")

\* apply_async of a task of kind k: the message is in the broker.
Publishes(k) == \E t \in Task : ~Exists(t) /\ task' = [task EXCEPT ![t] = Queued(k)]

Init ==
    /\ row = "none" /\ files = {} /\ results = {}
    /\ dir = FALSE /\ disk = {} /\ old = FALSE
    /\ api = "idle"
    /\ request = [r \in Request |-> Idle]
    /\ task = [t \in Task |-> Unused]
    /\ doomed = [t \in Task |-> {}]

-----------------------------------------------------------------------------
(* create_project_with_files *)

\* The row is committed before any file is looked at.
CreateRow ==
    /\ api = "idle"
    /\ row' = "uploaded"
    /\ api' = "created"
    /\ UNCHANGED <<files, results, dir, disk, old, request, task, doomed>>

\* At least one upload passes the checks and is written; an archive may hold
\* any .sol files, none included.
SaveFiles ==
    /\ api = "created"
    /\ dir' = TRUE
    /\ disk' \in SUBSET SolFile
    /\ api' = "saved"
    /\ UNCHANGED <<row, files, results, old, request, task, doomed>>

\* Mutant: the project is kept under a status of its own.
KeepRejected ==
    /\ api = "created"
    /\ dir' = TRUE
    /\ row' = "rejected"
    /\ api' = "rejected"
    /\ UNCHANGED <<files, results, disk, old, request, task, doomed>>

\* Every upload is rejected: the row is deleted, the empty directory stays.
RejectFiles ==
    /\ api = "created"
    /\ dir' = TRUE
    /\ row' = "none"
    /\ api' = "rejected"
    /\ UNCHANGED <<files, results, disk, old, request, task, doomed>>

PublishUpload ==
    /\ api = "saved"
    /\ Publishes("process_upload")
    /\ api' = "done"
    /\ UNCHANGED <<row, files, results, dir, disk, old, request, doomed>>

\* The broker refuses the message, or the API process stops on the way.
CreateFails ==
    /\ MayFail
    /\ api \in {"created", "saved"}
    /\ api' = "failed"
    /\ UNCHANGED <<row, files, results, dir, disk, old, request, task, doomed>>

-----------------------------------------------------------------------------
(* The trigger endpoints *)

LoopFree == \A r \in Request : request[r].pc # "looked"

\* Mutant: a project that is being processed is let through.
NotUploaded == row # "uploaded" /\ row # "none"

IsReady == row = "ready"

\* Only a project in status ready gets past the 404 and the 409.
ReadStatus(r, k) ==
    /\ request[r] = Idle
    /\ LoopFree
    /\ IsReady
    /\ request' = [request EXCEPT ![r] = [pc |-> "checked", kind |-> k]]
    /\ UNCHANGED <<row, files, results, dir, disk, old, api, task, doomed>>

\* _has_active_task sees what the worker processes are executing, and lets the
\* request through when the inspection fails.
Look(r) ==
    /\ request[r].pc = "checked"
    /\ request[r].kind \in Guarded
    /\ LoopFree
    /\ \/ MayFail
       \/ \A t \in Task : Active(t) => task[t].kind # request[r].kind
    /\ request' = [request EXCEPT ![r].pc = "looked"]
    /\ UNCHANGED <<row, files, results, dir, disk, old, api, task, doomed>>

\* TaskAlreadyRunning: 409.
Refuse(r) ==
    /\ request[r].pc = "checked"
    /\ request[r].kind \in Guarded
    /\ LoopFree
    /\ \E t \in Task : Active(t) /\ task[t].kind = request[r].kind
    /\ request' = [request EXCEPT ![r] = Idle]
    /\ UNCHANGED <<row, files, results, dir, disk, old, api, task, doomed>>

\* The incremental audit is published without a look at the workers.
Trigger(r) ==
    /\ \/ request[r].pc = "looked"
       \/ request[r].pc = "checked" /\ request[r].kind \notin Guarded /\ LoopFree
    /\ \/ Publishes(request[r].kind)
       \/ MayFail /\ UNCHANGED task
    /\ request' = [request EXCEPT ![r] = Idle]
    /\ UNCHANGED <<row, files, results, dir, disk, old, api, doomed>>

-----------------------------------------------------------------------------
(* The broker and the worker *)

\* celery beat publishes the daily cleanup.
Beat ==
    /\ Publishes("cleanup")
    /\ UNCHANGED <<row, files, results, dir, disk, old, api, request, doomed>>

\* A message is acknowledged as its task starts.
Take(t) ==
    /\ Waiting(t)
    /\ Cardinality({u \in Task : Active(u)}) < Slots
    /\ Moves(t, "started")
    /\ UNCHANGED <<row, files, results, dir, disk, old, api, request, doomed>>

\* Redis hands a message that was reserved for longer than the visibility
\* timeout, and not acknowledged, to the worker once more.
Redeliver(t) ==
    /\ MayFail
    /\ Waiting(t)
    /\ Publishes(task[t].kind)
    /\ UNCHANGED <<row, files, results, dir, disk, old, api, request, doomed>>

\* The process dies or the task raises; an open transaction is rolled back.
Stops(t) ==
    /\ MayFail
    /\ Active(t)
    /\ Ends(t)
    /\ doomed' = [doomed EXCEPT ![t] = {}]
    /\ UNCHANGED <<row, files, results, dir, disk, old, api, request>>

-----------------------------------------------------------------------------
(* process_upload *)

\* Mutant: the arguments of validate_transition are swapped.
Swapped == row = "ready"

\* validate_transition(current, PROCESSING)
MayProcess == row = "uploaded"

\* The status is read and validated in a session without a lock.
Validate(t) ==
    /\ IsAt(t, "process_upload", "started")
    /\ Moves(t, IF MayProcess THEN "validated" ELSE "marked")
    /\ UNCHANGED <<row, files, results, dir, disk, old, api, request, doomed>>

MarkProcessing(t) ==
    /\ IsAt(t, "process_upload", "validated")
    /\ row # "none"
    /\ row' = "processing"
    /\ Moves(t, "marked")
    /\ UNCHANGED <<files, results, dir, disk, old, api, request, doomed>>

\* The row was deleted in between: the update raises.
MarkFails(t) ==
    /\ IsAt(t, "process_upload", "validated")
    /\ row = "none"
    /\ Ends(t)
    /\ UNCHANGED <<row, files, results, dir, disk, old, api, request, doomed>>

\* UploadEngine.execute unpacks the archives and lists the .sol files.
Scan(t) ==
    /\ IsAt(t, "process_upload", "marked")
    /\ task' = [task EXCEPT ![t] = [at |-> "scanned", kind |-> @.kind,
                                    found |-> IF dir THEN disk ELSE {}]]
    /\ UNCHANGED <<row, files, results, dir, disk, old, api, request, doomed>>

\* Mutant: the status has a transaction of its own, before the file rows.
NoFileYet(t) ==
    /\ row # "none" /\ row' = "ready"
    /\ UNCHANGED files

\* One transaction adds the file rows and sets the status; a project without
\* contracts is ready as well, and one that is gone refuses the rows.
ListFiles(t) ==
    \/ row # "none" /\ row' = "ready" /\ files' = files \cup task[t].found
    \/ row = "none" /\ UNCHANGED <<row, files>>

CommitFiles(t) ==
    /\ IsAt(t, "process_upload", "scanned")
    /\ ListFiles(t)
    /\ Ends(t)
    /\ UNCHANGED <<results, dir, disk, old, api, request, doomed>>

-----------------------------------------------------------------------------
(* A triggered task *)

References == row # "none"

\* The result rows are committed, unless their project is gone: project_id is a
\* foreign key in every result table.
CommitResult(t) ==
    /\ Exists(t) /\ task[t].kind \in Kind /\ task[t].at = "started"
    /\ results' = IF References THEN results \cup {t} ELSE results
    /\ Ends(t)
    /\ UNCHANGED <<row, files, dir, disk, old, api, request, doomed>>

-----------------------------------------------------------------------------
(* cleanup_old_files *)

\* The age of the directory passes CLEANUP_DAYS.
Age ==
    /\ dir /\ ~old
    /\ api \in {"done", "rejected", "failed"}
    /\ old' = TRUE
    /\ UNCHANGED <<row, files, results, dir, disk, api, request, task, doomed>>

NothingToClean(t) ==
    /\ IsAt(t, "cleanup", "started")
    /\ ~(dir /\ old)
    /\ Ends(t)
    /\ UNCHANGED <<row, files, results, dir, disk, old, api, request, doomed>>

\* rmtree ignores its errors: files may stay behind, and the directory with
\* them, which is young again when something in it was removed.
RemoveDirectory(t) ==
    /\ IsAt(t, "cleanup", "started")
    /\ dir /\ old
    /\ \/ dir' = FALSE /\ disk' = {} /\ UNCHANGED old
       \/ MayFail /\ UNCHANGED dir /\ disk' \in SUBSET disk /\ old' \in BOOLEAN
    /\ Moves(t, "removed")
    /\ UNCHANGED <<row, files, results, api, request, doomed>>

\* _delete_project_rows deletes the dependent rows it can see.
DeleteDependents(t) ==
    /\ IsAt(t, "cleanup", "removed")
    /\ doomed' = [doomed EXCEPT ![t] = results \cup files]
    /\ Moves(t, "deleting")
    /\ UNCHANGED <<row, files, results, dir, disk, old, api, request>>

\* Mutant: the dependent rows are not deleted, and nothing refers to the project.
Unreferenced(t) == TRUE

Deletable(t) == results \cup files \subseteq doomed[t]

\* The project row goes last, and the transaction commits.
DeleteProject(t) ==
    /\ IsAt(t, "cleanup", "deleting")
    /\ Deletable(t)
    /\ row' = "none"
    /\ results' = results \ doomed[t]
    /\ files' = files \ doomed[t]
    /\ doomed' = [doomed EXCEPT ![t] = {}]
    /\ Ends(t)
    /\ UNCHANGED <<dir, disk, old, api, request>>

\* A row committed meanwhile still refers to the project, or the database
\* fails: rollback.  The exception is logged, and the project counts as cleaned.
DeleteFails(t) ==
    /\ IsAt(t, "cleanup", "deleting")
    /\ MayFail \/ ~Deletable(t)
    /\ doomed' = [doomed EXCEPT ![t] = {}]
    /\ Ends(t)
    /\ UNCHANGED <<row, files, results, dir, disk, old, api, request>>

-----------------------------------------------------------------------------
Create == CreateRow \/ SaveFiles \/ RejectFiles \/ PublishUpload \/ CreateFails

Serve(r) ==
    Look(r) \/ Refuse(r) \/ Trigger(r) \/ \E k \in Kind : ReadStatus(r, k)

Broker(t) == Take(t) \/ Redeliver(t) \/ Stops(t)

Process(t) == Validate(t) \/ MarkProcessing(t) \/ MarkFails(t) \/ Scan(t) \/ CommitFiles(t)

Cleanup(t) ==
    \/ NothingToClean(t) \/ RemoveDirectory(t) \/ DeleteDependents(t)
    \/ DeleteProject(t) \/ DeleteFails(t)

\* No identity is left for another message.
Done ==
    /\ \A t \in Task : Exists(t) /\ task[t].at = "over"
    /\ UNCHANGED vars

Next ==
    \/ Create \/ Beat \/ Age \/ Done
    \/ \E r \in Request : Serve(r)
    \/ \E t \in Task : Broker(t) \/ Process(t) \/ CommitResult(t) \/ Cleanup(t)

Spec == Init /\ [][Next]_vars

-----------------------------------------------------------------------------
(* Properties *)

TypeOK ==
    /\ row \in Status \cup {"none"}
    /\ files \in SUBSET SolFile
    /\ results \in SUBSET Task
    /\ dir \in BOOLEAN /\ old \in BOOLEAN
    /\ disk \in SUBSET SolFile
    /\ api \in {"idle", "created", "saved", "rejected", "done", "failed"}
    /\ request \in [Request -> Requests]
    /\ task \in [Task -> Tasks]
    /\ doomed \in [Task -> SUBSET (Task \cup SolFile)]

\* The upload task was delivered at most once.
DeliveredOnce ==
    \A t, u \in Task :
        /\ Exists(t) /\ task[t].kind = "process_upload"
        /\ Exists(u) /\ task[u].kind = "process_upload"
        => t = u

\* File rows and status are committed together: whatever is delivered twice,
\* fails or is being cleaned up, a ready project lists every contract in its
\* directory; and a project that is not ready lists none, unless the broker
\* delivered its upload twice.
ReadyMeansListed ==
    /\ row = "ready" => disk \subseteq files
    /\ DeliveredOnce /\ files # {} => row = "ready"

\* The checks in the trigger services suffice although the status is read long
\* before the task runs: a triggered task is only ever queued or running for a
\* project that is ready, or that a cleanup has removed since.  Only a second
\* delivery of the upload can take the status back under it.
OnlyReadyProjects ==
    \A t \in Task :
        Exists(t) /\ task[t].kind \in Kind /\ DeliveredOnce => row \in {"ready", "none"}

\* A cleanup racing with tasks that are still writing never leaves result rows
\* or file rows without their project.
NoOrphanRows == results # {} \/ files # {} => row # "none"

\* project_state.py: the status moves along VALID_TRANSITIONS only, although
\* process_upload validates one of its two changes and holds no lock, as long
\* as it is delivered once; besides, the row is created and deleted once.
StatusOnlyForward ==
    [][row' # row /\ DeliveredOnce => <<row, row'>> \in
         {<<"none", "uploaded">>, <<"uploaded", "processing">>, <<"processing", "ready">>}
         \cup Status \X {"none"}]_vars
=============================================================================
