----------------------- MODULE ProjectLifecycle_proofs -----------------------
(***************************************************************************)
(* Theorems about ProjectLifecycle, for every number of contracts,         *)
(* requests, messages and worker processes: its type, the status machine,  *)
(* and what a cleanup that races with tasks leaves behind.                 *)
(***************************************************************************)
EXTENDS ProjectLifecycle, TLAPS

(***************************************************************************)
(* The inductive invariant                                                 *)
(***************************************************************************)

Uploads(t) == Exists(t) /\ task[t].kind = "process_upload"

\* While the project is being created nothing but cleanups can have been
\* published, and they find nothing to clean.
BeingCreated ==
    api \in {"idle", "created", "saved"} =>
        /\ row = IF api = "idle" THEN "none" ELSE "uploaded"
        /\ files = {} /\ results = {} /\ ~old
        /\ \A r \in Request : request[r] = Idle
        /\ \A t \in Task : Exists(t) =>
             task[t].kind = "cleanup" /\ task[t].at \in {"queued", "started", "over"}

UploadsPublished == \A t \in Task : Uploads(t) => api = "done"

\* What an upload task has found is all there is, or was.
ScanCovers ==
    /\ ~dir => disk = {}
    /\ \A t \in Task : task[t].at = "scanned" => disk \subseteq task[t].found

\* A project whose upload is delivered once has the status of its one upload
\* task, as long as that task lives, and no file rows.
StatusFollowsUpload ==
    DeliveredOnce =>
        \A t \in Task : Uploads(t) =>
            /\ task[t].at \in {"queued", "started", "validated"} =>
                 row \in {"uploaded", "none"}
            /\ task[t].at \in {"marked", "scanned"} => row \in {"processing", "none"}

RequestsNeedReady ==
    DeliveredOnce =>
        \A r \in Request : request[r] # Idle => row \in {"ready", "none"}

Inv ==
    /\ TypeOK
    /\ BeingCreated
    /\ UploadsPublished
    /\ ScanCovers
    /\ StatusFollowsUpload
    /\ RequestsNeedReady
    /\ ReadyMeansListed
    /\ OnlyReadyProjects
    /\ NoOrphanRows

-----------------------------------------------------------------------------
(* Messages *)

Steps == {"started", "validated", "marked", "removed", "deleting", "over"}

\* What a task's own step does to the messages.
LEMMA Moved ==
    ASSUME TypeOK, NEW t \in Task, Exists(t), NEW s \in Steps, Moves(t, s)
    PROVE  /\ task' \in [Task -> Tasks]
           /\ \A u \in Task : u # t => task'[u] = task[u]
           /\ task'[t].at = s /\ task'[t].kind = task[t].kind
<1>1. task \in [Task -> Tasks] /\ task[t] \in Tasks /\ task[t].at # "unused"
  BY DEF TypeOK, Exists
<1>2. task[t].kind \in TaskKind
  BY <1>1 DEF Tasks, TaskKind
<1>3. [at |-> s, kind |-> task[t].kind] \in Tasks
  BY <1>2 DEF Tasks, Steps
<1> QED
  BY <1>1, <1>3 DEF Moves

\* What a publication does to them.
LEMMA Published ==
    ASSUME TypeOK, NEW k \in TaskKind, Publishes(k)
    PROVE  \E t \in Task :
              /\ ~Exists(t)
              /\ task' \in [Task -> Tasks]
              /\ task'[t] = Queued(k)
              /\ \A u \in Task : u # t => task'[u] = task[u]
BY DEF TypeOK, Publishes, Tasks, Queued

\* No message disappears or changes its kind.
Kept ==
    \A t \in Task : Exists(t) => Exists(t)' /\ task'[t].kind = task[t].kind

\* A second delivery is never undone.
LEMMA DeliveriesStay == Kept /\ DeliveredOnce' => DeliveredOnce
BY DEF Kept, DeliveredOnce, Exists

\* A task moves on and nothing else changes.
LEMMA MoveInv ==
    ASSUME Inv, NEW t \in Task, Exists(t), NEW s \in Steps, Moves(t, s),
           UNCHANGED <<row, files, results, dir, disk, old, api, request>>,
           doomed' \in [Task -> SUBSET (Task \cup SolFile)],
           task[t].kind = "cleanup" /\ api \in {"idle", "created", "saved"}
               => s \in {"started", "over"},
           Uploads(t) /\ DeliveredOnce =>
               /\ s \in {"started", "validated"} => row \in {"uploaded", "none"}
               /\ s = "marked" => row \in {"processing", "none"}
    PROVE  Inv'
<1>1. /\ task' \in [Task -> Tasks]
      /\ \A u \in Task : u # t => task'[u] = task[u]
      /\ task'[t].at = s /\ task'[t].kind = task[t].kind
  BY Moved DEF Inv
<1>2. \A u \in Task : Exists(u)' = Exists(u) /\ (Exists(u) => task'[u].kind = task[u].kind)
  BY <1>1 DEF Exists, Steps
<1>3. DeliveredOnce' = DeliveredOnce
  BY <1>2 DEF DeliveredOnce
<1>4. TypeOK'
  BY <1>1 DEF Inv, TypeOK
<1>5. BeingCreated'
  BY <1>1, <1>2 DEF Inv, BeingCreated
<1>6. UploadsPublished'
  BY <1>2 DEF Inv, UploadsPublished, Uploads
<1>7. ScanCovers'
  BY <1>1 DEF Inv, ScanCovers, Steps
<1>8. StatusFollowsUpload'
  BY <1>1, <1>2, <1>3 DEF Inv, StatusFollowsUpload, Uploads, Steps
<1>9. RequestsNeedReady'
  BY <1>3 DEF Inv, RequestsNeedReady
<1>10. ReadyMeansListed' /\ OnlyReadyProjects' /\ NoOrphanRows'
  BY <1>2, <1>3 DEF Inv, ReadyMeansListed, OnlyReadyProjects, NoOrphanRows
<1> QED
  BY <1>4, <1>5, <1>6, <1>7, <1>8, <1>9, <1>10 DEF Inv

\* A message is published, by whom is ready to, and requests may become idle.
LEMMA PublishInv ==
    ASSUME Inv, NEW k \in TaskKind, Publishes(k),
           UNCHANGED <<row, files, results, dir, disk, old, doomed>>,
           k # "cleanup" => api' \notin {"idle", "created", "saved"},
           k = "process_upload" => api' = "done" /\ (DeliveredOnce' => row = "uploaded"),
           k \in Kind /\ DeliveredOnce => row \in {"ready", "none"},
           api' = api \/ (api = "saved" /\ api' = "done"),
           request' \in [Request -> Requests],
           \A r \in Request : request'[r] \in {request[r], Idle}
    PROVE  Inv'
<1>1. PICK t \in Task : /\ ~Exists(t)
                        /\ task' \in [Task -> Tasks]
                        /\ task'[t] = Queued(k)
                        /\ \A u \in Task : u # t => task'[u] = task[u]
  BY Published DEF Inv
<1>2. task'[t].at = "queued" /\ task'[t].kind = k
  BY <1>1 DEF Queued
<1>3. Kept
  BY <1>1 DEF Kept, Exists
<1>4. DeliveredOnce' => DeliveredOnce
  BY <1>3, DeliveriesStay
<1>5. TypeOK'
  BY <1>1 DEF Inv, TypeOK
<1>6. BeingCreated'
  BY <1>1, <1>2 DEF Inv, BeingCreated, Exists
<1>7. UploadsPublished'
  BY <1>1, <1>2 DEF Inv, UploadsPublished, Uploads, Exists
<1>8. ScanCovers'
  BY <1>1, <1>2 DEF Inv, ScanCovers
<1>9. StatusFollowsUpload'
  BY <1>1, <1>2, <1>4 DEF Inv, StatusFollowsUpload, Uploads, Exists
<1>10. RequestsNeedReady'
  BY <1>4 DEF Inv, RequestsNeedReady
<1>11. ReadyMeansListed' /\ NoOrphanRows'
  BY <1>4 DEF Inv, ReadyMeansListed, NoOrphanRows
<1>12. OnlyReadyProjects'
  BY <1>1, <1>2, <1>4 DEF Inv, OnlyReadyProjects, Exists
<1> QED
  BY <1>5, <1>6, <1>7, <1>8, <1>9, <1>10, <1>11, <1>12 DEF Inv

\* A request moves on and nothing else changes.
LEMMA RequestInv ==
    ASSUME Inv, request' \in [Request -> Requests],
           UNCHANGED <<row, files, results, dir, disk, old, api, task, doomed>>,
           \A r \in Request : request'[r] = Idle \/ request[r] # Idle \/ row = "ready"
    PROVE  Inv'
<1>1. DeliveredOnce' = DeliveredOnce
  BY DEF DeliveredOnce, Exists
<1>2. TypeOK' /\ UploadsPublished' /\ ScanCovers' /\ StatusFollowsUpload'
  BY <1>1 DEF Inv, TypeOK, UploadsPublished, ScanCovers, StatusFollowsUpload, Uploads, Exists
<1>3. BeingCreated'
  BY DEF Inv, BeingCreated, Exists
<1>4. RequestsNeedReady'
  BY <1>1 DEF Inv, RequestsNeedReady
<1>5. ReadyMeansListed' /\ OnlyReadyProjects' /\ NoOrphanRows'
  BY <1>1 DEF Inv, ReadyMeansListed, OnlyReadyProjects, NoOrphanRows, Exists
<1> QED
  BY <1>2, <1>3, <1>4, <1>5 DEF Inv

-----------------------------------------------------------------------------
(* The initial state, the creation and the triggers *)

LEMMA InitInv == ASSUME Init PROVE Inv
<1>1. TypeOK
  BY DEF Init, TypeOK, Requests, Tasks, Idle, Unused
<1>2. \A t \in Task : ~Exists(t) /\ task[t].at # "scanned"
  BY DEF Init, Unused, Exists
<1>3. BeingCreated /\ UploadsPublished /\ ScanCovers /\ StatusFollowsUpload
      /\ RequestsNeedReady
  BY <1>2 DEF Init, BeingCreated, UploadsPublished, ScanCovers, StatusFollowsUpload,
       RequestsNeedReady, Uploads
<1>4. ReadyMeansListed /\ OnlyReadyProjects /\ NoOrphanRows
  BY <1>2 DEF Init, ReadyMeansListed, OnlyReadyProjects, NoOrphanRows
<1> QED
  BY <1>1, <1>3, <1>4 DEF Inv

\* The steps of create_project_with_files before it publishes anything.
LEMMA CreationInv ==
    ASSUME Inv, CreateRow \/ SaveFiles \/ RejectFiles \/ CreateFails
    PROVE  Inv'
<1>1. /\ UNCHANGED <<files, results, old, request, task, doomed>>
      /\ api \in {"idle", "created", "saved"}
      /\ \/ api = "idle" /\ api' = "created" /\ row' = "uploaded" /\ UNCHANGED <<dir, disk>>
         \/ /\ api = "created" /\ api' = "saved" /\ row' = row
            /\ dir' = TRUE /\ disk' \in SUBSET SolFile
         \/ /\ api' = "rejected" /\ row' = "none" /\ dir' = TRUE /\ disk' = disk
         \/ api \in {"created", "saved"} /\ api' = "failed" /\ UNCHANGED <<row, dir, disk>>
  BY DEF CreateRow, SaveFiles, RejectFiles, CreateFails
<1>2. /\ row = IF api = "idle" THEN "none" ELSE "uploaded"
      /\ files = {} /\ results = {} /\ ~old
      /\ \A r \in Request : request[r] = Idle
      /\ \A t \in Task : Exists(t) =>
           task[t].kind = "cleanup" /\ task[t].at \in {"queued", "started", "over"}
  BY <1>1 DEF Inv, BeingCreated
<1>3. DeliveredOnce' = DeliveredOnce
  BY <1>1 DEF DeliveredOnce, Exists
<1>4. TypeOK'
  BY <1>1 DEF Inv, TypeOK, Status
<1>5. BeingCreated'
  BY <1>1, <1>2 DEF BeingCreated, Exists
<1>6. UploadsPublished' /\ StatusFollowsUpload'
  BY <1>1, <1>2 DEF UploadsPublished, StatusFollowsUpload, Uploads, Exists
<1>7. ScanCovers'
  BY <1>1, <1>2 DEF Inv, ScanCovers, Exists
<1>8. RequestsNeedReady'
  BY <1>1, <1>2 DEF RequestsNeedReady, Idle
<1>9. OnlyReadyProjects'
  BY <1>1, <1>2, LifecycleAssumption DEF OnlyReadyProjects, Exists
<1>10. ReadyMeansListed' /\ NoOrphanRows'
  BY <1>1, <1>2 DEF ReadyMeansListed, NoOrphanRows
<1> QED
  BY <1>4, <1>5, <1>6, <1>7, <1>8, <1>9, <1>10 DEF Inv

LEMMA PublishUploadInv == ASSUME Inv, PublishUpload PROVE Inv'
<1>1. "process_upload" \in TaskKind
  BY DEF TaskKind
<1>2. row = "uploaded"
  BY DEF PublishUpload, Inv, BeingCreated
<1>3. request' = request /\ request \in [Request -> Requests]
  BY DEF PublishUpload, Inv, TypeOK
<1> QED
  BY <1>1, <1>2, <1>3, PublishInv, LifecycleAssumption DEF PublishUpload

LEMMA ServeInv == ASSUME Inv, NEW r \in Request, Serve(r) PROVE Inv'
<1>1. request \in [Request -> Requests]
  BY DEF Inv, TypeOK
<1>2. Idle \in Requests
  BY DEF Idle, Requests
<1>3. ASSUME NEW k \in Kind, ReadStatus(r, k) PROVE Inv'
  <2>1. [pc |-> "checked", kind |-> k] \in Requests
    BY DEF Requests
  <2> QED
    BY <1>1, <1>3, <2>1, RequestInv DEF ReadStatus, IsReady
<1>4. request[r].pc # "idle" => request[r].kind \in Kind /\ request[r] # Idle
  BY <1>1 DEF Requests, Idle
<1>5. CASE Look(r)
  <2>1. request[r].pc = "checked"
    BY <1>5 DEF Look
  <2>2. [request[r] EXCEPT !.pc = "looked"] \in Requests
    BY <1>1, <2>1 DEF Requests
  <2> QED
    BY <1>1, <1>4, <1>5, <2>1, <2>2, RequestInv DEF Look
<1>6. CASE Refuse(r)
  BY <1>1, <1>2, <1>6, RequestInv DEF Refuse
<1>7. CASE Trigger(r)
  <2>1. request[r].pc \in {"looked", "checked"} /\ request[r].kind \in Kind /\ request[r] # Idle
    BY <1>4, <1>7 DEF Trigger
  <2>2. request' \in [Request -> Requests]
        /\ \A q \in Request : request'[q] \in {request[q], Idle}
    BY <1>1, <1>2, <1>7 DEF Trigger
  <2>3. CASE Publishes(request[r].kind)
    <3>1. request[r].kind \in TaskKind
          /\ request[r].kind \notin {"cleanup", "process_upload"}
      BY <2>1, LifecycleAssumption DEF TaskKind
    <3>2. api \notin {"idle", "created", "saved"}
      BY <2>1 DEF Inv, BeingCreated
    <3>3. DeliveredOnce => row \in {"ready", "none"}
      BY <2>1 DEF Inv, RequestsNeedReady
    <3> QED
      BY <1>7, <2>2, <2>3, <3>1, <3>2, <3>3, PublishInv DEF Trigger
  <2>4. CASE UNCHANGED task
    BY <1>7, <2>2, <2>4, RequestInv DEF Trigger
  <2> QED
    BY <1>7, <2>3, <2>4 DEF Trigger
<1> QED
  BY <1>3, <1>5, <1>6, <1>7 DEF Serve

-----------------------------------------------------------------------------
(* The worker *)

LEMMA BrokerInv == ASSUME Inv, NEW t \in Task, Broker(t) PROVE Inv'
<1>1. doomed \in [Task -> SUBSET (Task \cup SolFile)]
  BY DEF Inv, TypeOK
<1>2. CASE Take(t)
  <2>1. Exists(t) /\ task[t].at = "queued"
    BY <1>2 DEF Take, Waiting, Exists
  <2>2. Uploads(t) /\ DeliveredOnce => row \in {"uploaded", "none"}
    BY <2>1 DEF Inv, StatusFollowsUpload
  <2> QED
    BY <1>1, <1>2, <2>1, <2>2, MoveInv DEF Take, Steps
<1>3. CASE Redeliver(t)
  <2>1. Exists(t) /\ task[t].at = "queued" /\ task[t].kind \in TaskKind
    BY <1>3 DEF Redeliver, Waiting, Exists, Inv, TypeOK, Tasks
  <2>2. api \in {"idle", "created", "saved"} => task[t].kind = "cleanup"
    BY <2>1 DEF Inv, BeingCreated
  <2>3. ASSUME task[t].kind = "process_upload" PROVE api = "done" /\ ~DeliveredOnce'
    <3>1. PICK u \in Task : /\ ~Exists(u)
                            /\ task'[u] = Queued(task[t].kind)
                            /\ \A v \in Task : v # u => task'[v] = task[v]
      BY <1>3, <2>1, Published DEF Redeliver, Inv
    <3>2. u # t /\ task'[t] = task[t]
      BY <2>1, <3>1
    <3> QED
      BY <2>1, <2>3, <3>1, <3>2 DEF Inv, UploadsPublished, Uploads, DeliveredOnce, Exists, Queued
  <2>4. task[t].kind \in Kind /\ DeliveredOnce => row \in {"ready", "none"}
    BY <2>1 DEF Inv, OnlyReadyProjects
  <2>5. request \in [Request -> Requests]
    BY DEF Inv, TypeOK
  <2> QED
    BY <1>3, <2>1, <2>2, <2>3, <2>4, <2>5, PublishInv DEF Redeliver
<1>4. CASE Stops(t)
  <2>1. Exists(t)
    BY <1>4 DEF Stops, Active, Exists
  <2>2. doomed' \in [Task -> SUBSET (Task \cup SolFile)]
    BY <1>1, <1>4 DEF Stops
  <2> QED
    BY <1>4, <2>1, <2>2, MoveInv DEF Stops, Ends, Steps
<1> QED
  BY <1>2, <1>3, <1>4 DEF Broker

\* A triggered task commits its rows only where there is a project.
LEMMA CommitResultInv == ASSUME Inv, NEW t \in Task, CommitResult(t) PROVE Inv'
<1>1. Exists(t) /\ task[t].kind \in Kind /\ Moves(t, "over") /\ "over" \in Steps
  BY DEF CommitResult, Ends, Steps
<1>2. /\ task' \in [Task -> Tasks]
      /\ \A u \in Task : u # t => task'[u] = task[u]
      /\ task'[t].at = "over" /\ task'[t].kind = task[t].kind
  BY <1>1, Moved DEF Inv
<1>3. \A u \in Task : Exists(u)' = Exists(u) /\ (Exists(u) => task'[u].kind = task[u].kind)
  BY <1>1, <1>2 DEF Exists
<1>4. DeliveredOnce' = DeliveredOnce
  BY <1>3 DEF DeliveredOnce
<1>5. api \notin {"idle", "created", "saved"}
  BY <1>1, LifecycleAssumption DEF Inv, BeingCreated
<1>6. TypeOK'
  BY <1>2 DEF Inv, TypeOK, CommitResult
<1>7. BeingCreated' /\ UploadsPublished' /\ ScanCovers'
  BY <1>2, <1>3, <1>5 DEF CommitResult, Inv, BeingCreated, UploadsPublished, Uploads, ScanCovers
<1>8. StatusFollowsUpload' /\ RequestsNeedReady'
  BY <1>2, <1>3, <1>4 DEF CommitResult, Inv, StatusFollowsUpload, Uploads, RequestsNeedReady
<1>9. ReadyMeansListed' /\ OnlyReadyProjects'
  BY <1>3, <1>4 DEF CommitResult, Inv, ReadyMeansListed, OnlyReadyProjects
<1>10. NoOrphanRows'
  BY DEF CommitResult, References, Inv, NoOrphanRows
<1> QED
  BY <1>6, <1>7, <1>8, <1>9, <1>10 DEF Inv

-----------------------------------------------------------------------------
(* process_upload *)

\* Under a single delivery the upload task finds the project uploaded.
LEMMA ValidateInv == ASSUME Inv, NEW t \in Task, Validate(t) PROVE Inv'
<1>1. Exists(t) /\ task[t].kind = "process_upload" /\ task[t].at = "started"
  BY DEF Validate, IsAt
<1>2. doomed \in [Task -> SUBSET (Task \cup SolFile)]
  BY DEF Inv, TypeOK
<1>3. Uploads(t) /\ DeliveredOnce => row \in {"uploaded", "none"}
  BY <1>1 DEF Inv, StatusFollowsUpload
<1>4. CASE MayProcess
  <2>1. Moves(t, "validated")
    BY <1>4 DEF Validate
  <2> QED
    BY <1>1, <1>2, <1>3, <2>1, MoveInv DEF Validate, Steps
<1>5. CASE ~MayProcess
  <2>1. Moves(t, "marked")
    BY <1>5 DEF Validate
  <2>2. Uploads(t) /\ DeliveredOnce => row = "none"
    BY <1>3, <1>5 DEF MayProcess
  <2> QED
    BY <1>1, <1>2, <2>1, <2>2, MoveInv DEF Validate, Steps
<1> QED
  BY <1>4, <1>5

\* A task that is alone with the project.
LEMMA OnlyUpload ==
    ASSUME Inv, DeliveredOnce, NEW t \in Task, Uploads(t), NEW u \in Task, Uploads(u)
    PROVE  u = t
BY DEF DeliveredOnce, Uploads

LEMMA MarkProcessingInv == ASSUME Inv, NEW t \in Task, MarkProcessing(t) PROVE Inv'
<1>1. Uploads(t) /\ Exists(t) /\ task[t].at = "validated" /\ Moves(t, "marked")
      /\ "marked" \in Steps
  BY DEF MarkProcessing, IsAt, Uploads, Steps
<1>2. /\ task' \in [Task -> Tasks]
      /\ \A u \in Task : u # t => task'[u] = task[u]
      /\ task'[t].at = "marked" /\ task'[t].kind = task[t].kind
  BY <1>1, Moved DEF Inv
<1>3. \A u \in Task : Exists(u)' = Exists(u) /\ (Exists(u) => task'[u].kind = task[u].kind)
  BY <1>1, <1>2 DEF Exists
<1>4. DeliveredOnce' = DeliveredOnce
  BY <1>3 DEF DeliveredOnce
<1>5. api = "done" /\ row # "none" /\ row' = "processing"
  BY <1>1 DEF MarkProcessing, Inv, UploadsPublished
<1>6. DeliveredOnce => row = "uploaded"
  BY <1>1, <1>5 DEF Inv, StatusFollowsUpload
<1>7. TypeOK'
  BY <1>2 DEF Inv, TypeOK, MarkProcessing, Status
<1>8. BeingCreated' /\ UploadsPublished' /\ ScanCovers'
  BY <1>2, <1>3, <1>5 DEF MarkProcessing, Inv, BeingCreated, UploadsPublished, Uploads, ScanCovers
<1>9. StatusFollowsUpload'
  <2> SUFFICES ASSUME DeliveredOnce', NEW u \in Task, Uploads(u)'
               PROVE  task'[u].at = "marked"
    BY <1>5 DEF StatusFollowsUpload
  <2>1. Uploads(u) /\ DeliveredOnce
    BY <1>3, <1>4 DEF Uploads
  <2> QED
    BY <1>1, <1>2, <2>1, OnlyUpload
<1>10. RequestsNeedReady'
  BY <1>4, <1>6 DEF MarkProcessing, Inv, RequestsNeedReady
<1>11. ReadyMeansListed'
  BY <1>4, <1>5, <1>6 DEF MarkProcessing, Inv, ReadyMeansListed
<1>12. OnlyReadyProjects'
  BY <1>3, <1>4, <1>6 DEF Inv, OnlyReadyProjects
<1>13. NoOrphanRows'
  BY <1>5 DEF NoOrphanRows
<1> QED
  BY <1>7, <1>8, <1>9, <1>10, <1>11, <1>12, <1>13 DEF Inv

LEMMA ScanInv == ASSUME Inv, NEW t \in Task, Scan(t) PROVE Inv'
<1> DEFINE found == IF dir THEN disk ELSE {}
<1>1. Uploads(t) /\ Exists(t) /\ task[t].kind = "process_upload" /\ task[t].at = "marked"
  BY DEF Scan, IsAt, Uploads
<1>2. found \in SUBSET SolFile /\ disk \subseteq found
  BY DEF Inv, TypeOK, ScanCovers
<1>3. [at |-> "scanned", kind |-> task[t].kind, found |-> found] \in Tasks
  BY <1>1, <1>2 DEF Tasks
<1>4. task' = [task EXCEPT ![t] = [at |-> "scanned", kind |-> task[t].kind, found |-> found]]
  BY DEF Scan
<1>5. /\ task' \in [Task -> Tasks]
      /\ \A u \in Task : u # t => task'[u] = task[u]
      /\ task'[t].at = "scanned" /\ task'[t].kind = task[t].kind /\ task'[t].found = found
  <2> HIDE DEF found
  <2> QED
    BY <1>3, <1>4 DEF Inv, TypeOK
<1>6. \A u \in Task : Exists(u)' = Exists(u) /\ (Exists(u) => task'[u].kind = task[u].kind)
  BY <1>1, <1>5 DEF Exists
<1>7. DeliveredOnce' = DeliveredOnce
  BY <1>6 DEF DeliveredOnce
<1> HIDE DEF found
<1>8. TypeOK'
  BY <1>5 DEF Scan, Inv, TypeOK
<1>9. api = "done"
  BY <1>1 DEF Inv, UploadsPublished
<1>10. BeingCreated' /\ UploadsPublished'
  BY <1>6, <1>9 DEF Scan, BeingCreated, UploadsPublished, Uploads
<1>11. ScanCovers'
  BY <1>2, <1>5 DEF Scan, Inv, ScanCovers
<1>12. StatusFollowsUpload'
  BY <1>1, <1>5, <1>6, <1>7 DEF Scan, Inv, StatusFollowsUpload, Uploads
<1>13. RequestsNeedReady' /\ ReadyMeansListed' /\ OnlyReadyProjects' /\ NoOrphanRows'
  BY <1>6, <1>7 DEF Scan, Inv, RequestsNeedReady, ReadyMeansListed, OnlyReadyProjects, NoOrphanRows
<1> QED
  BY <1>8, <1>10, <1>11, <1>12, <1>13 DEF Inv

LEMMA CommitFilesInv == ASSUME Inv, NEW t \in Task, CommitFiles(t) PROVE Inv'
<1>1. Uploads(t) /\ Exists(t) /\ task[t].at = "scanned" /\ Moves(t, "over")
      /\ "over" \in Steps
  BY DEF CommitFiles, IsAt, Uploads, Ends, Steps
<1>2. /\ task' \in [Task -> Tasks]
      /\ \A u \in Task : u # t => task'[u] = task[u]
      /\ task'[t].at = "over" /\ task'[t].kind = task[t].kind
  BY <1>1, Moved DEF Inv
<1>3. \A u \in Task : Exists(u)' = Exists(u) /\ (Exists(u) => task'[u].kind = task[u].kind)
  BY <1>1, <1>2 DEF Exists
<1>4. DeliveredOnce' = DeliveredOnce
  BY <1>3 DEF DeliveredOnce
<1>5. api = "done"
  BY <1>1 DEF Inv, UploadsPublished
<1>6. task[t].found \in SUBSET SolFile /\ disk \subseteq task[t].found
  BY <1>1 DEF Inv, TypeOK, Tasks, ScanCovers
<1>7. \/ row # "none" /\ row' = "ready" /\ files' = files \cup task[t].found
      \/ row = "none" /\ UNCHANGED <<row, files>>
  BY DEF CommitFiles, ListFiles
<1>8. TypeOK'
  BY <1>2, <1>6, <1>7 DEF CommitFiles, Inv, TypeOK, Status
<1>9. BeingCreated' /\ UploadsPublished' /\ ScanCovers'
  BY <1>2, <1>3, <1>5 DEF CommitFiles, Inv, BeingCreated, UploadsPublished, Uploads, ScanCovers
<1>10. StatusFollowsUpload'
  <2> SUFFICES ASSUME DeliveredOnce', NEW u \in Task, Uploads(u)'
               PROVE  task'[u].at = "over"
    BY DEF StatusFollowsUpload
  <2>1. Uploads(u) /\ DeliveredOnce
    BY <1>3, <1>4 DEF Uploads
  <2> QED
    BY <1>1, <1>2, <2>1, OnlyUpload
<1>11. RequestsNeedReady'
  BY <1>4, <1>7 DEF CommitFiles, Inv, RequestsNeedReady
<1>12. ReadyMeansListed'
  BY <1>4, <1>6, <1>7 DEF CommitFiles, Inv, ReadyMeansListed
<1>13. OnlyReadyProjects' /\ NoOrphanRows'
  BY <1>3, <1>4, <1>7 DEF CommitFiles, Inv, OnlyReadyProjects, NoOrphanRows
<1> QED
  BY <1>8, <1>9, <1>10, <1>11, <1>12, <1>13 DEF Inv

-----------------------------------------------------------------------------
(* cleanup_old_files *)

LEMMA AgeInv == ASSUME Inv, Age PROVE Inv'
<1>1. DeliveredOnce' = DeliveredOnce
  BY DEF Age, DeliveredOnce, Exists
<1>2. TypeOK' /\ BeingCreated' /\ UploadsPublished' /\ ScanCovers'
  BY DEF Age, Inv, TypeOK, BeingCreated, UploadsPublished, Uploads, ScanCovers, Exists
<1>3. StatusFollowsUpload' /\ RequestsNeedReady'
  BY <1>1 DEF Age, Inv, StatusFollowsUpload, Uploads, RequestsNeedReady, Exists
<1>4. ReadyMeansListed' /\ OnlyReadyProjects' /\ NoOrphanRows'
  BY <1>1 DEF Age, Inv, ReadyMeansListed, OnlyReadyProjects, NoOrphanRows, Exists
<1> QED
  BY <1>2, <1>3, <1>4 DEF Inv

\* Files only go, so what an upload task found still covers what is there.
LEMMA RemoveDirectoryInv == ASSUME Inv, NEW t \in Task, RemoveDirectory(t) PROVE Inv'
<1>1. Exists(t) /\ task[t].kind = "cleanup" /\ Moves(t, "removed") /\ "removed" \in Steps /\ old
  BY DEF RemoveDirectory, IsAt, Steps
<1>2. /\ task' \in [Task -> Tasks]
      /\ \A u \in Task : u # t => task'[u] = task[u]
      /\ task'[t].at = "removed" /\ task'[t].kind = task[t].kind
  BY <1>1, Moved DEF Inv
<1>3. \A u \in Task : Exists(u)' = Exists(u) /\ (Exists(u) => task'[u].kind = task[u].kind)
  BY <1>1, <1>2 DEF Exists
<1>4. DeliveredOnce' = DeliveredOnce
  BY <1>3 DEF DeliveredOnce
<1>5. /\ disk' \subseteq disk
      /\ dir' \in BOOLEAN /\ old' \in BOOLEAN
      /\ ~dir' => disk' = {}
  BY DEF RemoveDirectory, Inv, TypeOK
<1>6. api \notin {"idle", "created", "saved"}
  BY <1>1 DEF Inv, BeingCreated
<1>7. TypeOK'
  BY <1>2, <1>5 DEF RemoveDirectory, Inv, TypeOK
<1>8. BeingCreated' /\ UploadsPublished'
  BY <1>3, <1>6 DEF RemoveDirectory, Inv, BeingCreated, UploadsPublished, Uploads
<1>9. ScanCovers'
  BY <1>2, <1>5 DEF Inv, ScanCovers
<1>10. StatusFollowsUpload' /\ RequestsNeedReady'
  BY <1>1, <1>2, <1>3, <1>4 DEF RemoveDirectory, Inv, StatusFollowsUpload, Uploads, RequestsNeedReady
<1>11. ReadyMeansListed' /\ OnlyReadyProjects' /\ NoOrphanRows'
  BY <1>3, <1>4, <1>5 DEF RemoveDirectory, Inv, ReadyMeansListed, OnlyReadyProjects, NoOrphanRows
<1> QED
  BY <1>7, <1>8, <1>9, <1>10, <1>11 DEF Inv

\* The project row goes with the last row that refers to it.
LEMMA DeleteProjectInv == ASSUME Inv, NEW t \in Task, DeleteProject(t) PROVE Inv'
<1>1. /\ Exists(t) /\ task[t].kind = "cleanup" /\ task[t].at = "deleting"
      /\ Moves(t, "over") /\ "over" \in Steps
  BY DEF DeleteProject, IsAt, Ends, Steps
<1>2. /\ task' \in [Task -> Tasks]
      /\ \A u \in Task : u # t => task'[u] = task[u]
      /\ task'[t].at = "over" /\ task'[t].kind = task[t].kind
  BY <1>1, Moved DEF Inv
<1>3. \A u \in Task : Exists(u)' = Exists(u) /\ (Exists(u) => task'[u].kind = task[u].kind)
  BY <1>1, <1>2 DEF Exists
<1>4. DeliveredOnce' = DeliveredOnce
  BY <1>3 DEF DeliveredOnce
<1>5. row' = "none" /\ files' = {} /\ results' = {}
  BY DEF DeleteProject, Deletable
<1>6. api \notin {"idle", "created", "saved"}
  BY <1>1 DEF Inv, BeingCreated
<1>7. TypeOK'
  BY <1>2, <1>5 DEF DeleteProject, Inv, TypeOK
<1>8. BeingCreated' /\ UploadsPublished' /\ ScanCovers'
  BY <1>2, <1>3, <1>6 DEF DeleteProject, Inv, BeingCreated, UploadsPublished, Uploads, ScanCovers
<1>9. StatusFollowsUpload' /\ RequestsNeedReady'
  BY <1>5 DEF StatusFollowsUpload, RequestsNeedReady
<1>10. ReadyMeansListed' /\ OnlyReadyProjects' /\ NoOrphanRows'
  BY <1>5 DEF ReadyMeansListed, OnlyReadyProjects, NoOrphanRows
<1> QED
  BY <1>7, <1>8, <1>9, <1>10 DEF Inv

LEMMA CleanupInv == ASSUME Inv, NEW t \in Task, Cleanup(t) PROVE Inv'
<1>1. doomed \in [Task -> SUBSET (Task \cup SolFile)]
      /\ results \cup files \in SUBSET (Task \cup SolFile)
  BY DEF Inv, TypeOK
<1>2. Exists(t) /\ task[t].kind = "cleanup" /\ ~Uploads(t)
  BY DEF Cleanup, NothingToClean, RemoveDirectory, DeleteDependents, DeleteProject,
         DeleteFails, IsAt, Uploads
<1>3. CASE NothingToClean(t)
  BY <1>1, <1>2, <1>3, MoveInv DEF NothingToClean, Ends, Steps
<1>4. CASE DeleteDependents(t)
  <2>1. task[t].at = "removed"
    BY <1>4 DEF DeleteDependents, IsAt
  <2>2. api \notin {"idle", "created", "saved"}
    BY <1>2, <2>1 DEF Inv, BeingCreated
  <2> QED
    BY <1>1, <1>2, <1>4, <2>2, MoveInv DEF DeleteDependents, Steps
<1>5. CASE DeleteFails(t)
  BY <1>1, <1>2, <1>5, MoveInv DEF DeleteFails, Ends, Steps
<1> QED
  BY <1>3, <1>4, <1>5, RemoveDirectoryInv, DeleteProjectInv DEF Cleanup

-----------------------------------------------------------------------------
(* The theorems *)

LEMMA NextInv == ASSUME Inv, [Next]_vars PROVE Inv'
<1>1. CASE Create
  BY <1>1, CreationInv, PublishUploadInv DEF Create
<1>2. CASE Beat
  <2>1. "cleanup" \in TaskKind /\ "cleanup" \notin Kind
    BY LifecycleAssumption DEF TaskKind
  <2>2. request \in [Request -> Requests]
    BY DEF Inv, TypeOK
  <2> QED
    BY <1>2, <2>1, <2>2, PublishInv DEF Beat
<1>3. ASSUME NEW t \in Task, Process(t) PROVE Inv'
  <2>1. CASE MarkFails(t)
    <3>1. Exists(t) /\ task[t].kind = "process_upload" /\ Moves(t, "over")
      BY <2>1 DEF MarkFails, IsAt, Ends
    <3>2. doomed \in [Task -> SUBSET (Task \cup SolFile)]
      BY DEF Inv, TypeOK
    <3> QED
      BY <2>1, <3>1, <3>2, MoveInv DEF MarkFails, Steps
  <2> QED
    BY <1>3, <2>1, ValidateInv, MarkProcessingInv, ScanInv, CommitFilesInv DEF Process
<1>4. CASE UNCHANGED vars
  <2>1. DeliveredOnce' = DeliveredOnce
    BY <1>4 DEF vars, DeliveredOnce, Exists
  <2>2. TypeOK' /\ BeingCreated' /\ UploadsPublished' /\ ScanCovers'
    BY <1>4 DEF vars, Inv, TypeOK, BeingCreated, UploadsPublished, Uploads, ScanCovers, Exists
  <2>3. StatusFollowsUpload' /\ RequestsNeedReady'
    BY <1>4, <2>1 DEF vars, Inv, StatusFollowsUpload, Uploads, RequestsNeedReady, Exists
  <2>4. ReadyMeansListed' /\ OnlyReadyProjects' /\ NoOrphanRows'
    BY <1>4, <2>1 DEF vars, Inv, ReadyMeansListed, OnlyReadyProjects, NoOrphanRows, Exists
  <2> QED
    BY <2>2, <2>3, <2>4 DEF Inv
<1> QED
  BY <1>1, <1>2, <1>3, <1>4, AgeInv, ServeInv, BrokerInv, CommitResultInv, CleanupInv
     DEF Next, Done

\* The inductive invariant holds in every reachable state.
THEOREM Invariance == Spec => []Inv
<1> QED
  BY InitInv, NextInv, PTL DEF Spec

\* Every variable keeps its type: in particular the status column only ever
\* holds a value of ProjectStatus.
THEOREM TypeCorrect == Spec => []TypeOK
<1>1. Inv => TypeOK
  BY DEF Inv
<1> QED
  BY <1>1, Invariance, PTL

\* A ready project lists every contract in its directory, whatever is delivered
\* twice, fails or is being cleaned up (process_upload's last transaction).
THEOREM ReadyIsListed == Spec => []ReadyMeansListed
<1>1. Inv => ReadyMeansListed
  BY DEF Inv
<1> QED
  BY <1>1, Invariance, PTL

\* The status check of the trigger services is enough for tasks that run much
\* later, as long as the upload message is delivered once.
THEOREM TasksSeeReadyProjects == Spec => []OnlyReadyProjects
<1>1. Inv => OnlyReadyProjects
  BY DEF Inv
<1> QED
  BY <1>1, Invariance, PTL

\* A cleanup that races with tasks never leaves rows without their project.
THEOREM CleanupLeavesNoOrphans == Spec => []NoOrphanRows
<1>1. Inv => NoOrphanRows
  BY DEF Inv
<1> QED
  BY <1>1, Invariance, PTL

\* No step takes the status anywhere but along VALID_TRANSITIONS, although
\* process_upload writes it unlocked and checks one of its two changes only.
THEOREM StatusMovesForward == Spec => StatusOnlyForward
<1> DEFINE Forward ==
      row' # row /\ DeliveredOnce => <<row, row'>> \in
         {<<"none", "uploaded">>, <<"uploaded", "processing">>, <<"processing", "ready">>}
         \cup Status \X {"none"}
<1>1. ASSUME Inv, [Next]_vars PROVE [Forward]_vars
  <2> SUFFICES ASSUME Next, row' # row, DeliveredOnce
               PROVE  <<row, row'>> \in
                        {<<"none", "uploaded">>, <<"uploaded", "processing">>,
                         <<"processing", "ready">>} \cup Status \X {"none"}
    BY <1>1
  <2>1. row \in Status \cup {"none"}
    BY <1>1 DEF Inv, TypeOK
  <2>2. CASE CreateRow
    BY <1>1, <2>2 DEF CreateRow, Inv, BeingCreated
  <2>3. CASE RejectFiles
    BY <2>1, <2>3 DEF RejectFiles
  <2>4. ASSUME NEW t \in Task, MarkProcessing(t) PROVE <<row, row'>> = <<"uploaded", "processing">>
    BY <1>1, <2>4 DEF MarkProcessing, IsAt, Inv, StatusFollowsUpload, Uploads
  <2>5. ASSUME NEW t \in Task, CommitFiles(t) PROVE <<row, row'>> = <<"processing", "ready">>
    BY <1>1, <2>5 DEF CommitFiles, ListFiles, IsAt, Inv, StatusFollowsUpload, Uploads
  <2>6. ASSUME NEW t \in Task, DeleteProject(t) PROVE row' = "none"
    BY <2>6 DEF DeleteProject
  <2>7. \/ CreateRow \/ RejectFiles
        \/ \E t \in Task : MarkProcessing(t) \/ CommitFiles(t) \/ DeleteProject(t)
    <3>1. Create => CreateRow \/ RejectFiles
      BY DEF Create, SaveFiles, PublishUpload, CreateFails
    <3>2. ~Beat /\ ~Age /\ ~Done
      BY DEF Beat, Age, Done, vars
    <3>3. \A r \in Request : ~Serve(r)
      BY DEF Serve, Look, Refuse, Trigger, ReadStatus
    <3>4. \A t \in Task : ~Broker(t) /\ ~CommitResult(t)
      BY DEF Broker, Take, Redeliver, Stops, CommitResult
    <3>5. \A t \in Task : Process(t) => MarkProcessing(t) \/ CommitFiles(t)
      BY DEF Process, Validate, MarkFails, Scan
    <3>6. \A t \in Task : Cleanup(t) => DeleteProject(t)
      BY DEF Cleanup, NothingToClean, RemoveDirectory, DeleteDependents, DeleteFails
    <3> QED
      BY <3>1, <3>2, <3>3, <3>4, <3>5, <3>6 DEF Next
  <2> QED
    BY <2>1, <2>2, <2>3, <2>4, <2>5, <2>6, <2>7
<1> HIDE DEF Forward
<1>2. Spec => [][Forward]_vars
  BY <1>1, Invariance, PTL DEF Spec
<1> QED
  BY <1>2, PTL DEF StatusOnlyForward, Forward
=============================================================================
