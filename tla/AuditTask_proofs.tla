--------------------------- MODULE AuditTask_proofs ---------------------------
(***************************************************************************)
(* Theorems about AuditTask, for every project, diff, pool size and budget:*)
(* type correctness, the ledger's identities, what a completed run is      *)
(* worth, and that the task implements RunLedger.                          *)
(***************************************************************************)
EXTENDS AuditTask, FiniteSetTheorems, TLAPS

(***************************************************************************)
(* The inductive invariant                                                 *)
(***************************************************************************)

\* Before the task has planned anything, no file has been touched.
Untouched ==
    pc = "start" =>
        /\ \A e \in Entry : stage[e] = "queued"
        /\ \A x \in Entry \X Unit : outcome[x] = "pending"
        /\ collected = {} /\ merged = NoCounts /\ allFindings = {}

\* How far the row is, at each place of the main thread.
RowFollowsTask ==
    /\ run.status = "none" => run = NoRow
    /\ run.status = "removed" => run = RemovedRow
    /\ pc \in {"start", "planned"} => run = NoRow
    /\ pc \in {"created", "auditing", "saved"} => run.status \in {"running", "removed"}
    /\ pc \in {"finished", "publishing", "done"} =>
         run.status \in {"completed", "degraded", "removed"}
    /\ pc = "failed" => run.status \in {"none", "failed", "removed"}
    /\ run.status = "failed" => pc = "failed"
    /\ notified => pc = "done"

\* The row keeps the number of files it was opened with.
RowKeepsTotal ==
    run.status \in {"running", "completed", "degraded"} =>
        run.files_total = Cardinality(entries)

\* A selected unit is never recorded as dropped, and once the file's worker has
\* returned it has the outcome of an audit.
SelectedGetOutcomes ==
    \A e \in Entry : \A u \in SelectedUnits(e) :
        /\ outcome[<<e, u>>] \in {"pending", "calling"} \cup Settled
        /\ stage[e] = "returned" => outcome[<<e, u>>] \in Settled

\* The records of a set of entries, and the units among them with findings.
Listing(C) == {x \in C \X Unit : stage[x[1]] = "returned" /\ x[2] \in Listed(x[1])}
FoundAmong(C) == {x \in C \X Unit : stage[x[1]] = "returned" /\ outcome[x] = "found"}

\* Results are collected from entries whose worker is done, each once ...
CollectedAreDone ==
    /\ collected \subseteq entries
    /\ \A e \in collected : stage[e] \in FileDone

\* ... so that at any time the counts are those of the entries collected so
\* far ...
MergedAddsUp ==
    /\ merged.files_processed + merged.files_unreadable = Cardinality(collected)
    /\ merged.functions_extracted = merged.functions_audited + merged.functions_skipped
                                  + merged.functions_failed + merged.functions_filtered
                                  + merged.functions_unchanged
    /\ merged.functions_extracted = Cardinality(Listing(collected))

\* ... and what went wrong with one of them shows in a count.
MergedHidesNothing ==
    \A e \in collected :
        /\ stage[e] # "returned" => merged.files_unreadable > 0
        /\ stage[e] = "returned" =>
             /\ ListedAs(e, Skipped) # {} => merged.functions_skipped > 0
             /\ ListedAs(e, Failed) # {} => merged.functions_failed > 0
             /\ ragFailed[e] > 0 => merged.rag_failures > 0

Tally ==
    /\ CollectedAreDone
    /\ MergedAddsUp
    /\ MergedHidesNothing
    /\ allFindings = FoundAmong(collected)

\* The row is closed over all entries, with the merged counts.
AllCollected ==
    /\ pc = "saved" => collected = entries
    /\ run.status \in {"completed", "degraded"} =>
         /\ collected = entries
         /\ run.functions_extracted = merged.functions_extracted

\* The findings in the table are those on the list, once it is complete.
FindingsAreSaved ==
    /\ findings \in {{}, allFindings}
    /\ pc \in {"start", "planned", "created", "auditing"} => findings = {}

Inv ==
    /\ TypeOK
    /\ Untouched
    /\ RowFollowsTask
    /\ RowKeepsTotal
    /\ SelectedGetOutcomes
    /\ Tally
    /\ AllCollected
    /\ FindingsAreSaved
    /\ LedgerBalances
    /\ CompletedMeansAudited

-----------------------------------------------------------------------------
(* The row build_coverage computes *)

\* Two finite sets without a common element: the size of their union.
LEMMA DisjointUnion ==
    ASSUME NEW S, NEW T, IsFiniteSet(S), IsFiniteSet(T), S \cap T = {}
    PROVE  /\ IsFiniteSet(S \cup T)
           /\ Cardinality(S \cup T) = Cardinality(S) + Cardinality(T)
           /\ Cardinality(S) \in Nat /\ Cardinality(T) \in Nat
<1>1. Cardinality(S) \in Nat /\ Cardinality(T) \in Nat
    BY FS_CardinalityType
<1>2. Cardinality(S \cap T) = 0
    BY FS_EmptySet
<1>3. /\ IsFiniteSet(S \cup T)
      /\ Cardinality(S \cup T) = Cardinality(S) + Cardinality(T) - Cardinality(S \cap T)
    BY FS_Union
<1> QED  BY <1>1, <1>2, <1>3

\* Everything the ledger counts is finite.
LEMMA FiniteLedger ==
    ASSUME TypeOK
    PROVE  /\ IsFiniteSet(entries)
           /\ IsFiniteSet(collected)
           /\ \A e : IsFiniteSet(Listed(e))
           /\ \A e, S : IsFiniteSet(ListedAs(e, S))
           /\ \A C \in SUBSET Entry : IsFiniteSet(Listing(C))
<1>1. IsFiniteSet(Entry)
    BY ConstantsAssumption, FS_Union DEF Entry
<1>2. IsFiniteSet(Entry \X Unit)
    BY <1>1, ConstantsAssumption, FS_Product
<1>3. IsFiniteSet(entries) /\ IsFiniteSet(collected)
    BY <1>1, FS_Subset DEF TypeOK
<1>4. ASSUME NEW e PROVE IsFiniteSet(Listed(e))
    <2>1. Listed(e) \subseteq Unit
        BY DEF Listed
    <2> QED  BY <2>1, ConstantsAssumption, FS_Subset
<1>5. ASSUME NEW e, NEW S PROVE IsFiniteSet(ListedAs(e, S))
    <2>1. ListedAs(e, S) \subseteq Listed(e)
        BY DEF ListedAs
    <2> QED  BY <1>4, <2>1, FS_Subset
<1>6. ASSUME NEW C \in SUBSET Entry PROVE IsFiniteSet(Listing(C))
    <2>1. Listing(C) \subseteq Entry \X Unit
        BY DEF Listing
    <2> QED  BY <1>2, <2>1, FS_Subset
<1> QED  BY <1>3, <1>4, <1>5, <1>6

\* A unit list is partitioned by the columns of the row.
LEMMA ListPartition ==
    ASSUME TypeOK, NEW e \in Entry
    PROVE  Cardinality(Listed(e)) =
               Cardinality(ListedAs(e, Audited)) + Cardinality(ListedAs(e, Skipped))
             + Cardinality(ListedAs(e, Failed)) + Cardinality(ListedAs(e, {"filtered"}))
             + Cardinality(ListedAs(e, {"unchanged"}))
<1> DEFINE A == ListedAs(e, Audited)
           B == ListedAs(e, Skipped)
           C == ListedAs(e, Failed)
           D == ListedAs(e, {"filtered"})
           E == ListedAs(e, {"unchanged"})
<1>1. /\ IsFiniteSet(A) /\ IsFiniteSet(B) /\ IsFiniteSet(C)
      /\ IsFiniteSet(D) /\ IsFiniteSet(E)
    BY FiniteLedger
<1>2. Listed(e) = (((A \cup B) \cup C) \cup D) \cup E
    <2>1. \A u \in Unit : outcome[<<e, u>>] \in Outcome
        BY DEF TypeOK
    <2> QED  BY <2>1 DEF Listed, ListedAs, Outcome, Settled, Audited, Skipped, Failed
<1>3. /\ A \cap B = {}
      /\ (A \cup B) \cap C = {}
      /\ ((A \cup B) \cup C) \cap D = {}
      /\ (((A \cup B) \cup C) \cup D) \cap E = {}
    BY DEF ListedAs, Audited, Skipped, Failed
<1> HIDE DEF A, B, C, D, E
<1>4. IsFiniteSet(A \cup B) /\ Cardinality(A \cup B) = Cardinality(A) + Cardinality(B)
    BY <1>1, <1>3, DisjointUnion
<1>5. /\ IsFiniteSet((A \cup B) \cup C)
      /\ Cardinality((A \cup B) \cup C) = Cardinality(A \cup B) + Cardinality(C)
    BY <1>1, <1>3, <1>4, DisjointUnion
<1>6. /\ IsFiniteSet(((A \cup B) \cup C) \cup D)
      /\ Cardinality(((A \cup B) \cup C) \cup D) = Cardinality((A \cup B) \cup C) + Cardinality(D)
    BY <1>1, <1>3, <1>5, DisjointUnion
<1>7. Cardinality((((A \cup B) \cup C) \cup D) \cup E)
        = Cardinality(((A \cup B) \cup C) \cup D) + Cardinality(E)
    BY <1>1, <1>3, <1>6, DisjointUnion
<1>8. Cardinality(Listed(e)) = Cardinality(A) + Cardinality(B) + Cardinality(C)
                             + Cardinality(D) + Cardinality(E)
    BY <1>2, <1>4, <1>5, <1>6, <1>7
<1> QED  BY <1>8 DEF A, B, C, D, E

\* What a closed row is: well typed, balanced, with a verdict that follows from
\* its own counts, and with the number of files the run was opened with.
LEMMA ClosedRowIsSound ==
    ASSUME TypeOK, Tally, collected = entries
    PROVE  /\ ClosedRow \in AuditRows
           /\ ClosedRow.files_total = Cardinality(entries)
           /\ ClosedRow.functions_extracted = merged.functions_extracted
           /\ FileIdentity(ClosedRow)
           /\ FunctionIdentity(ClosedRow)
           /\ ClosedRow.status = IF IsDegraded(ClosedRow) THEN "degraded" ELSE "completed"
<1>1. Cardinality(entries) \in Nat
    BY FiniteLedger, FS_CardinalityType
<1>2. \A c \in Count : merged[c] \in Nat
    BY DEF TypeOK
<1>3. PICK status \in {"degraded", "completed"} :
         /\ ClosedRow = Coverage(status)
         /\ status = IF IsDegraded(Coverage("running")) THEN "degraded" ELSE "completed"
    BY DEF ClosedRow
<1>4. IsDegraded(Coverage("running")) <=> IsDegraded(Coverage(status))
    BY DEF IsDegraded, Coverage
<1>5. Coverage(status) \in AuditRows
    BY <1>1, <1>2 DEF Coverage, Count, AuditRows, RowStatus
<1>6. FileIdentity(Coverage(status))
    BY DEF Tally, MergedAddsUp, FileIdentity, Coverage
<1>7. FunctionIdentity(Coverage(status))
    BY DEF Tally, MergedAddsUp, FunctionIdentity, Coverage
<1>8. /\ Coverage(status).files_total = Cardinality(entries)
      /\ Coverage(status).functions_extracted = merged.functions_extracted
      /\ Coverage(status).status = status
    BY DEF Coverage
<1> QED  BY <1>3, <1>4, <1>5, <1>6, <1>7, <1>8

\* A closed row that says completed has nothing to hide.
LEMMA CompletedRowIsHonest ==
    ASSUME TypeOK, SelectedGetOutcomes, Tally, collected = entries,
           ClosedRow.status = "completed"
    PROVE  EverythingAudited
<1>1. ~IsDegraded(ClosedRow)
    BY ClosedRowIsSound
<1>2. /\ ClosedRow.functions_skipped = merged.functions_skipped
      /\ ClosedRow.functions_failed = merged.functions_failed
      /\ ClosedRow.files_unreadable = merged.files_unreadable
      /\ ClosedRow.rag_failures = merged.rag_failures
    BY DEF ClosedRow, Coverage
<1>3. /\ merged.functions_skipped \in Nat /\ merged.functions_failed \in Nat
      /\ merged.files_unreadable \in Nat /\ merged.rag_failures \in Nat
    BY DEF TypeOK, Count
<1>4. /\ merged.functions_skipped = 0 /\ merged.functions_failed = 0
      /\ merged.files_unreadable = 0 /\ merged.rag_failures = 0
    BY <1>1, <1>2, <1>3 DEF IsDegraded
<1> SUFFICES ASSUME NEW e \in entries
             PROVE  /\ stage[e] = "returned"
                    /\ ragFailed[e] = 0
                    /\ \A u \in SelectedUnits(e) : outcome[<<e, u>>] \in Audited
    BY DEF EverythingAudited
<1>5. e \in Entry
    BY DEF TypeOK
<1>6. stage[e] = "returned" /\ ListedAs(e, Skipped) = {} /\ ListedAs(e, Failed) = {}
    BY <1>4 DEF Tally, MergedHidesNothing
<1>7. ragFailed[e] = 0
    <2>1. ragFailed[e] \in Nat
        BY <1>5 DEF TypeOK
    <2> QED  BY <1>4, <1>6, <2>1 DEF Tally, MergedHidesNothing
<1>8. ASSUME NEW u \in SelectedUnits(e)
      PROVE  outcome[<<e, u>>] \in Audited
    <2>1. u \in Unit
        BY DEF SelectedUnits, SharingKey, UnitsOf
    <2>2. outcome[<<e, u>>] \in Settled
        BY <1>5, <1>6 DEF SelectedGetOutcomes
    <2>3. u \in Listed(e)
        BY <2>1, <2>2 DEF Listed, Settled, Audited, Skipped, Failed
    <2>4. outcome[<<e, u>>] \notin Skipped /\ outcome[<<e, u>>] \notin Failed
        BY <1>6, <2>3 DEF ListedAs
    <2> QED  BY <2>2, <2>4 DEF Settled
<1> QED  BY <1>6, <1>7, <1>8

-----------------------------------------------------------------------------
(* Steps of the file and function workers *)

\* A selected unit is a unit of the entry's file, so it is never recorded as
\* dropped.
LEMMA SelectedAreNotDropped ==
    ASSUME TypeOK, NEW e \in Entry, NEW u \in SelectedUnits(e)
    PROVE  u \in Unit /\ u \notin DroppedUnits(e)
<1>1. u \in UnitsOf(FileOfEntry(e))
    <2>1. CASE mode = "incremental"
        BY <2>1 DEF SelectedUnits, SharingKey
    <2>2. CASE mode = "full" /\ e \notin DiffPath
        BY <2>2 DEF SelectedUnits, FileOfEntry
    <2>3. CASE mode = "full" /\ e \in DiffPath
        BY <2>3, ConstantsAssumption DEF SelectedUnits, UnitsOf, Entry
    <2> QED  BY <2>1, <2>2, <2>3, ConstantsAssumption DEF TypeOK
<1>2. u \in SharingKey(SelectedUnits(e), FileOfEntry(e))
    BY <1>1 DEF SharingKey
<1> QED  BY <1>1, <1>2 DEF DroppedUnits, UnitsOf

\* A worker of entry e, which is not done, leaves all other entries alone.
OnlyTouches(e) ==
    /\ stage[e] \notin FileDone
    /\ \A d \in Entry \ {e} :
         /\ stage'[d] = stage[d]
         /\ ragFailed'[d] = ragFailed[d]
         /\ \A u \in Unit : outcome'[<<d, u>>] = outcome[<<d, u>>]

\* So what was collected stays as it was counted.
LEMMA TallyKept ==
    ASSUME Inv, NEW e \in Entry, OnlyTouches(e), UNCHANGED <<entries, resultVars>>
    PROVE  Tally'
<1>1. collected' = collected /\ merged' = merged /\ allFindings' = allFindings
    BY DEF resultVars
<1>2. \A d \in collected : d \in Entry \ {e}
    BY DEF Inv, Tally, CollectedAreDone, TypeOK, OnlyTouches
<1>3. \A d \in collected :
        /\ stage'[d] = stage[d] /\ ragFailed'[d] = ragFailed[d]
        /\ \A u \in Unit : outcome'[<<d, u>>] = outcome[<<d, u>>]
    BY <1>2 DEF OnlyTouches
<1>4. ASSUME NEW d \in collected
      PROVE  /\ Listed(d)' = Listed(d)
             /\ ListedAs(d, Skipped)' = ListedAs(d, Skipped)
             /\ ListedAs(d, Failed)' = ListedAs(d, Failed)
    BY <1>3 DEF Listed, ListedAs, Skipped, Failed
<1>5. Listing(collected)' = Listing(collected)
    BY <1>1, <1>3, <1>4 DEF Listing
<1>6. FoundAmong(collected)' = FoundAmong(collected)
    BY <1>1, <1>3 DEF FoundAmong
<1>7. CollectedAreDone'
    BY <1>1, <1>3 DEF Inv, Tally, CollectedAreDone, FileDone
<1>8. MergedAddsUp'
    BY <1>1, <1>5 DEF Inv, Tally, MergedAddsUp
<1>9. MergedHidesNothing'
    BY <1>1, <1>3, <1>4 DEF Inv, Tally, MergedHidesNothing
<1> QED  BY <1>1, <1>6, <1>7, <1>8, <1>9 DEF Inv, Tally

\* What a worker step may change, it has to keep well typed and sound.
LEMMA WorkerStep ==
    ASSUME Inv, NEW e \in Entry, pc = "auditing", OnlyTouches(e), UNCHANGED taskVars,
           pc' \in {"auditing", "raising"}, TypeOK', SelectedGetOutcomes'
    PROVE  Inv'
<1>1. Untouched'
    BY DEF Untouched
<1>2. run.status \in {"running", "removed"} /\ ~notified
    BY DEF Inv, RowFollowsTask
<1>3. UNCHANGED <<run, entries, findings, notified, collected, merged, allFindings>>
    BY DEF taskVars, restVars, resultVars
<1>4. RowFollowsTask'
    BY <1>2, <1>3 DEF Inv, RowFollowsTask
<1>5. RowKeepsTotal'
    BY <1>3 DEF Inv, RowKeepsTotal
<1>6. Tally'
    BY <1>3, TallyKept DEF resultVars
<1>7. AllCollected'
    BY <1>2, <1>3 DEF AllCollected
<1>8. FindingsAreSaved'
    BY <1>3 DEF Inv, FindingsAreSaved
<1>9. LedgerBalances'
    BY <1>3 DEF Inv, LedgerBalances, FunctionIdentity, FileIdentity
<1>10. CompletedMeansAudited'
    BY <1>2, <1>3 DEF CompletedMeansAudited
<1> QED  BY <1>1, <1>4, <1>5, <1>6, <1>7, <1>8, <1>9, <1>10 DEF Inv

\* A step that moves only the stage of one entry, and not to "returned", keeps
\* what is known of the selected units.
LEMMA StageStep ==
    ASSUME Inv, NEW e \in Entry, NEW s, s # "returned",
           stage' = [stage EXCEPT ![e] = s],
           UNCHANGED <<mode, plan, outcome>>
    PROVE  SelectedGetOutcomes'
<1>1. ASSUME NEW f \in Entry PROVE SelectedUnits(f)' = SelectedUnits(f)
    BY DEF SelectedUnits, SharingKey, UnitsOf, FileOfEntry
<1>2. ASSUME NEW f \in Entry
      PROVE  stage'[f] = "returned" => stage[f] = "returned"
    BY DEF Inv, TypeOK
<1> QED  BY <1>1, <1>2 DEF Inv, SelectedGetOutcomes

\* A step that gives one unit of an entry still at its calls another outcome
\* of an audit.
LEMMA OutcomeStep ==
    ASSUME Inv, NEW e \in Entry, NEW u \in Unit,
           NEW o \in {"pending", "calling"} \cup Settled,
           stage[e] = "calls",
           outcome' = [outcome EXCEPT ![<<e, u>>] = o],
           UNCHANGED <<mode, plan, stage>>
    PROVE  SelectedGetOutcomes'
<1>1. ASSUME NEW f \in Entry PROVE SelectedUnits(f)' = SelectedUnits(f)
    BY DEF SelectedUnits, SharingKey, UnitsOf, FileOfEntry
<1>2. ASSUME NEW f \in Entry, NEW v \in SelectedUnits(f)
      PROVE  /\ outcome'[<<f, v>>] \in {"pending", "calling"} \cup Settled
             /\ stage[f] = "returned" => outcome'[<<f, v>>] \in Settled
    <2>1. <<f, v>> \in Entry \X Unit
        BY SelectedAreNotDropped DEF Inv
    <2>2. CASE <<f, v>> = <<e, u>>
        BY <2>1, <2>2 DEF Inv, TypeOK
    <2>3. CASE <<f, v>> # <<e, u>>
        BY <2>1, <2>3 DEF Inv, TypeOK, SelectedGetOutcomes
    <2> QED  BY <2>2, <2>3
<1> QED  BY <1>1, <1>2 DEF SelectedGetOutcomes

\* What FileRaises does to the two variables it changes.
LEMMA RaisingStep ==
    ASSUME Inv, NEW e \in Entry, pc = "auditing", FileRaises(e),
           stage[e] \notin FileDone, UNCHANGED <<mode, plan, outcome, ragFailed>>
    PROVE  /\ stage' \in [Entry -> {"queued", "summary", "rag", "calls"} \cup FileDone]
           /\ pc' \in {"auditing", "raising"}
           /\ OnlyTouches(e)
           /\ SelectedGetOutcomes'
<1>1. stage' = [stage EXCEPT ![e] = "raised"]
    BY DEF FileRaises
<1>2. SelectedGetOutcomes'
    BY <1>1, StageStep
<1>3. OnlyTouches(e)
    BY <1>1 DEF OnlyTouches, Inv, TypeOK
<1> QED  BY <1>1, <1>2, <1>3 DEF FileRaises, Inv, TypeOK, FileDone

\* Every step of a file worker preserves the invariant.
LEMMA FileStepInv ==
    ASSUME Inv, NEW e \in Entry, FileStep(e)
    PROVE  Inv'
<1> USE DEF Inv
<1>1. CASE SkipUnreadable(e)
    <2>1. TypeOK'
        BY <1>1 DEF SkipUnreadable, Takes, taskVars, restVars, resultVars, TypeOK, FileDone
    <2>2. SelectedGetOutcomes'
        BY <1>1, StageStep DEF SkipUnreadable, taskVars, restVars
    <2>3. OnlyTouches(e)
        BY <1>1 DEF SkipUnreadable, Takes, OnlyTouches, TypeOK, FileDone
    <2> QED  BY <1>1, <2>1, <2>2, <2>3, WorkerStep DEF SkipUnreadable, Takes
<1>2. CASE RaiseUndecodable(e)
    <2>1. /\ pc = "auditing" /\ UNCHANGED <<mode, plan, outcome, ragFailed>> /\ FileRaises(e)
          /\ stage[e] \notin FileDone
        BY <1>2 DEF RaiseUndecodable, Takes, taskVars, restVars, FileDone
    <2>2. TypeOK'
        BY <1>2, <2>1, RaisingStep DEF RaiseUndecodable, taskVars, restVars, resultVars, TypeOK
    <2> QED  BY <1>2, <2>1, <2>2, RaisingStep, WorkerStep DEF RaiseUndecodable
<1>3. CASE ReadFile(e)
    <2>1. /\ pc = "auditing" /\ e \in entries /\ stage[e] = "queued"
          /\ UNCHANGED <<mode, plan>>
        BY <1>3 DEF ReadFile, Takes, taskVars, restVars
    <2>2. ASSUME NEW f \in Entry PROVE SelectedUnits(f)' = SelectedUnits(f)
        BY <2>1 DEF SelectedUnits, SharingKey, UnitsOf, FileOfEntry
    <2>3. ASSUME NEW f \in Entry, NEW u \in SelectedUnits(f)
          PROVE  /\ outcome'[<<f, u>>] \in {"pending", "calling"} \cup Settled
                 /\ stage'[f] = "returned" => outcome'[<<f, u>>] \in Settled
        <3>1. u \in Unit /\ u \notin DroppedUnits(f)
            BY SelectedAreNotDropped
        <3>2. outcome'[<<f, u>>] = outcome[<<f, u>>]
            BY <1>3, <3>1 DEF ReadFile
        <3>3. stage'[f] = "returned" => stage[f] = "returned" \/ SelectedUnits(f) = {}
            BY <1>3 DEF ReadFile, TypeOK
        <3> QED  BY <3>2, <3>3 DEF SelectedGetOutcomes
    <2>4. SelectedGetOutcomes'
        BY <2>2, <2>3 DEF SelectedGetOutcomes
    <2>5. stage' \in [Entry -> {"queued", "summary", "rag", "calls"} \cup FileDone]
        BY <1>3 DEF ReadFile, TypeOK, FileDone
    <2>6. outcome' \in [Entry \X Unit -> Outcome]
        BY <1>3 DEF ReadFile, TypeOK, Outcome, DroppedAs
    <2>7. TypeOK'
        BY <1>3, <2>5, <2>6 DEF ReadFile, taskVars, restVars, resultVars, TypeOK
    <2>8. OnlyTouches(e)
        BY <1>3, <2>1 DEF ReadFile, OnlyTouches, TypeOK, FileDone
    <2> QED  BY <1>3, <2>1, <2>4, <2>7, <2>8, WorkerStep DEF ReadFile
<1>4. CASE Summarize(e)
    <2>1. /\ pc = "auditing" /\ UNCHANGED <<mode, plan, outcome, ragFailed>>
          /\ stage[e] \notin FileDone
        BY <1>4 DEF Summarize, taskVars, restVars, FileDone
    <2>2. CASE stage' = [stage EXCEPT ![e] = "rag"] /\ pc' = pc
        <3>1. TypeOK'
            BY <1>4, <2>2 DEF Summarize, taskVars, restVars, resultVars, TypeOK
        <3>2. OnlyTouches(e)
            BY <2>1, <2>2 DEF OnlyTouches, TypeOK
        <3> QED  BY <1>4, <2>1, <2>2, <3>1, <3>2, StageStep, WorkerStep DEF Summarize
    <2>3. CASE FileRaises(e)
        <3>1. TypeOK'
            BY <1>4, <2>1, <2>3, RaisingStep DEF Summarize, taskVars, restVars, resultVars, TypeOK
        <3> QED  BY <1>4, <2>1, <2>3, <3>1, RaisingStep, WorkerStep DEF Summarize
    <2> QED  BY <1>4, <2>2, <2>3 DEF Summarize
<1>5. CASE Retrieve(e)
    <2>1. /\ pc = "auditing" /\ UNCHANGED <<mode, plan, outcome>> /\ stage[e] \notin FileDone
          /\ stage' = [stage EXCEPT ![e] = "calls"]
        BY <1>5 DEF Retrieve, taskVars, restVars, FileDone
    <2>2. PICK n \in 0..Cardinality(SelectedUnits(e)) : ragFailed' = [ragFailed EXCEPT ![e] = n]
        BY <1>5 DEF Retrieve
    <2>3. SelectedUnits(e) \subseteq Unit
        BY DEF SelectedUnits, SharingKey, UnitsOf
    <2>4. Cardinality(SelectedUnits(e)) \in Nat
        BY <2>3, ConstantsAssumption, FS_Subset, FS_CardinalityType
    <2>5. n \in Nat
        BY <2>4
    <2>6. TypeOK'
        BY <1>5, <2>1, <2>2, <2>5 DEF Retrieve, taskVars, restVars, resultVars, TypeOK
    <2>7. OnlyTouches(e)
        BY <2>1, <2>2 DEF OnlyTouches, TypeOK
    <2> QED  BY <1>5, <2>1, <2>6, <2>7, StageStep, WorkerStep DEF Retrieve
<1>6. CASE RetrievalGivesUp(e)
    <2>1. /\ pc = "auditing" /\ UNCHANGED <<mode, plan, outcome, ragFailed>> /\ FileRaises(e)
          /\ stage[e] \notin FileDone
        BY <1>6 DEF RetrievalGivesUp, taskVars, restVars, FileDone
    <2>2. TypeOK'
        BY <1>6, <2>1, RaisingStep DEF RetrievalGivesUp, taskVars, restVars, resultVars, TypeOK
    <2> QED  BY <1>6, <2>1, <2>2, RaisingStep, WorkerStep DEF RetrievalGivesUp
<1>7. CASE ReturnFile(e)
    <2>1. /\ pc = "auditing" /\ UNCHANGED <<mode, plan, outcome>> /\ stage[e] = "calls"
        BY <1>7 DEF ReturnFile, taskVars, restVars
    <2>2. ASSUME NEW f \in Entry PROVE SelectedUnits(f)' = SelectedUnits(f)
        BY <2>1 DEF SelectedUnits, SharingKey, UnitsOf, FileOfEntry
    <2>3. ASSUME NEW u \in SelectedUnits(e) PROVE outcome[<<e, u>>] \in Settled
        BY <1>7 DEF ReturnFile, WithOutcome, SelectedGetOutcomes
    <2>4. ASSUME NEW f \in Entry, f # e PROVE stage'[f] = stage[f]
        BY <1>7, <2>4 DEF ReturnFile, TypeOK
    <2>5. SelectedGetOutcomes'
        BY <2>1, <2>2, <2>3, <2>4 DEF SelectedGetOutcomes
    <2>6. TypeOK'
        BY <1>7 DEF ReturnFile, taskVars, restVars, resultVars, TypeOK, FileDone
    <2>7. OnlyTouches(e)
        BY <1>7, <2>1 DEF ReturnFile, OnlyTouches, TypeOK, FileDone
    <2> QED  BY <1>7, <2>1, <2>5, <2>6, <2>7, WorkerStep DEF ReturnFile
<1> QED  BY <1>1, <1>2, <1>3, <1>4, <1>5, <1>6, <1>7 DEF FileStep

\* Every step of a function worker preserves the invariant.
LEMMA CallStepInv ==
    ASSUME Inv, NEW e \in Entry, NEW u \in Unit, CallStep(e, u)
    PROVE  Inv'
<1> USE DEF Inv
<1>1. CASE StartCall(e, u) \/ Reply(e, u) \/ CallFails(e, u)
    <2>1. /\ pc = "auditing" /\ pc' = "auditing" /\ stage[e] = "calls"
          /\ UNCHANGED <<mode, plan, stage, ragFailed>> /\ UNCHANGED taskVars
        BY <1>1 DEF StartCall, Reply, CallFails, Waiting, taskVars, restVars
    <2>2. PICK o \in {"calling"} \cup Settled : outcome' = [outcome EXCEPT ![<<e, u>>] = o]
        <3>1. CASE StartCall(e, u)
            BY <3>1 DEF StartCall, Settled, Skipped
        <3>2. CASE Reply(e, u) \/ CallFails(e, u)
            BY <3>2 DEF Reply, CallFails, Settled, Failed
        <3> QED  BY <1>1, <3>1, <3>2
    <2>3. o \in Outcome
        BY DEF Outcome
    <2>4. SelectedGetOutcomes'
        BY <2>1, <2>2, OutcomeStep
    <2>5. calls' \in Nat
        BY <1>1 DEF StartCall, Reply, CallFails, TypeOK
    <2>6. TypeOK'
        BY <2>1, <2>2, <2>3, <2>5 DEF taskVars, restVars, resultVars, TypeOK
    <2>7. OnlyTouches(e)
        BY <2>1, <2>2 DEF OnlyTouches, TypeOK, FileDone
    <2> QED  BY <2>1, <2>4, <2>6, <2>7, WorkerStep
<1>2. CASE CallEscapes(e, u)
    <2>1. /\ pc = "auditing" /\ UNCHANGED <<mode, plan, outcome, ragFailed>> /\ FileRaises(e)
          /\ stage[e] \notin FileDone
        BY <1>2 DEF CallEscapes, Waiting, taskVars, restVars, FileDone
    <2>2. TypeOK'
        BY <1>2, <2>1, RaisingStep DEF CallEscapes, taskVars, restVars, resultVars, TypeOK
    <2> QED  BY <1>2, <2>1, <2>2, RaisingStep, WorkerStep DEF CallEscapes
<1> QED  BY <1>1, <1>2 DEF CallStep

-----------------------------------------------------------------------------
(* Steps of the main thread *)

\* From the creation of the row on, the main thread leaves the files alone ...
fileKeeps == <<mode, entries, plan, stage, outcome, ragFailed>>

\* ... and, but for _collect, the lists the results were appended to.
mainKeeps == <<fileKeeps, resultVars>>

\* What is known of the files and units is carried along.
LEMMA FilesKept ==
    ASSUME Inv, UNCHANGED fileKeeps
    PROVE  /\ SelectedGetOutcomes'
           /\ \A e : Listed(e)' = Listed(e)
           /\ \A e, S : ListedAs(e, S)' = ListedAs(e, S)
           /\ \A C : Listing(C)' = Listing(C)
           /\ \A C : FoundAmong(C)' = FoundAmong(C)
           /\ EverythingAudited' <=> EverythingAudited
<1>1. ASSUME NEW f \in Entry PROVE SelectedUnits(f)' = SelectedUnits(f)
    BY DEF fileKeeps, SelectedUnits, SharingKey, UnitsOf, FileOfEntry
<1>2. SelectedGetOutcomes'
    BY <1>1 DEF fileKeeps, Inv, SelectedGetOutcomes
<1>3. \A e : Listed(e)' = Listed(e)
    BY DEF fileKeeps, Listed
<1>4. \A e, S : ListedAs(e, S)' = ListedAs(e, S)
    BY DEF fileKeeps, Listed, ListedAs
<1>5. \A C : Listing(C)' = Listing(C)
    BY DEF fileKeeps, Listed, Listing
<1>6. \A C : FoundAmong(C)' = FoundAmong(C)
    BY DEF fileKeeps, FoundAmong
<1>7. entries \subseteq Entry
    BY DEF Inv, TypeOK
<1>8. EverythingAudited' <=> EverythingAudited
    BY <1>1, <1>7 DEF fileKeeps, EverythingAudited
<1> QED  BY <1>2, <1>3, <1>4, <1>5, <1>6, <1>8

LEMMA MainKeepsTally ==
    ASSUME Inv, UNCHANGED mainKeeps
    PROVE  Tally'
<1>1. UNCHANGED fileKeeps /\ UNCHANGED <<collected, merged, allFindings>>
    BY DEF mainKeeps, resultVars
<1>2. CollectedAreDone'
    BY <1>1 DEF Inv, Tally, CollectedAreDone, fileKeeps
<1>3. Listing(collected)' = Listing(collected)
    BY <1>1 DEF Listing, Listed, fileKeeps
<1>4. MergedAddsUp'
    BY <1>1, <1>3 DEF Inv, Tally, MergedAddsUp
<1>5. MergedHidesNothing'
    BY <1>1 DEF Inv, Tally, MergedHidesNothing, ListedAs, Listed, Skipped, Failed, fileKeeps
<1>6. FoundAmong(collected)' = FoundAmong(collected)
    BY <1>1 DEF FoundAmong, fileKeeps
<1> QED  BY <1>1, <1>2, <1>4, <1>5, <1>6 DEF Inv, Tally

\* A main step that leaves the row alone only has to fit the row's progress.
LEMMA QuietMainStep ==
    ASSUME Inv, UNCHANGED mainKeeps, UNCHANGED <<run, findings>>, pc' # "start",
           TypeOK', RowFollowsTask', AllCollected', FindingsAreSaved'
    PROVE  Inv'
<1>1. UNCHANGED fileKeeps /\ entries' = entries
    BY DEF mainKeeps, fileKeeps
<1>2. SelectedGetOutcomes' /\ CompletedMeansAudited'
    BY <1>1, FilesKept DEF Inv, CompletedMeansAudited
<1>3. LedgerBalances'
    BY DEF Inv, LedgerBalances, FunctionIdentity, FileIdentity
<1>4. Tally'
    BY MainKeepsTally
<1>5. Untouched' /\ RowKeepsTotal'
    BY <1>1 DEF Untouched, Inv, RowKeepsTotal
<1> QED  BY <1>2, <1>3, <1>4, <1>5 DEF Inv

\* Closing the row, with all results collected or with no file at all, unless
\* the row was removed.
LEMMA ClosingStep ==
    ASSUME Inv, UNCHANGED mainKeeps, UNCHANGED <<findings, calls, notified>>,
           pc \in {"created", "saved"}, pc' \in {"finished", "publishing"},
           collected = entries,
           \/ run.status # "removed" /\ run' = ClosedRow
           \/ run.status = "removed" /\ run' = run
    PROVE  Inv'
<1>1. UNCHANGED fileKeeps /\ UNCHANGED <<entries, collected, merged, allFindings>>
    BY DEF mainKeeps, fileKeeps, resultVars
<1>2. /\ ClosedRow \in AuditRows
      /\ ClosedRow.files_total = Cardinality(entries)
      /\ ClosedRow.functions_extracted = merged.functions_extracted
      /\ FileIdentity(ClosedRow) /\ FunctionIdentity(ClosedRow)
      /\ ClosedRow.status \in {"completed", "degraded"}
    BY ClosedRowIsSound DEF Inv
<1>3. TypeOK'
    BY <1>1, <1>2 DEF fileKeeps, Inv, TypeOK
<1>4. Untouched' /\ FindingsAreSaved'
    BY <1>1 DEF Untouched, Inv, FindingsAreSaved
<1>5. RowFollowsTask'
    <2>1. ~notified
        BY DEF Inv, RowFollowsTask
    <2> QED  BY <1>2, <2>1 DEF Inv, RowFollowsTask
<1>6. RowKeepsTotal' /\ AllCollected'
    BY <1>1, <1>2 DEF RowKeepsTotal, AllCollected
<1>7. SelectedGetOutcomes' /\ Tally'
    BY <1>1, FilesKept, MainKeepsTally
<1>8. LedgerBalances'
    BY <1>2 DEF Inv, LedgerBalances, FunctionIdentity, FileIdentity
<1>9. CompletedMeansAudited'
    BY <1>1, FilesKept, CompletedRowIsHonest DEF Inv, CompletedMeansAudited
<1> QED  BY <1>3, <1>4, <1>5, <1>6, <1>7, <1>8, <1>9 DEF Inv

\* Planning happens before any file is touched.
LEMMA PlanningStep ==
    ASSUME Inv, pc = "start", pc' = "planned",
           UNCHANGED <<mode, stage, outcome, ragFailed, resultVars, run, findings, notified>>,
           TypeOK'
    PROVE  Inv'
<1>1. /\ run = NoRow /\ findings = {} /\ ~notified
      /\ collected = {} /\ merged = NoCounts /\ allFindings = {}
    BY DEF Inv, RowFollowsTask, FindingsAreSaved, Untouched
<1>2. NoRow.status = "none" /\ FunctionIdentity(NoRow)
    BY DEF NoRow, FreshRow, FunctionIdentity
<1>3. UNCHANGED <<collected, merged, allFindings>>
    BY DEF resultVars
<1>4. RowFollowsTask' /\ RowKeepsTotal' /\ Untouched' /\ AllCollected' /\ FindingsAreSaved'
    BY <1>1, <1>2, <1>3 DEF RowFollowsTask, RowKeepsTotal, Untouched, AllCollected,
         FindingsAreSaved
<1>5. LedgerBalances' /\ CompletedMeansAudited'
    BY <1>1, <1>2 DEF LedgerBalances, FunctionIdentity, CompletedMeansAudited
<1>6. ASSUME NEW e \in Entry, NEW u \in SelectedUnits(e)'
      PROVE  /\ outcome'[<<e, u>>] \in {"pending", "calling"} \cup Settled
             /\ stage'[e] = "returned" => outcome'[<<e, u>>] \in Settled
    <2>1. u \in Unit
        BY DEF SelectedUnits, SharingKey, UnitsOf
    <2>2. outcome[<<e, u>>] = "pending" /\ stage[e] = "queued"
        BY <2>1 DEF Inv, Untouched
    <2> QED  BY <2>2
<1>7. SelectedGetOutcomes'
    BY <1>6 DEF SelectedGetOutcomes
<1>8. Tally'
    <2>1. Listing(collected)' = {} /\ FoundAmong(collected)' = {}
        BY <1>1, <1>3 DEF Listing, FoundAmong
    <2>2. \A c \in Count : merged'[c] = 0
        BY <1>1, <1>3 DEF NoCounts
    <2>3. MergedAddsUp'
        BY <1>1, <1>3, <2>1, <2>2, FS_EmptySet DEF MergedAddsUp, Count
    <2> QED  BY <1>1, <1>3, <2>1, <2>3 DEF Tally, CollectedAreDone, MergedHidesNothing
<1> QED  BY <1>4, <1>5, <1>7, <1>8 DEF Inv

\* The row _create_run inserts.
LEMMA RunningRowIsSound ==
    ASSUME NEW n \in Nat
    PROVE  /\ RunningRow(n) \in AuditRows
           /\ RunningRow(n).status = "running"
           /\ RunningRow(n).files_total = n
           /\ FunctionIdentity(RunningRow(n))
    BY DEF RunningRow, FreshRow, AuditRows, RowStatus, FunctionIdentity

\* Every step of the main thread preserves the invariant.
LEMMA MainStepInv ==
    ASSUME Inv, MainStep
    PROVE  Inv'
<1>1. CASE PlanFull
    <2>1. entries' \in SUBSET Entry
        BY <1>1 DEF PlanFull, Entry
    <2>2. calls' \in Nat
        BY <1>1, ConstantsAssumption DEF PlanFull, LoadUsage
    <2>3. TypeOK'
        BY <1>1, <2>1, <2>2 DEF PlanFull, resultVars, Inv, TypeOK
    <2> QED  BY <1>1, <2>3, PlanningStep DEF PlanFull
<1>2. CASE PlanIncremental
    <2>1. PICK named \in SUBSET DiffPath \ {{}} :
            LET resolved == {p \in named : Resolve[p] # NoFile}
            IN  /\ entries' = resolved \cup (File \ {Resolve[p] : p \in resolved})
                /\ \E withHunk \in SUBSET resolved, hit \in [resolved -> SUBSET Unit] :
                     /\ \A p \in resolved : hit[p] \subseteq UnitsOf(Resolve[p])
                     /\ plan' = [e \in Entry |->
                                   IF e \in resolved
                                   THEN ChangedUnits(Resolve[e], e \in withHunk, hit[e])
                                   ELSE {}]
        BY <1>2 DEF PlanIncremental
    <2> DEFINE resolved == {p \in named : Resolve[p] # NoFile}
    <2>2. PICK withHunk \in SUBSET resolved, hit \in [resolved -> SUBSET Unit] :
            plan' = [e \in Entry |->
                       IF e \in resolved
                       THEN ChangedUnits(Resolve[e], e \in withHunk, hit[e])
                       ELSE {}]
        BY <2>1
    <2>3. entries' \in SUBSET Entry
        BY <2>1 DEF Entry
    <2>4. ASSUME NEW e \in resolved
          PROVE  ChangedUnits(Resolve[e], e \in withHunk, hit[e]) \in SUBSET Unit
        <3>1. hit[e] \in SUBSET Unit
            OBVIOUS
        <3> HIDE DEF resolved
        <3> QED  BY <3>1 DEF ChangedUnits, UnitsOf
    <2>5. plan' \in [Entry -> SUBSET Unit]
        <3> HIDE DEF resolved
        <3> QED  BY <2>2, <2>4
    <2>6. calls' \in Nat
        BY <1>2, ConstantsAssumption DEF PlanIncremental, LoadUsage
    <2>7. TypeOK'
        BY <1>2, <2>3, <2>5, <2>6 DEF PlanIncremental, resultVars, Inv, TypeOK
    <2> QED  BY <1>2, <2>7, PlanningStep DEF PlanIncremental
<1>3. CASE RejectDiff
    <2>1. TypeOK'
        BY <1>3, ConstantsAssumption DEF RejectDiff, LoadUsage, resultVars, Inv, TypeOK
    <2>2. AllCollected' /\ FindingsAreSaved' /\ RowFollowsTask'
        BY <1>3 DEF RejectDiff, AllCollected, FindingsAreSaved, resultVars, Inv,
                    RowFollowsTask, NoRow, FreshRow
    <2> QED  BY <1>3, <2>1, <2>2, QuietMainStep DEF RejectDiff, mainKeeps, fileKeeps
<1>4. CASE CreateRun
    <2>1. /\ pc = "planned" /\ pc' = "created" /\ run' = RunningRow(Cardinality(entries))
          /\ UNCHANGED mainKeeps /\ UNCHANGED <<calls, findings, notified>>
          /\ UNCHANGED fileKeeps /\ UNCHANGED resultVars
        BY <1>4 DEF CreateRun, fileVars, mainKeeps, fileKeeps
    <2>2. Cardinality(entries) \in Nat
        BY FiniteLedger, FS_CardinalityType DEF Inv
    <2>3. /\ run' \in AuditRows /\ run'.status = "running"
          /\ run'.files_total = Cardinality(entries) /\ FunctionIdentity(run')
        BY <2>1, <2>2, RunningRowIsSound
    <2>4. TypeOK'
        BY <2>1, <2>3 DEF Inv, TypeOK, fileKeeps, resultVars
    <2>5. RowFollowsTask' /\ RowKeepsTotal'
        BY <2>1, <2>3 DEF Inv, RowFollowsTask, RowKeepsTotal, fileKeeps
    <2>6. Untouched' /\ AllCollected' /\ FindingsAreSaved'
        BY <2>1, <2>3 DEF Untouched, AllCollected, FindingsAreSaved, Inv, resultVars
    <2>7. SelectedGetOutcomes' /\ Tally'
        BY <2>1, FilesKept, MainKeepsTally
    <2>8. LedgerBalances' /\ CompletedMeansAudited'
        BY <2>3 DEF LedgerBalances, FunctionIdentity, CompletedMeansAudited
    <2> QED  BY <2>4, <2>5, <2>6, <2>7, <2>8 DEF Inv
<1>5. CASE CloseEmptyRun
    <2>1. collected = entries
        BY <1>5 DEF CloseEmptyRun, Inv, Tally, CollectedAreDone
    <2> QED  BY <1>5, <2>1, ClosingStep DEF CloseEmptyRun, fileVars, mainKeeps, fileKeeps
<1>6. CASE StartAudit
    <2>1. TypeOK'
        BY <1>6 DEF StartAudit, fileVars, resultVars, Inv, TypeOK
    <2>2. AllCollected' /\ FindingsAreSaved' /\ RowFollowsTask'
        BY <1>6 DEF StartAudit, AllCollected, FindingsAreSaved, resultVars, Inv, RowFollowsTask
    <2> QED  BY <1>6, <2>1, <2>2, QuietMainStep DEF StartAudit, fileVars, mainKeeps, fileKeeps
<1>7. CASE SaveFindings
    <2>1. /\ pc = "auditing" /\ pc' = "saved" /\ entries \subseteq collected
          /\ UNCHANGED mainKeeps /\ UNCHANGED <<calls, run, notified>>
          /\ UNCHANGED fileKeeps /\ UNCHANGED resultVars
          /\ findings' \in {findings, allFindings}
        BY <1>7 DEF SaveFindings, fileVars, mainKeeps, fileKeeps
    <2>2. TypeOK'
        BY <2>1 DEF Inv, TypeOK, fileKeeps, resultVars
    <2>3. collected = entries
        BY <2>1 DEF Inv, Tally, CollectedAreDone
    <2>4. run.status \in {"running", "removed"}
        BY <2>1 DEF Inv, RowFollowsTask
    <2>5. Untouched' /\ AllCollected' /\ FindingsAreSaved'
        BY <2>1, <2>3, <2>4 DEF Untouched, AllCollected, FindingsAreSaved, Inv, fileKeeps, resultVars
    <2>6. RowFollowsTask' /\ RowKeepsTotal'
        BY <2>1 DEF Inv, RowFollowsTask, RowKeepsTotal, fileKeeps
    <2>7. SelectedGetOutcomes' /\ Tally'
        BY <2>1, FilesKept, MainKeepsTally
    <2>8. LedgerBalances' /\ CompletedMeansAudited'
        BY <2>1, <2>4 DEF Inv, LedgerBalances, FunctionIdentity, FileIdentity,
                          CompletedMeansAudited
    <2> QED  BY <2>2, <2>5, <2>6, <2>7, <2>8 DEF Inv
<1>8. CASE FinishRun
    <2>1. collected = entries
        BY <1>8 DEF FinishRun, Inv, AllCollected
    <2> QED  BY <1>8, <2>1, ClosingStep DEF FinishRun, fileVars, mainKeeps, fileKeeps
<1>9. CASE PersistUsage
    <2>1. TypeOK'
        BY <1>9 DEF PersistUsage, fileVars, resultVars, Inv, TypeOK
    <2>2. AllCollected' /\ FindingsAreSaved' /\ RowFollowsTask'
        BY <1>9 DEF PersistUsage, AllCollected, FindingsAreSaved, resultVars, Inv, RowFollowsTask
    <2> QED  BY <1>9, <2>1, <2>2, QuietMainStep DEF PersistUsage, fileVars, mainKeeps, fileKeeps
<1>10. CASE Publish
    <2>1. TypeOK'
        BY <1>10 DEF Publish, fileVars, resultVars, Inv, TypeOK, Ended
    <2>2. AllCollected' /\ FindingsAreSaved' /\ RowFollowsTask'
        BY <1>10 DEF Publish, AllCollected, FindingsAreSaved, resultVars, Inv, RowFollowsTask
    <2> QED  BY <1>10, <2>1, <2>2, QuietMainStep DEF Publish, fileVars, mainKeeps, fileKeeps
<1>11. CASE BackendFails
    <2>1. TypeOK'
        BY <1>11 DEF BackendFails, fileVars, resultVars, Inv, TypeOK
    <2>2. AllCollected' /\ FindingsAreSaved' /\ RowFollowsTask'
        BY <1>11 DEF BackendFails, AllCollected, FindingsAreSaved, resultVars, Inv, RowFollowsTask
    <2> QED  BY <1>11, <2>1, <2>2, QuietMainStep DEF BackendFails, fileVars, mainKeeps, fileKeeps
<1>12. CASE MarkFailed
    <2>1. /\ pc = "raising" /\ pc' = "failed"
          /\ UNCHANGED mainKeeps /\ UNCHANGED <<calls, findings, notified>>
          /\ UNCHANGED fileKeeps /\ UNCHANGED resultVars
        BY <1>12 DEF MarkFailed, fileVars, mainKeeps, fileKeeps
    <2>2. run' = IF run.status \in {"none", "removed"} THEN run ELSE [run EXCEPT !.status = "failed"]
        BY <1>12 DEF MarkFailed
    <2>3. /\ run' \in AuditRows /\ run'.status \in {"none", "removed", "failed"}
          /\ run'.status = "none" => run' = NoRow
          /\ run'.status = "removed" => run' = RemovedRow
        BY <2>2 DEF Inv, TypeOK, AuditRows, RowStatus, RowFollowsTask
    <2>4. FunctionIdentity(run')
        BY <2>2 DEF Inv, TypeOK, LedgerBalances, AuditRows, FunctionIdentity
    <2>5. TypeOK'
        BY <2>1, <2>3 DEF Inv, TypeOK, fileKeeps, resultVars, Ended
    <2>6. Untouched' /\ AllCollected' /\ FindingsAreSaved'
        BY <2>1, <2>3 DEF Untouched, AllCollected, FindingsAreSaved, Inv, resultVars
    <2>7. RowFollowsTask' /\ RowKeepsTotal'
        BY <2>1, <2>3 DEF Inv, RowFollowsTask, RowKeepsTotal
    <2>8. SelectedGetOutcomes' /\ Tally'
        BY <2>1, FilesKept, MainKeepsTally
    <2>9. LedgerBalances' /\ CompletedMeansAudited'
        BY <2>3, <2>4 DEF LedgerBalances, FunctionIdentity, CompletedMeansAudited
    <2> QED  BY <2>5, <2>6, <2>7, <2>8, <2>9 DEF Inv
<1>13. CASE MarkFailedRaises
    <2>1. TypeOK'
        BY <1>13 DEF MarkFailedRaises, fileVars, resultVars, Inv, TypeOK, Ended
    <2>2. AllCollected' /\ FindingsAreSaved' /\ RowFollowsTask'
        BY <1>13 DEF MarkFailedRaises, AllCollected, FindingsAreSaved, resultVars, Inv,
                     RowFollowsTask
    <2> QED  BY <1>13, <2>1, <2>2, QuietMainStep DEF MarkFailedRaises, fileVars, mainKeeps, fileKeeps
<1> QED  BY <1>1, <1>2, <1>3, <1>4, <1>5, <1>6, <1>7, <1>8, <1>9, <1>10, <1>11,
            <1>12, <1>13 DEF MainStep

-----------------------------------------------------------------------------
(* Collecting a result *)

\* The result of an entry whose worker is done: one file, and a unit list whose
\* counts add up.
LEMMA ResultAddsUp ==
    ASSUME TypeOK, NEW e \in Entry
    PROVE  /\ \A c \in Count : ResultOf(e)[c] \in Nat
           /\ ResultOf(e).files_processed + ResultOf(e).files_unreadable = 1
           /\ ResultOf(e).functions_extracted =
                  ResultOf(e).functions_audited + ResultOf(e).functions_skipped
                + ResultOf(e).functions_failed + ResultOf(e).functions_filtered
                + ResultOf(e).functions_unchanged
           /\ ResultOf(e).functions_extracted = Cardinality(Listing({e}))
<1>1. CASE stage[e] = "returned"
    <2>1. ResultOf(e) = FileResult(e)
        BY <1>1 DEF ResultOf
    <2>2. /\ Cardinality(Listed(e)) \in Nat
          /\ Cardinality(ListedAs(e, Audited)) \in Nat
          /\ Cardinality(ListedAs(e, Skipped)) \in Nat
          /\ Cardinality(ListedAs(e, Failed)) \in Nat
          /\ Cardinality(ListedAs(e, {"filtered"})) \in Nat
          /\ Cardinality(ListedAs(e, {"unchanged"})) \in Nat
          /\ ragFailed[e] \in Nat
        BY FiniteLedger, FS_CardinalityType DEF TypeOK
    <2>3. \A c \in Count : FileResult(e)[c] \in Nat
        BY <2>2 DEF FileResult, Count
    <2>4. FileResult(e).files_processed + FileResult(e).files_unreadable = 1
        BY DEF FileResult
    <2>5. FileResult(e).functions_extracted =
              FileResult(e).functions_audited + FileResult(e).functions_skipped
            + FileResult(e).functions_failed + FileResult(e).functions_filtered
            + FileResult(e).functions_unchanged
        BY ListPartition DEF FileResult
    <2>6. Cardinality(Listing({e})) = Cardinality(Listed(e))
        <3>1. Listing({e}) = {e} \X Listed(e)
            BY <1>1 DEF Listing, Listed
        <3>2. IsFiniteSet({e}) /\ Cardinality({e}) = 1
            BY FS_Singleton
        <3>3. Cardinality({e} \X Listed(e)) = Cardinality({e}) * Cardinality(Listed(e))
            BY <3>2, FiniteLedger, FS_Product
        <3>4. 1 * Cardinality(Listed(e)) = Cardinality(Listed(e))
            BY <2>2
        <3> QED  BY <3>1, <3>2, <3>3, <3>4
    <2>7. FileResult(e).functions_extracted = Cardinality(Listed(e))
        BY DEF FileResult
    <2> QED  BY <2>1, <2>3, <2>4, <2>5, <2>6, <2>7
<1>2. CASE stage[e] # "returned"
    <2>1. ResultOf(e) = FailedFile
        BY <1>2 DEF ResultOf
    <2>2. \A c \in Count : FailedFile[c] = IF c = "files_unreadable" THEN 1 ELSE 0
        BY DEF FailedFile, NoCounts, Count
    <2>3. Listing({e}) = {}
        BY <1>2 DEF Listing
    <2>4. Cardinality(Listing({e})) = 0
        BY <2>3, FS_EmptySet
    <2>5. \A c \in Count : FailedFile[c] \in Nat
        BY <2>2
    <2>6. /\ FailedFile.files_processed = 0 /\ FailedFile.files_unreadable = 1
          /\ FailedFile.functions_extracted = 0 /\ FailedFile.functions_audited = 0
          /\ FailedFile.functions_skipped = 0 /\ FailedFile.functions_failed = 0
          /\ FailedFile.functions_filtered = 0 /\ FailedFile.functions_unchanged = 0
        BY <2>2 DEF Count
    <2> QED  BY <2>1, <2>4, <2>5, <2>6
<1> QED  BY <1>1, <1>2

LEMMA CollectTally ==
    ASSUME Inv, NEW e \in Entry, Collect(e)
    PROVE  Tally'
<1>1. /\ e \in entries \ collected /\ stage[e] \in FileDone
      /\ collected' = collected \cup {e}
      /\ allFindings' = IF stage[e] = "returned" THEN allFindings \cup FoundIn(e) ELSE allFindings
      /\ UNCHANGED <<stage, outcome, ragFailed, entries>>
    BY DEF Collect, fileVars, restVars
<1>2. \A c \in Count : merged'[c] = merged[c] + ResultOf(e)[c]
    BY DEF Collect
<1>3. \A c \in Count : merged[c] \in Nat /\ ResultOf(e)[c] \in Nat
    BY ResultAddsUp DEF Inv, TypeOK
<1>4. CollectedAreDone'
    BY <1>1 DEF Inv, Tally, CollectedAreDone, FileDone
<1>5. /\ \A d : Listed(d)' = Listed(d)
      /\ \A d, S : ListedAs(d, S)' = ListedAs(d, S)
    BY <1>1 DEF Listed, ListedAs
<1>6. MergedAddsUp'
    <2>1. Cardinality(collected') = Cardinality(collected) + 1
        BY <1>1, FiniteLedger, FS_AddElement DEF Inv
    <2>2. Cardinality(Listing(collected)') = Cardinality(Listing(collected)) + Cardinality(Listing({e}))
        <3>1. Listing(collected)' = Listing(collected) \cup Listing({e})
            BY <1>1, <1>5 DEF Listing
        <3>2. Listing(collected) \cap Listing({e}) = {}
            BY <1>1 DEF Listing
        <3>3. collected \in SUBSET Entry /\ {e} \in SUBSET Entry
            BY DEF Inv, TypeOK
        <3>4. IsFiniteSet(Listing(collected)) /\ IsFiniteSet(Listing({e}))
            BY <3>3, FiniteLedger DEF Inv
        <3> QED  BY <3>1, <3>2, <3>4, DisjointUnion
    <2>3. Cardinality(Listing(collected)) \in Nat /\ Cardinality(Listing({e})) \in Nat
          /\ Cardinality(collected) \in Nat
        <3>1. collected \in SUBSET Entry /\ {e} \in SUBSET Entry
            BY DEF Inv, TypeOK
        <3> QED  BY <3>1, FiniteLedger, FS_CardinalityType DEF Inv
    <2> HIDE DEF Count
    <2>4. /\ ResultOf(e).files_processed + ResultOf(e).files_unreadable = 1
          /\ ResultOf(e).functions_extracted =
                  ResultOf(e).functions_audited + ResultOf(e).functions_skipped
                + ResultOf(e).functions_failed + ResultOf(e).functions_filtered
                + ResultOf(e).functions_unchanged
          /\ ResultOf(e).functions_extracted = Cardinality(Listing({e}))
        BY ResultAddsUp DEF Inv
    <2>5. /\ merged.files_processed + merged.files_unreadable = Cardinality(collected)
          /\ merged.functions_extracted = merged.functions_audited + merged.functions_skipped
                                  + merged.functions_failed + merged.functions_filtered
                                  + merged.functions_unchanged
          /\ merged.functions_extracted = Cardinality(Listing(collected))
        BY DEF Inv, Tally, MergedAddsUp
    <2>6. merged'.files_processed + merged'.files_unreadable = Cardinality(collected')
        BY <1>2, <1>3, <2>1, <2>3, <2>4, <2>5 DEF Count
    <2>7. merged'.functions_extracted = merged'.functions_audited + merged'.functions_skipped
                                  + merged'.functions_failed + merged'.functions_filtered
                                  + merged'.functions_unchanged
        BY <1>2, <1>3, <2>4, <2>5 DEF Count
    <2>8. merged'.functions_extracted = Cardinality(Listing(collected)')
        BY <1>2, <1>3, <2>2, <2>3, <2>4, <2>5 DEF Count
    <2> QED  BY <2>6, <2>7, <2>8 DEF MergedAddsUp
<1>7. MergedHidesNothing'
    <2> SUFFICES ASSUME NEW d \in collected'
                 PROVE  /\ stage[d] # "returned" => merged'.files_unreadable > 0
                        /\ stage[d] = "returned" =>
                             /\ ListedAs(d, Skipped) # {} => merged'.functions_skipped > 0
                             /\ ListedAs(d, Failed) # {} => merged'.functions_failed > 0
                             /\ ragFailed[d] > 0 => merged'.rag_failures > 0
        BY <1>1, <1>5 DEF MergedHidesNothing, Skipped, Failed
    <2>1. CASE d \in collected
        <3>1. /\ stage[d] # "returned" => merged.files_unreadable > 0
              /\ stage[d] = "returned" =>
                    /\ ListedAs(d, Skipped) # {} => merged.functions_skipped > 0
                    /\ ListedAs(d, Failed) # {} => merged.functions_failed > 0
                    /\ ragFailed[d] > 0 => merged.rag_failures > 0
            BY <2>1 DEF Inv, Tally, MergedHidesNothing
        <3> QED  BY <1>2, <1>3, <3>1 DEF Count
    <2>2. CASE d = e
        <3>1. CASE stage[e] # "returned"
            <4>1. ResultOf(e).files_unreadable = 1
                BY <3>1 DEF ResultOf, FailedFile, NoCounts, Count
            <4> QED  BY <1>2, <1>3, <2>2, <3>1, <4>1 DEF Count
        <3>2. CASE stage[e] = "returned"
            <4>1. /\ ResultOf(e).functions_skipped = Cardinality(ListedAs(e, Skipped))
                  /\ ResultOf(e).functions_failed = Cardinality(ListedAs(e, Failed))
                  /\ ResultOf(e).rag_failures = ragFailed[e]
                BY <3>2 DEF ResultOf, FileResult
            <4>2. IsFiniteSet(ListedAs(e, Skipped)) /\ IsFiniteSet(ListedAs(e, Failed))
                BY FiniteLedger DEF Inv
            <4>3. /\ Cardinality(ListedAs(e, Skipped)) \in Nat /\ Cardinality(ListedAs(e, Failed)) \in Nat
                  /\ ListedAs(e, Skipped) # {} => Cardinality(ListedAs(e, Skipped)) # 0
                  /\ ListedAs(e, Failed) # {} => Cardinality(ListedAs(e, Failed)) # 0
                BY <4>2, FS_EmptySet, FS_CardinalityType
            <4>4. /\ merged'.functions_skipped = merged.functions_skipped + ResultOf(e).functions_skipped
                  /\ merged'.functions_failed = merged.functions_failed + ResultOf(e).functions_failed
                  /\ merged'.rag_failures = merged.rag_failures + ResultOf(e).rag_failures
                BY <1>2 DEF Count
            <4>5. /\ merged.functions_skipped \in Nat /\ merged.functions_failed \in Nat
                  /\ merged.rag_failures \in Nat
                BY <1>3 DEF Count
            <4>6. ragFailed[e] \in Nat
                BY DEF Inv, TypeOK
            <4>7. ListedAs(e, Skipped) # {} => merged'.functions_skipped > 0
                BY <4>1, <4>3, <4>4, <4>5
            <4>8. ListedAs(e, Failed) # {} => merged'.functions_failed > 0
                BY <4>1, <4>3, <4>4, <4>5
            <4>9. ragFailed[e] > 0 => merged'.rag_failures > 0
                BY <4>1, <4>4, <4>5, <4>6
            <4> QED  BY <2>2, <3>2, <4>7, <4>8, <4>9
        <3> QED  BY <3>1, <3>2
    <2> QED  BY <1>1, <2>1, <2>2
<1>8. allFindings' = FoundAmong(collected)'
    <2>1. allFindings = FoundAmong(collected)
        BY DEF Inv, Tally
    <2>2. FoundAmong(collected)' = FoundAmong(collected) \cup FoundAmong({e})
        BY <1>1 DEF FoundAmong
    <2>3. FoundAmong({e}) = IF stage[e] = "returned" THEN FoundIn(e) ELSE {}
        BY DEF FoundAmong, FoundIn, ListedAs, Listed
    <2> QED  BY <1>1, <2>1, <2>2, <2>3
<1> QED  BY <1>4, <1>6, <1>7, <1>8 DEF Tally

LEMMA CollectInv ==
    ASSUME Inv, NEW e \in Entry, Collect(e)
    PROVE  Inv'
<1>1. /\ pc = "auditing" /\ pc' = "auditing" /\ UNCHANGED fileKeeps
      /\ UNCHANGED <<calls, run, entries, findings, notified>>
    BY DEF Collect, fileVars, restVars, fileKeeps
<1>2. run.status \in {"running", "removed"}
    BY <1>1 DEF Inv, RowFollowsTask
<1>3. merged' \in [Count -> Nat]
    <2>1. \A c \in Count : merged[c] \in Nat /\ ResultOf(e)[c] \in Nat
        BY ResultAddsUp DEF Inv, TypeOK
    <2>2. merged' = [c \in Count |-> merged[c] + ResultOf(e)[c]]
        BY DEF Collect
    <2> HIDE DEF Count
    <2> QED  BY <2>1, <2>2
<1>4. allFindings' \in SUBSET (Entry \X Unit)
    BY DEF Collect, FoundIn, ListedAs, Listed, Inv, TypeOK
<1>5. TypeOK'
    BY <1>1, <1>3, <1>4 DEF Collect, fileKeeps, Inv, TypeOK
<1>6. Untouched' /\ AllCollected' /\ FindingsAreSaved'
    BY <1>1, <1>2 DEF Untouched, AllCollected, FindingsAreSaved, Inv
<1>7. RowFollowsTask' /\ RowKeepsTotal'
    BY <1>1 DEF Inv, RowFollowsTask, RowKeepsTotal
<1>8. SelectedGetOutcomes' /\ Tally'
    BY <1>1, FilesKept, CollectTally
<1>9. LedgerBalances' /\ CompletedMeansAudited'
    BY <1>1, <1>2 DEF Inv, LedgerBalances, FunctionIdentity, FileIdentity, CompletedMeansAudited
<1> QED  BY <1>5, <1>6, <1>7, <1>8, <1>9 DEF Inv

-----------------------------------------------------------------------------
(* The invariant, and what follows from it *)

LEMMA InitInv ==
    ASSUME Init
    PROVE  Inv
<1>1. SelectedGetOutcomes
    <2>1. ASSUME NEW e \in Entry, NEW u \in SelectedUnits(e)
          PROVE  outcome[<<e, u>>] = "pending" /\ stage[e] = "queued"
        BY DEF Init, SelectedUnits, SharingKey, UnitsOf
    <2> QED  BY <2>1 DEF SelectedGetOutcomes
<1>2. TypeOK
    <2>1. NoRow \in AuditRows
        BY DEF NoRow, FreshRow, AuditRows, RowStatus
    <2>2. "pending" \in Outcome
        BY DEF Outcome
    <2>3. NoCounts \in [Count -> Nat]
        BY DEF NoCounts
    <2> QED  BY <2>1, <2>2, <2>3 DEF Init, TypeOK
<1>3. Untouched /\ RowFollowsTask /\ RowKeepsTotal /\ AllCollected /\ FindingsAreSaved
    BY DEF Init, Untouched, RowFollowsTask, RowKeepsTotal, AllCollected, FindingsAreSaved,
           NoRow, FreshRow
<1>4. LedgerBalances /\ CompletedMeansAudited
    BY DEF Init, LedgerBalances, FunctionIdentity, CompletedMeansAudited, NoRow, FreshRow
<1>5. Tally
    <2>1. Listing(collected) = {} /\ FoundAmong(collected) = {}
        BY DEF Init, Listing, FoundAmong
    <2>2. \A c \in Count : merged[c] = 0
        BY DEF Init, NoCounts
    <2>3. /\ merged.files_processed = 0 /\ merged.files_unreadable = 0
          /\ merged.functions_extracted = 0 /\ merged.functions_audited = 0
          /\ merged.functions_skipped = 0 /\ merged.functions_failed = 0
          /\ merged.functions_filtered = 0 /\ merged.functions_unchanged = 0
        BY <2>2 DEF Count
    <2>4. Cardinality(collected) = 0 /\ Cardinality(Listing(collected)) = 0
        BY <2>1, FS_EmptySet DEF Init
    <2>5. MergedAddsUp
        BY <2>3, <2>4 DEF MergedAddsUp
    <2> QED  BY <2>1, <2>5 DEF Init, Tally, CollectedAreDone, MergedHidesNothing
<1> QED  BY <1>1, <1>2, <1>3, <1>4, <1>5 DEF Inv

\* A row that is removed takes its findings along.
LEMMA RemovalInv ==
    ASSUME Inv, RemoveRow
    PROVE  Inv'
<1>1. /\ run' = RemovedRow /\ findings' = {} /\ pc' = pc /\ pc \notin Ended
      /\ run.status \notin {"none", "removed"}
      /\ UNCHANGED <<calls, notified>> /\ UNCHANGED fileKeeps /\ UNCHANGED mainKeeps
      /\ UNCHANGED <<stage, outcome, collected, merged, allFindings>>
    BY DEF RemoveRow, fileVars, resultVars, fileKeeps, mainKeeps
<1>2. RemovedRow \in AuditRows /\ RemovedRow.status = "removed" /\ FunctionIdentity(RemovedRow)
    BY DEF RemovedRow, FreshRow, AuditRows, RowStatus, FunctionIdentity
<1>3. TypeOK'
    BY <1>1, <1>2 DEF fileKeeps, Inv, TypeOK
<1>4. RowFollowsTask'
    <2>1. run # NoRow
        BY <1>1 DEF NoRow, FreshRow
    <2> QED  BY <1>1, <1>2, <2>1 DEF Inv, RowFollowsTask, Ended
<1>5. RowKeepsTotal' /\ LedgerBalances' /\ CompletedMeansAudited'
    BY <1>1, <1>2 DEF RowKeepsTotal, LedgerBalances, FunctionIdentity, CompletedMeansAudited
<1>6. Untouched' /\ FindingsAreSaved'
    BY <1>1 DEF Inv, Untouched, FindingsAreSaved
<1>7. AllCollected'
    BY <1>1, <1>2 DEF Inv, AllCollected, fileKeeps
<1>8. SelectedGetOutcomes' /\ Tally'
    BY <1>1, FilesKept, MainKeepsTally
<1> QED  BY <1>3, <1>4, <1>5, <1>6, <1>7, <1>8 DEF Inv

LEMMA NextInv ==
    ASSUME Inv, [Next]_vars
    PROVE  Inv'
<1>1. CASE MainStep
    BY <1>1, MainStepInv
<1>2. CASE \E e \in Entry : FileStep(e)
    BY <1>2, FileStepInv
<1>3. CASE \E e \in Entry, u \in Unit : CallStep(e, u)
    BY <1>3, CallStepInv
<1>4. CASE \E e \in Entry : Collect(e)
    BY <1>4, CollectInv
<1>5. CASE Crash
    <2>1. TypeOK'
        BY <1>5 DEF Crash, fileVars, resultVars, Inv, TypeOK, Ended
    <2>2. AllCollected' /\ FindingsAreSaved' /\ RowFollowsTask'
        BY <1>5 DEF Crash, Ended, AllCollected, FindingsAreSaved, resultVars, Inv, RowFollowsTask
    <2> QED  BY <1>5, <2>1, <2>2, QuietMainStep DEF Crash, fileVars, mainKeeps, fileKeeps
<1>6. CASE RemoveRow
    BY <1>6, RemovalInv
<1>7. CASE UNCHANGED vars
    <2>1. /\ UNCHANGED <<mode, pc, entries, plan, stage, outcome, ragFailed, calls, run,
                         findings, notified>>
          /\ UNCHANGED <<collected, merged, allFindings>>
        BY <1>7 DEF vars
    <2>2. UNCHANGED mainKeeps /\ UNCHANGED fileKeeps /\ TypeOK'
        BY <2>1 DEF mainKeeps, fileKeeps, resultVars, Inv, TypeOK
    <2>3. Untouched' /\ RowFollowsTask' /\ RowKeepsTotal' /\ AllCollected' /\ FindingsAreSaved'
        BY <2>1 DEF Untouched, AllCollected, FindingsAreSaved, Inv, RowFollowsTask, RowKeepsTotal
    <2>4. SelectedGetOutcomes' /\ Tally' /\ CompletedMeansAudited'
        BY <2>1, <2>2, FilesKept, MainKeepsTally DEF Inv, CompletedMeansAudited
    <2>5. LedgerBalances'
        BY <2>1 DEF Inv, LedgerBalances, FunctionIdentity, FileIdentity
    <2> QED  BY <2>2, <2>3, <2>4, <2>5 DEF Inv
<1> QED  BY <1>1, <1>2, <1>3, <1>4, <1>5, <1>6, <1>7 DEF Next, TaskStep, Over

\* The strengthening of all that follows: it holds at the start and every step
\* of every thread preserves it.
THEOREM Invariance == Spec => []Inv
<1>1. Init => Inv
    BY InitInv
<1>2. Inv /\ [Next]_vars => Inv'
    BY NextInv
<1> QED  BY <1>1, <1>2, PTL DEF Spec

\* The model's variables keep their types: in particular every count of the
\* audit_runs row is a natural number.
THEOREM TypeCorrect == Spec => []TypeOK
<1>1. Inv => TypeOK
    BY DEF Inv
<1> QED  BY <1>1, Invariance, PTL

\* The ledger adds up, whatever fails and in whatever order the workers end.
THEOREM LedgerAlwaysBalances == Spec => []LedgerBalances
<1>1. Inv => LedgerBalances
    BY DEF Inv
<1> QED  BY <1>1, Invariance, PTL

\* A run is completed only if all its files were read, all the units chosen for
\* audit were audited, and the retrieval raised for none of them.
THEOREM CompletedIsHonest == Spec => []CompletedMeansAudited
<1>1. Inv => CompletedMeansAudited
    BY DEF Inv
<1> QED  BY <1>1, Invariance, PTL

\* Beside a verdict the table has all findings of the files the row counts, or
\* none of them.
THEOREM FindingsAreAllOrNone == Spec => []FindingsAllOrNone
<1>1. ASSUME Inv, run.status \in {"completed", "degraded"}
      PROVE  findings \in {{}, {x \in Returned \X Unit : outcome[x] = "found"}}
    <2>1. collected = entries /\ entries \subseteq Entry
        BY <1>1 DEF Inv, AllCollected, TypeOK
    <2>2. FoundAmong(entries) = {x \in Returned \X Unit : outcome[x] = "found"}
        BY DEF FoundAmong, Returned
    <2>3. findings \in {{}, FoundAmong(entries)}
        BY <1>1, <2>1 DEF Inv, FindingsAreSaved, Tally
    <2> QED  BY <2>2, <2>3
<1>2. Inv => FindingsAllOrNone
    BY <1>1 DEF FindingsAllOrNone
<1> QED  BY <1>2, Invariance, PTL

\* The event follows the verdict, or the removal of the row.
THEOREM EventFollowsVerdict == Spec => []NotifiedAfterVerdict
<1>1. Inv => NotifiedAfterVerdict
    BY DEF Inv, RowFollowsTask, NotifiedAfterVerdict
<1> QED  BY <1>1, Invariance, PTL

\* A task that ended on its own terms has settled its row.
THEOREM RowIsSettled == Spec => []OverMeansSettled
<1>1. Inv => OverMeansSettled
    BY DEF Inv, RowFollowsTask, OverMeansSettled
<1> QED  BY <1>1, Invariance, PTL

\* In a full run no file can make the task fail: from auditing the main thread
\* only goes on to save the findings, unless the process dies.
THEOREM FilesIsolated == Spec => FilesAreIsolated
<1>1. ASSUME [Next]_vars, mode = "full", pc = "auditing"
      PROVE  pc' \in {"auditing", "saved", "crashed"}
    <2>1. CASE MainStep
        BY <1>1, <2>1 DEF MainStep, PlanFull, PlanIncremental, RejectDiff, CreateRun,
             CloseEmptyRun, StartAudit, SaveFindings, FinishRun, PersistUsage, Publish,
             BackendFails, MarkFailed, MarkFailedRaises
    <2>2. CASE \E e \in Entry : FileStep(e)
        BY <1>1, <2>2 DEF FileStep, SkipUnreadable, RaiseUndecodable, ReadFile, Summarize,
             Retrieve, RetrievalGivesUp, ReturnFile, FileRaises
    <2>3. CASE \E e \in Entry, u \in Unit : CallStep(e, u)
        BY <1>1, <2>3 DEF CallStep, StartCall, Reply, CallFails, CallEscapes, FileRaises
    <2>4. CASE (\E e \in Entry : Collect(e)) \/ RemoveRow \/ Crash \/ UNCHANGED vars
        BY <1>1, <2>4 DEF Collect, RemoveRow, Crash, vars
    <2> QED  BY <1>1, <2>1, <2>2, <2>3, <2>4 DEF Next, TaskStep, Over
<1>2. [Next]_vars => [mode = "full" /\ pc = "auditing" => pc' \in {"auditing", "saved", "crashed"}]_vars
    BY <1>1
<1> QED  BY <1>2, PTL DEF Spec, FilesAreIsolated

-----------------------------------------------------------------------------
(* Every unit once                                                           *)

\* Once a file was read its dropped units are on record, and stay there; a unit
\* that is neither dropped nor selected never gets on record.
OnRecord ==
    \A e \in Entry : \A u \in Unit :
        /\ u \in DroppedUnits(e) /\ stage[e] \in {"summary", "rag", "calls", "returned"}
             => outcome[<<e, u>>] \in {"filtered", "unchanged"}
        /\ u \notin DroppedUnits(e) /\ u \notin SelectedUnits(e)
             => outcome[<<e, u>>] = "pending"

LEMMA SameSelection ==
    ASSUME UNCHANGED <<mode, plan>>
    PROVE  \A e \in Entry : /\ SelectedUnits(e)' = SelectedUnits(e)
                            /\ DroppedUnits(e)' = DroppedUnits(e)
    BY DEF DroppedUnits, SelectedUnits, SharingKey, UnitsOf, FileOfEntry

\* A step that leaves the units of all entries alone, but for selected ones of
\* an entry whose file was read.
LEMMA RecordStays ==
    ASSUME Inv, OnRecord, UNCHANGED <<mode, plan>>,
           NEW e \in Entry, stage[e] \in {"summary", "rag", "calls", "returned"},
           \A f \in Entry \ {e} : stage'[f] = stage[f],
           \A f \in Entry, u \in Unit : outcome'[<<f, u>>] # outcome[<<f, u>>] =>
               f = e /\ u \in SelectedUnits(e)
    PROVE  OnRecord'
<1> SUFFICES ASSUME NEW f \in Entry, NEW u \in Unit
             PROVE  /\ u \in DroppedUnits(f) /\ stage'[f] \in {"summary", "rag", "calls", "returned"}
                         => outcome'[<<f, u>>] \in {"filtered", "unchanged"}
                    /\ u \notin DroppedUnits(f) /\ u \notin SelectedUnits(f)
                         => outcome'[<<f, u>>] = "pending"
    BY SameSelection DEF OnRecord
<1>1. u \in DroppedUnits(f) => ~(f = e /\ u \in SelectedUnits(e))
    BY SelectedAreNotDropped DEF Inv
<1> QED  BY <1>1 DEF OnRecord

LEMMA RecordFileStep ==
    ASSUME Inv, OnRecord, NEW e \in Entry, FileStep(e)
    PROVE  OnRecord'
<1> USE DEF Inv, taskVars, restVars
<1>1. CASE SkipUnreadable(e) \/ RaiseUndecodable(e)
    <2>1. PICK s \in {"unreadable", "raised"} : stage' = [stage EXCEPT ![e] = s]
        BY <1>1 DEF SkipUnreadable, RaiseUndecodable, FileRaises
    <2>2. UNCHANGED <<mode, plan, outcome>>
        BY <1>1 DEF SkipUnreadable, RaiseUndecodable
    <2>3. ASSUME NEW f \in Entry, stage'[f] \in {"summary", "rag", "calls", "returned"}
          PROVE  stage[f] = stage'[f]
        BY <2>1, <2>3 DEF TypeOK
    <2> QED  BY <2>2, <2>3, SameSelection DEF OnRecord
<1>2. CASE ReadFile(e)
    <2>1. /\ UNCHANGED <<mode, plan>>
          /\ \A f \in Entry \ {e} : stage'[f] = stage[f]
          /\ outcome' = [x \in Entry \X Unit |->
                 IF x[1] = e /\ x[2] \in DroppedUnits(e) THEN DroppedAs ELSE outcome[x]]
        BY <1>2 DEF ReadFile, TypeOK
    <2>2. ASSUME NEW f \in Entry, NEW u \in Unit
          PROVE  /\ u \in DroppedUnits(f) /\ stage'[f] \in {"summary", "rag", "calls", "returned"}
                      => outcome'[<<f, u>>] \in {"filtered", "unchanged"}
                 /\ u \notin DroppedUnits(f) /\ u \notin SelectedUnits(f)
                      => outcome'[<<f, u>>] = "pending"
        <3>1. outcome'[<<f, u>>] =
                 IF f = e /\ u \in DroppedUnits(e) THEN DroppedAs ELSE outcome[<<f, u>>]
            BY <2>1
        <3>2. CASE f = e /\ u \in DroppedUnits(e)
            BY <3>1, <3>2 DEF DroppedAs
        <3>3. CASE f = e /\ u \notin DroppedUnits(e)
            BY <3>1, <3>3 DEF OnRecord
        <3>4. CASE f # e
            BY <2>1, <3>1, <3>4 DEF OnRecord
        <3> QED  BY <3>2, <3>3, <3>4
    <2>3. \A f \in Entry : /\ SelectedUnits(f)' = SelectedUnits(f)
                           /\ DroppedUnits(f)' = DroppedUnits(f)
        BY <2>1, SameSelection
    <2> HIDE DEF Inv
    <2> QED  BY ONLY <2>2, <2>3 DEF OnRecord
<1>3. CASE Summarize(e) \/ Retrieve(e) \/ RetrievalGivesUp(e) \/ ReturnFile(e)
    <2>1. /\ UNCHANGED <<mode, plan, outcome>>
          /\ stage[e] \in {"summary", "rag", "calls", "returned"}
        BY <1>3 DEF Summarize, Retrieve, RetrievalGivesUp, ReturnFile
    <2>2. PICK s : stage' = [stage EXCEPT ![e] = s]
        BY <1>3 DEF Summarize, Retrieve, RetrievalGivesUp, ReturnFile, FileRaises
    <2>3. \A f \in Entry \ {e} : stage'[f] = stage[f]
        BY <2>2 DEF TypeOK
    <2> QED  BY <2>1, <2>3, RecordStays
<1> QED  BY <1>1, <1>2, <1>3 DEF FileStep

LEMMA RecordCallStep ==
    ASSUME Inv, OnRecord, NEW e \in Entry, NEW u \in Unit, CallStep(e, u)
    PROVE  OnRecord'
<1> USE DEF Inv, taskVars, restVars
<1>1. stage[e] = "calls" /\ UNCHANGED <<mode, plan>> /\ u \in SelectedUnits(e)
    BY DEF CallStep, StartCall, Reply, CallFails, CallEscapes, Waiting, WithOutcome
<1>2. \A f \in Entry \ {e} : stage'[f] = stage[f]
    BY DEF CallStep, StartCall, Reply, CallFails, CallEscapes, FileRaises, TypeOK
<1>3. outcome' = outcome \/ \E o : outcome' = [outcome EXCEPT ![<<e, u>>] = o]
    BY DEF CallStep, StartCall, Reply, CallFails, CallEscapes
<1>4. \A f \in Entry, v \in Unit : outcome'[<<f, v>>] # outcome[<<f, v>>] =>
          f = e /\ v \in SelectedUnits(e)
    BY <1>1, <1>3 DEF TypeOK
<1> QED  BY <1>1, <1>2, <1>4, RecordStays

LEMMA RecordStep ==
    ASSUME Inv, OnRecord, [Next]_vars
    PROVE  OnRecord'
<1>1. CASE \E e \in Entry : FileStep(e)
    BY <1>1, RecordFileStep
<1>2. CASE \E e \in Entry, u \in Unit : CallStep(e, u)
    BY <1>2, RecordCallStep
<1>3. CASE PlanFull \/ PlanIncremental
    <2>1. pc = "start" /\ UNCHANGED <<stage, outcome>>
        BY <1>3 DEF PlanFull, PlanIncremental
    <2>2. \A e \in Entry : stage'[e] = "queued" /\ \A u \in Unit : outcome'[<<e, u>>] = "pending"
        BY <2>1 DEF Inv, Untouched
    <2> QED  BY <2>2 DEF OnRecord
<1>4. CASE \/ MainStep /\ ~PlanFull /\ ~PlanIncremental
           \/ \E e \in Entry : Collect(e)
           \/ RemoveRow \/ Crash \/ UNCHANGED vars
    <2>1. UNCHANGED <<mode, plan, stage, outcome>>
        BY <1>4 DEF MainStep, RejectDiff, CreateRun, CloseEmptyRun, StartAudit,
             SaveFindings, FinishRun, PersistUsage, Publish, BackendFails, MarkFailed,
             MarkFailedRaises, Collect, RemoveRow, Crash, fileVars, restVars, vars
    <2> QED  BY <2>1, SameSelection DEF OnRecord
<1> QED  BY <1>1, <1>2, <1>3, <1>4 DEF Next, TaskStep, Over

\* The unit list of a processed file has every unit of the file, once, that no
\* selected one shadows.
LEMMA UnitsAreListed ==
    ASSUME Inv, OnRecord, NEW e \in Returned
    PROVE  Listed(e) = UnitsOf(FileOfEntry(e)) \ Shadowed(e)
<1>1. e \in Entry /\ stage[e] = "returned"
    BY DEF Returned, Inv, TypeOK
<1>2. \A u \in SelectedUnits(e) : u \in UnitsOf(FileOfEntry(e))
    <2>1. CASE mode = "incremental"
        BY <2>1 DEF SelectedUnits, SharingKey
    <2>2. CASE mode = "full" /\ e \notin DiffPath
        BY <2>2 DEF SelectedUnits, FileOfEntry
    <2>3. CASE mode = "full" /\ e \in DiffPath
        BY <2>3, <1>1, ConstantsAssumption DEF SelectedUnits, UnitsOf, Entry
    <2> QED  BY <2>1, <2>2, <2>3, ConstantsAssumption DEF Inv, TypeOK
<1>3. ASSUME NEW u \in Unit
      PROVE  u \in Listed(e) <=> u \in DroppedUnits(e) \/ u \in SelectedUnits(e)
    <2>1. CASE u \in DroppedUnits(e)
        BY <1>1, <2>1 DEF OnRecord, Listed
    <2>2. CASE u \in SelectedUnits(e)
        BY <1>1, <2>2 DEF Inv, SelectedGetOutcomes, Listed, Settled, Audited, Skipped, Failed
    <2>3. CASE u \notin DroppedUnits(e) /\ u \notin SelectedUnits(e)
        BY <1>1, <2>3 DEF OnRecord, Listed
    <2> QED  BY <2>1, <2>2, <2>3
<1>4. SelectedUnits(e) \subseteq Unit /\ DroppedUnits(e) \subseteq Unit /\ Listed(e) \subseteq Unit
    BY <1>2 DEF UnitsOf, DroppedUnits, Listed
<1>5. SelectedUnits(e) \subseteq SharingKey(SelectedUnits(e), FileOfEntry(e))
    BY <1>2 DEF SharingKey
<1> QED  BY <1>2, <1>3, <1>4, <1>5 DEF DroppedUnits, Shadowed

\* The ledger has each unit of each processed file once per entry, but for the
\* units of a full run that share the key of a selected one.
THEOREM UnitsAreCountedOnce == Spec => []EveryUnitOnce
<1>1. Init => OnRecord
    BY DEF Init, OnRecord
<1>2. Inv /\ OnRecord /\ [Next]_vars => OnRecord'
    BY RecordStep
<1>3. ASSUME Inv, OnRecord, run.status \in {"completed", "degraded"}
      PROVE  /\ \A e \in Returned :
                   /\ Listed(e) = UnitsOf(FileOfEntry(e)) \ Shadowed(e)
                   /\ mode = "incremental" => Shadowed(e) = {}
             /\ run.functions_extracted =
                     Cardinality({x \in Returned \X Unit : x[2] \in Listed(x[1])})
    <2>1. ASSUME NEW e \in Returned, mode = "incremental"
          PROVE  Shadowed(e) = {}
        BY <2>1 DEF Shadowed, SelectedUnits, SharingKey
    <2>2. Listing(entries) = {x \in Returned \X Unit : x[2] \in Listed(x[1])}
        BY DEF Listing, Returned
    <2>3. run.functions_extracted = Cardinality(Listing(entries))
        BY <1>3 DEF Inv, AllCollected, Tally, MergedAddsUp
    <2> QED  BY <1>3, <2>1, <2>2, <2>3, UnitsAreListed
<1>4. Inv /\ OnRecord => EveryUnitOnce
    BY <1>3 DEF EveryUnitOnce
<1> QED  BY <1>1, <1>2, <1>4, Invariance, PTL DEF Spec

-----------------------------------------------------------------------------
(* The task implements RunLedger *)

\* Both modules speak of the same rows.
LEMMA SameRows ==
    /\ Ledger!AuditRows = AuditRows
    /\ Ledger!NoRow = NoRow
    /\ Ledger!RemovedRow = RemovedRow
    /\ \A n : Ledger!RunningRow(n) = RunningRow(n)
    /\ \A r : /\ Ledger!FileIdentity(r) <=> FileIdentity(r)
              /\ Ledger!FunctionIdentity(r) <=> FunctionIdentity(r)
              /\ Ledger!IsDegraded(r) <=> IsDegraded(r)
    BY DEF AuditRows, RowStatus, NoRow, RemovedRow, RunningRow, FreshRow,
           FileIdentity, FunctionIdentity, IsDegraded,
           Ledger!AuditRows, Ledger!RowStatus, Ledger!NoRow, Ledger!RemovedRow,
           Ledger!RunningRow, Ledger!FreshRow, Ledger!FileIdentity, Ledger!FunctionIdentity,
           Ledger!IsDegraded

LEMMA InitRefines ==
    ASSUME Init
    PROVE  Ledger!Init
    BY SameRows DEF Init, Ledger!Init

LEMMA StepRefines ==
    ASSUME Inv, Inv', [Next]_vars
    PROVE  [Ledger!Next]_run
<1>1. CASE UNCHANGED run
    BY <1>1
<1>2. CASE CreateRun
    <2>1. Cardinality(entries) \in Nat
        BY FiniteLedger, FS_CardinalityType DEF Inv
    <2>2. run = NoRow /\ run' = RunningRow(Cardinality(entries))
        BY <1>2 DEF CreateRun, Inv, RowFollowsTask
    <2>3. run'.files_total = Cardinality(entries)
        BY <2>1, <2>2, RunningRowIsSound
    <2> QED  BY <2>1, <2>2, <2>3, SameRows DEF Ledger!Next, Ledger!Open
<1>3. CASE CloseEmptyRun \/ FinishRun
    <2>1. CASE run.status = "removed"
        BY <1>3, <2>1 DEF CloseEmptyRun, FinishRun
    <2>2. CASE run.status # "removed"
        <3>1. run' = ClosedRow /\ run.status = "running" /\ run.files_total = Cardinality(entries)
            BY <1>3, <2>2 DEF CloseEmptyRun, FinishRun, Inv, RowFollowsTask, RowKeepsTotal
        <3>2. collected = entries
            BY <1>3 DEF CloseEmptyRun, FinishRun, Inv, AllCollected, Tally, CollectedAreDone
        <3> QED  BY <3>1, <3>2, ClosedRowIsSound, SameRows DEF Inv, Ledger!Next, Ledger!Close
    <2> QED  BY <2>1, <2>2
<1>4. CASE MarkFailed
    <2>1. CASE run.status \in {"none", "removed"}
        BY <1>4, <2>1 DEF MarkFailed
    <2>2. CASE run.status \notin {"none", "removed"}
        <3>1. run' = [run EXCEPT !.status = "failed"] /\ pc = "raising"
            BY <1>4, <2>2 DEF MarkFailed
        <3>2. run.status \in {"running", "completed", "degraded"}
            BY <2>2, <3>1 DEF Inv, TypeOK, AuditRows, RowStatus, RowFollowsTask
        <3> QED  BY <3>1, <3>2 DEF Ledger!Next, Ledger!Fail
    <2> QED  BY <2>1, <2>2
<1>5. CASE \/ PlanFull \/ PlanIncremental \/ RejectDiff \/ StartAudit \/ SaveFindings
           \/ PersistUsage \/ Publish \/ BackendFails \/ MarkFailedRaises \/ Crash
    BY <1>5 DEF PlanFull, PlanIncremental, RejectDiff, StartAudit, SaveFindings,
                PersistUsage, Publish, BackendFails, MarkFailedRaises, Crash
<1>6. CASE \E e \in Entry : FileStep(e) \/ Collect(e)
    BY <1>6 DEF FileStep, SkipUnreadable, RaiseUndecodable, ReadFile, Summarize,
                Retrieve, RetrievalGivesUp, ReturnFile, Collect, taskVars, restVars
<1>7. CASE \E e \in Entry, u \in Unit : CallStep(e, u)
    BY <1>7 DEF CallStep, StartCall, Reply, CallFails, CallEscapes, taskVars, restVars
<1>8. CASE RemoveRow
    BY <1>8, SameRows DEF RemoveRow, Ledger!Next, Ledger!Remove
<1>9. CASE UNCHANGED vars
    BY <1>9 DEF vars
<1> QED  BY <1>1, <1>2, <1>3, <1>4, <1>5, <1>6, <1>7, <1>8, <1>9
         DEF Next, TaskStep, MainStep, Over

\* The row opens once, is closed once with counts that balance and a verdict
\* that follows from them, and can only fail afterwards.
THEOREM ImplementsLedger == Spec => LedgerSpec
<1>1. Init => Ledger!Init
    BY InitRefines
<1>2. Inv /\ Inv' /\ [Next]_vars => [Ledger!Next]_run
    BY StepRefines
<1> QED  BY <1>1, <1>2, Invariance, PTL DEF Spec, LedgerSpec, Ledger!Spec
=============================================================================
