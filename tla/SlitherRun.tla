----------------------------- MODULE SlitherRun -----------------------------
(***************************************************************************)
(* The Celery task run_slither over one upload: the search for the roots   *)
(* of the projects in it, one Slither process per root, or per contract    *)
(* file where there is no framework to compile it, and the one commit of   *)
(* everything they reported.                                               *)
(***************************************************************************)
EXTENDS UploadDirectory, FiniteSets

CONSTANTS
    Dir,          \* directories of the upload outside _DEP_DIRS
    Top,          \* the upload directory itself
    Within,       \* the directories in a directory, itself included
    SolFile,      \* contract files of the upload
    DirOf,        \* the directory of a file
    Layouts,      \* the uploads considered: the frameworks configured in each
                  \* directory, and the directories with node_modules
    Detector      \* what Slither may report of a file or root

ASSUME SlitherAssumption ==
    /\ Top \in Dir
    /\ Within \in [Dir -> SUBSET Dir]
    /\ \A d \in Dir : d \in Within[d] /\ d \in Within[Top]
    /\ DirOf \in [SolFile -> Dir]
    /\ SolFile \cap Dir = {}
    /\ Layouts \subseteq [framework : [Dir -> SUBSET {"hardhat", "other"}], installed : SUBSET Dir]

VARIABLES
    layout,       \* what the upload looks like
    scan,         \* where the task is
    roots,        \* project_roots not taken yet
    files,        \* sol_files of the present root not taken yet
    detectors,    \* all_detectors, with the file or root they are about
    raw,          \* first_result
    said,         \* history: what each Slither process did
    slitherStored \* the analysis_results row with its detections

slitherVars == <<layout, scan, roots, files, detectors, raw, said, slitherStored>>

NoRow == [detections |-> {}, raw |-> "no_row"]

SlitherInit ==
    /\ layout \in Layouts
    /\ scan = "start" /\ roots = {} /\ files = {}
    /\ detectors = {} /\ raw = "empty" /\ said = {}
    /\ slitherStored = NoRow

-----------------------------------------------------------------------------
(* Which processes are started *)

Configured == {d \in Dir : layout.framework[d] # {}}

\* A directory with a configuration file is not searched further.
ProjectRoots ==
    LET outermost == {d \in Configured : \A e \in Configured \ {d} : d \notin Within[e]}
    IN  IF outermost = {} THEN {Top} ELSE outermost

\* No framework at all, or Hardhat, whichever other there is, without packages.
\* In a directory that is gone no configuration is found.
NeedsSolc(r) ==
    \/ ~onDisk
    \/ layout.framework[r] = {}
    \/ "hardhat" \in layout.framework[r] /\ r \notin layout.installed

FilesOf(r) == IF onDisk THEN {f \in SolFile : DirOf[f] \in Within[r]} ELSE {}

StartSlither ==
    /\ scan = "start"
    /\ roots' = IF onDisk THEN ProjectRoots ELSE {}
    /\ scan' = "roots"
    /\ UNCHANGED <<layout, files, detectors, raw, said, slitherStored, onDisk>>

-----------------------------------------------------------------------------
(* What they report *)

\* A report; an error in its place, by the tool or by the engine (time limit,
\* no output, no JSON, no binary); or JSON that the engine stumbles over.
Outcome == [kind : {"report"}, found : SUBSET Detector] \cup [kind : {"error", "odd"}, found : {{}}]

\* Mutant: the detectors of one process replace those of the others.
Replace(s, o) == {s} \X o.found

Collect(s, o) == detectors \cup ({s} \X o.found)

\* The result of process s: o is extended into the list, or raises.
Takes(s, o) ==
    /\ said' = said \cup {[source |-> s, kind |-> o.kind, found |-> o.found]}
    /\ IF o.kind = "odd"
       THEN scan' = "raising" /\ detectors' = detectors
       ELSE scan' = scan /\ detectors' = Collect(s, o)

\* Slither on a root in one go; its result becomes the raw result whatever
\* came before.
AnalyseRoot(r, o) ==
    /\ scan = "roots" /\ r \in roots
    /\ ~NeedsSolc(r)
    /\ roots' = roots \ {r}
    /\ Takes(r, o)
    /\ raw' = o.kind
    /\ UNCHANGED <<layout, files, slitherStored, onDisk>>

EnterRoot(r) ==
    /\ scan = "roots" /\ r \in roots
    /\ NeedsSolc(r)
    /\ roots' = roots \ {r}
    /\ files' = FilesOf(r)
    /\ scan' = "files"
    /\ UNCHANGED <<layout, detectors, raw, said, slitherStored, onDisk>>

\* The directory goes while sol files are listed with their sizes.
ListingFails(r) ==
    /\ scan = "roots" /\ r \in roots
    /\ ~onDisk
    /\ scan' = "raising"
    /\ UNCHANGED <<layout, roots, files, detectors, raw, said, slitherStored, onDisk>>

\* Mutant: a file that cannot be analysed ends the loop.
StopsAtError(f, o) ==
    /\ scan = "files" /\ f \in files
    /\ files' = IF o.kind = "error" THEN {} ELSE files \ {f}
    /\ Takes(f, o)
    /\ raw' = IF raw = "empty" THEN o.kind ELSE raw
    /\ UNCHANGED <<layout, roots, slitherStored, onDisk>>

\* The smallest file first; only the first result is kept as the raw one.
AnalyseFile(f, o) ==
    /\ scan = "files" /\ f \in files
    /\ files' = files \ {f}
    /\ Takes(f, o)
    /\ raw' = IF raw = "empty" THEN o.kind ELSE raw
    /\ UNCHANGED <<layout, roots, slitherStored, onDisk>>

LeaveRoot ==
    /\ scan = "files" /\ files = {}
    /\ scan' = "roots"
    /\ UNCHANGED <<layout, roots, files, detectors, raw, said, slitherStored, onDisk>>

-----------------------------------------------------------------------------
(* The commit *)

\* One transaction for the row and its detections; the event that follows is
\* in EventStream.
StoreDetections ==
    /\ scan = "roots" /\ roots = {}
    /\ slitherStored' = [detections |-> detectors, raw |-> raw]
    /\ scan' = "done"
    /\ UNCHANGED <<layout, roots, files, detectors, raw, said, onDisk>>

\* The database refuses, or the engine raised: nothing is stored.
SlitherFails ==
    /\ \/ scan = "raising"
       \/ scan = "roots" /\ roots = {}
    /\ scan' = "failed"
    /\ UNCHANGED <<layout, roots, files, detectors, raw, said, slitherStored, onDisk>>

SlitherStep ==
    \/ StartSlither \/ LeaveRoot \/ StoreDetections \/ SlitherFails
    \/ \E r \in Dir : EnterRoot(r) \/ ListingFails(r)
    \/ \E o \in Outcome :
         \/ \E r \in Dir : AnalyseRoot(r, o)
         \/ \E f \in SolFile : AnalyseFile(f, o)

-----------------------------------------------------------------------------
(* Properties *)

\* Slither was run on the file, or on a root it lies in.
Tried(f) ==
    \E x \in said : x.source = f \/ (x.source \in Dir /\ DirOf[f] \in Within[x.source])

\* When there is a row and the upload was there to the end, Slither was tried on
\* every contract file of every root, however many of its processes failed
\* (SlitherEngine.execute).  Files beside the roots are no file of any: a
\* framework in one subdirectory hides what lies outside of it.
EveryFileIsTried ==
    slitherStored # NoRow /\ onDisk =>
        \A f \in SolFile : (\E r \in ProjectRoots : DirOf[f] \in Within[r]) => Tried(f)

\* The stored detections are all those, and only those, that some Slither
\* process of the task reported: a file that cannot be compiled, or takes too
\* long, costs no other file its detections.  And when every process failed,
\* the raw result says so, though the row looks like that of a clean project.
GoodFilesCount ==
    slitherStored # NoRow =>
        /\ slitherStored.detections = UNION {{x.source} \X x.found : x \in said}
        /\ said # {} /\ (\A x \in said : x.kind = "error") => slitherStored.raw = "error"
=============================================================================
