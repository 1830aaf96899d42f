------------------------ MODULE Findings_proofs -----------------------------
(***************************************************************************)
(* What becomes of findings, for every size of an upload or a report: what *)
(* run_slither stores of its processes and run_fuzzer of forge's output,   *)
(* what generate_report reads of both and of the audits while they commit, *)
(* and what the polishing by the model leaves of it.                       *)
(***************************************************************************)
EXTENDS AnalysisTools, Reporting, Selection_proofs

(***************************************************************************)
(* The list of detections follows the processes from the first to the      *)
(* last, and the raw result is an error as long as every process failed;   *)
(* the row is a copy of both, made after the last of them.                 *)
(***************************************************************************)
Reported(reports) == UNION {{x.source} \X x.found : x \in reports}

AllFailed(reports) == reports # {} /\ \A x \in reports : x.kind = "error"

DetectionsKept == detectors = Reported(said)

RawIsError == /\ said = {} => raw = "empty"
              /\ AllFailed(said) => raw = "error"

RowIsLast == slitherStored # NoRow => scan = "done" /\ slitherStored = [detections |-> detectors, raw |-> raw]

Inv == DetectionsKept /\ RawIsError /\ RowIsLast

-----------------------------------------------------------------------------
(* One more process *)

LEMMA OneMoreReport ==
    ASSUME NEW reports, NEW x
    PROVE  Reported(reports \cup {x}) = Reported(reports) \cup ({x.source} \X x.found)
<1> DEFINE Of(y) == {y.source} \X y.found
<1>1. {Of(y) : y \in reports \cup {x}} = {Of(y) : y \in reports} \cup {Of(x)}
    OBVIOUS
<1> HIDE DEF Of
<1>2. (UNION {Of(y) : y \in reports \cup {x}}) = (UNION {Of(y) : y \in reports}) \cup Of(x)
    BY <1>1
<1> QED
    BY <1>2 DEF Reported, Of

\* Whatever a process says, the list is what all of them reported: JSON that
\* the engine stumbles over holds nothing.
LEMMA TakesKeepsDetections ==
    ASSUME DetectionsKept, NEW s, NEW o \in Outcome, Takes(s, o)
    PROVE  DetectionsKept'
<1> DEFINE new == [source |-> s, kind |-> o.kind, found |-> o.found]
<1>1. Reported(said') = Reported(said) \cup ({s} \X o.found)
    <2>1. said' = said \cup {new} /\ new.source = s /\ new.found = o.found
        BY DEF Takes
    <2> HIDE DEF new
    <2> QED
        BY <2>1, OneMoreReport
<1>2. CASE o.kind = "odd"
    <2>1. {s} \X o.found = {}
        BY <1>2 DEF Outcome
    <2> QED
        BY <1>1, <1>2, <2>1 DEF DetectionsKept, Takes
<1>3. CASE o.kind # "odd"
    BY <1>1, <1>3 DEF DetectionsKept, Takes, Collect
<1> QED
    BY <1>2, <1>3

LEMMA TakesAdds ==
    ASSUME NEW s, NEW o \in Outcome, Takes(s, o)
    PROVE  /\ said' # {}
           /\ AllFailed(said') => o.kind = "error" /\ (said = {} \/ AllFailed(said))
<1> DEFINE new == [source |-> s, kind |-> o.kind, found |-> o.found]
<1>1. said' = said \cup {new} /\ new.kind = o.kind
    BY DEF Takes
<1> QED
    BY <1>1 DEF AllFailed

\* The row is written in no step of a process.
LEMMA NoRowYet ==
    ASSUME RowIsLast, scan # "done"
    PROVE  slitherStored = NoRow
    BY DEF RowIsLast

-----------------------------------------------------------------------------
(* The invariant *)

LEMMA InitInv == Init => Inv
<1> SUFFICES ASSUME Init PROVE Inv
    OBVIOUS
<1>1. said = {} /\ detectors = {} /\ raw = "empty" /\ slitherStored = NoRow
    BY DEF Init, SlitherInit
<1>2. Reported({}) = {}
    BY DEF Reported
<1> QED
    BY <1>1, <1>2 DEF Inv, DetectionsKept, RawIsError, AllFailed, RowIsLast

\* The steps of the Slither task.
LEMMA SlitherKeepsInv ==
    ASSUME Inv, SlitherStep
    PROVE  Inv'
<1> USE DEF Inv
<1>2. CASE \/ StartSlither \/ LeaveRoot \/ SlitherFails
           \/ \E r \in Dir : EnterRoot(r) \/ ListingFails(r)
    <2>1. UNCHANGED <<said, detectors, raw, slitherStored>> /\ scan # "done"
        BY <1>2 DEF StartSlither, LeaveRoot, SlitherFails, EnterRoot, ListingFails
    <2>2. slitherStored' = NoRow
        BY <2>1, NoRowYet
    <2> QED
        BY <2>1, <2>2 DEF DetectionsKept, RawIsError, RowIsLast, NoRow
<1>3. CASE StoreDetections
    BY <1>3 DEF StoreDetections, DetectionsKept, RawIsError, RowIsLast
<1>4. ASSUME NEW o \in Outcome, NEW r \in Dir, AnalyseRoot(r, o)
      PROVE  Inv'
    <2>1. Takes(r, o) /\ raw' = o.kind /\ slitherStored' = slitherStored /\ scan # "done"
        BY <1>4 DEF AnalyseRoot
    <2>2. DetectionsKept'
        BY <2>1, TakesKeepsDetections
    <2>3. RawIsError'
        BY <2>1, TakesAdds DEF RawIsError
    <2>4. RowIsLast'
        BY <2>1, NoRowYet DEF RowIsLast, NoRow
    <2> QED
        BY <2>2, <2>3, <2>4
<1>5. ASSUME NEW o \in Outcome, NEW f \in SolFile, AnalyseFile(f, o)
      PROVE  Inv'
    <2>1. /\ Takes(f, o) /\ slitherStored' = slitherStored /\ scan # "done"
          /\ raw' = IF raw = "empty" THEN o.kind ELSE raw
        BY <1>5 DEF AnalyseFile
    <2>2. DetectionsKept'
        BY <2>1, TakesKeepsDetections
    <2>3. RawIsError'
        BY <2>1, TakesAdds DEF RawIsError
    <2>4. RowIsLast'
        BY <2>1, NoRowYet DEF RowIsLast, NoRow
    <2> QED
        BY <2>2, <2>3, <2>4
<1> QED
    BY <1>2, <1>3, <1>4, <1>5 DEF SlitherStep

LEMMA StepInv == Inv /\ [Next]_vars => Inv'
<1> SUFFICES ASSUME Inv, [Next]_vars PROVE Inv'
    OBVIOUS
<1>1. CASE SlitherStep /\ UNCHANGED fuzzVars
    BY <1>1, SlitherKeepsInv
<1>2. CASE UNCHANGED slitherVars
    BY <1>2 DEF slitherVars, Inv, DetectionsKept, RawIsError, RowIsLast
<1> QED
    BY <1>1, <1>2 DEF Next, Cleanup, Over, vars

THEOREM Bookkeeping == Spec => []Inv
    BY InitInv, StepInv, PTL DEF Spec

-----------------------------------------------------------------------------
(* The promises *)

\* The row run_slither commits holds what the processes of the task reported,
\* all of it and nothing else, and its raw result is an error when every one of
\* them failed (SlitherEngine.execute).
THEOREM DetectionsAreComplete == Spec => []GoodFilesCount
<1>1. Inv => GoodFilesCount
    BY DEF Inv, DetectionsKept, RawIsError, RowIsLast, GoodFilesCount, Reported, AllFailed
<1> QED
    BY <1>1, Bookkeeping, PTL

-----------------------------------------------------------------------------
(* The loops over roots and files *)

\* As long as the upload is there, a file of a root has been tried, or is in one of
\* the two lists that the loops still work on.
FileOfRoot(f) == \E r \in ProjectRoots : DirOf[f] \in Within[r]

RootToCome(f) == \E r \in roots : DirOf[f] \in Within[r]

FilesAhead == onDisk => \A f \in SolFile : FileOfRoot(f) => Tried(f) \/ f \in files \/ RootToCome(f)

Loops ==
    /\ scan \in {"roots", "files", "done"} => FilesAhead
    /\ scan \in {"start", "roots", "done"} => files = {}
    /\ scan = "done" => roots = {}
    /\ scan \in {"start", "roots", "files", "raising", "failed", "done"}
    /\ slitherStored # NoRow => scan = "done"

LEMMA LoopsInit == Init => Loops
    BY DEF Init, SlitherInit, Loops

\* What a process adds to the history of others stays.
LEMMA TriedStays ==
    ASSUME NEW s, NEW o, Takes(s, o)
    PROVE  /\ \A f \in SolFile : Tried(f) => Tried(f)'
           /\ s \in SolFile => Tried(s)'
           /\ s \in Dir => \A f \in SolFile : DirOf[f] \in Within[s] => Tried(f)'
<1> DEFINE new == [source |-> s, kind |-> o.kind, found |-> o.found]
<1>1. said' = said \cup {new} /\ new.source = s
    BY DEF Takes
<1> HIDE DEF new
<1> QED
    BY <1>1 DEF Tried

LEMMA TakesGoesOn ==
    ASSUME NEW s, NEW o, Takes(s, o)
    PROVE  scan' = scan \/ scan' = "raising"
    BY DEF Takes

LEMMA SlitherKeepsLoops ==
    ASSUME Loops, SlitherStep
    PROVE  Loops'
<1> USE DEF Loops
<1>1. CASE StartSlither
    <2>1. /\ scan = "start" /\ scan' = "roots" /\ slitherStored = NoRow
          /\ UNCHANGED <<layout, files, said, slitherStored, onDisk>>
          /\ onDisk => roots' = ProjectRoots
        BY <1>1 DEF StartSlither
    <2>2. files' = {}
        BY <1>1, <2>1 DEF StartSlither
    <2> QED
        BY <2>1, <2>2 DEF FilesAhead, FileOfRoot, RootToCome, ProjectRoots, Configured
<1>2. CASE LeaveRoot
    BY <1>2 DEF LeaveRoot, FilesAhead, FileOfRoot, RootToCome, Tried, ProjectRoots, Configured
<1>3. CASE StoreDetections
    BY <1>3 DEF StoreDetections, FilesAhead, FileOfRoot, RootToCome, Tried, ProjectRoots, Configured
<1>4. CASE SlitherFails \/ \E r \in Dir : ListingFails(r)
    BY <1>4 DEF SlitherFails, ListingFails
<1>5. ASSUME NEW r \in Dir, EnterRoot(r)
      PROVE  Loops'
    <2>1. /\ scan = "roots" /\ scan' = "files" /\ files = {} /\ slitherStored' = NoRow
          /\ UNCHANGED <<layout, said, onDisk>>
          /\ roots' = roots \ {r} /\ files' = FilesOf(r)
        BY <1>5 DEF EnterRoot
    <2>2. ASSUME onDisk, NEW f \in SolFile, FileOfRoot(f)
          PROVE  Tried(f) \/ f \in files' \/ RootToCome(f)'
        <3>1. Tried(f) \/ RootToCome(f)
            BY <2>1, <2>2 DEF FilesAhead
        <3> QED
            BY <2>1, <2>2, <3>1 DEF RootToCome, FilesOf
    <2>3. FilesAhead'
        BY <2>1, <2>2 DEF FilesAhead, FileOfRoot, Tried, ProjectRoots, Configured
    <2> QED
        BY <2>1, <2>3
<1>6. ASSUME NEW r \in Dir, NEW o \in Outcome, AnalyseRoot(r, o)
      PROVE  Loops'
    <2>1. /\ scan = "roots" /\ files = {} /\ files' = {} /\ slitherStored' = NoRow
          /\ UNCHANGED <<layout, onDisk>> /\ roots' = roots \ {r} /\ Takes(r, o)
        BY <1>6 DEF AnalyseRoot
    <2>2. ASSUME onDisk, NEW f \in SolFile, FileOfRoot(f)
          PROVE  Tried(f)' \/ RootToCome(f)'
        <3>1. Tried(f) \/ RootToCome(f)
            BY <2>1, <2>2 DEF FilesAhead
        <3>2. CASE Tried(f)
            BY <2>1, <3>2, TriedStays
        <3>3. CASE RootToCome(f)
            BY <2>1, <3>3, TriedStays DEF RootToCome
        <3> QED
            BY <3>1, <3>2, <3>3
    <2>3. FilesAhead'
        BY <2>1, <2>2 DEF FilesAhead, FileOfRoot, ProjectRoots, Configured
    <2> QED
        BY <2>1, <2>3, TakesGoesOn
<1>7. ASSUME NEW g \in SolFile, NEW o \in Outcome, AnalyseFile(g, o)
      PROVE  Loops'
    <2>1. /\ scan = "files" /\ slitherStored' = NoRow
          /\ UNCHANGED <<layout, roots, onDisk>> /\ files' = files \ {g} /\ Takes(g, o)
        BY <1>7 DEF AnalyseFile
    <2>2. ASSUME onDisk, NEW f \in SolFile, FileOfRoot(f)
          PROVE  Tried(f)' \/ f \in files' \/ RootToCome(f)'
        <3>1. Tried(f) \/ f \in files \/ RootToCome(f)
            BY <2>1, <2>2 DEF FilesAhead
        <3>2. Tried(f) => Tried(f)'
            BY <2>1, TriedStays
        <3>3. f = g => Tried(f)'
            BY <2>1, TriedStays
        <3>4. RootToCome(f) => RootToCome(f)'
            BY <2>1 DEF RootToCome
        <3> QED
            BY <2>1, <3>1, <3>2, <3>3, <3>4
    <2>3. FilesAhead'
        BY <2>1, <2>2 DEF FilesAhead, FileOfRoot, ProjectRoots, Configured
    <2> QED
        BY <2>1, <2>3, TakesGoesOn
<1> QED
    BY <1>1, <1>2, <1>3, <1>4, <1>5, <1>6, <1>7 DEF SlitherStep

\* The directory may go, and never comes back.
LEMMA LoopsStep == Loops /\ [Next]_vars => Loops'
<1> SUFFICES ASSUME Loops, [Next]_vars
             PROVE  Loops'
    OBVIOUS
<1>1. CASE SlitherStep
    BY <1>1, SlitherKeepsLoops
<1>2. CASE UNCHANGED slitherVars /\ (onDisk' => onDisk)
    BY <1>2 DEF slitherVars, Loops, FilesAhead, FileOfRoot, RootToCome, Tried, ProjectRoots, Configured
<1>3. CASE FuzzStep /\ UNCHANGED slitherVars
    <2>1. onDisk' = onDisk
        BY <1>3 DEF FuzzStep, MakeWorkspace, CopyUpload, CopyFails, ListContracts, GenerateTests,
             ForgeStops, ForgeRuns, CleanUp, EngineRaises, StoreFailures, StoreFails
    <2> QED
        BY <1>2, <1>3, <2>1
<1> QED
    BY <1>1, <1>2, <1>3 DEF Next, Cleanup, RemoveDirectory, Over, vars

\* While the upload is there, no process that fails or takes too long keeps
\* SlitherEngine.execute from trying the other files of its roots.
THEOREM NoFileIsPassedOver == Spec => []EveryFileIsTried
<1>1. Loops => EveryFileIsTried
    BY DEF Loops, FilesAhead, FileOfRoot, RootToCome, EveryFileIsTried
<1> QED
    BY <1>1, LoopsInit, LoopsStep, PTL DEF Spec

-----------------------------------------------------------------------------
(* The fuzzing row *)

\* The parts of names; no prover knows that a literal is a STRING.
Part == STRING \cup {"testFuzz", "Conservation"}

\* A generated test is named after its contract and its payout function.
InARow(a, c, b, p) == a \o c \o b \o p
NameOf(contract, payout) == InARow(<<"testFuzz">>, contract, <<"Conservation">>, payout)

Test == {x \in [contract : Seq(Part), getter : {"balanceOf", "balances"},
                payout : Seq(Part), name : Seq(Part)] :
            x.name = NameOf(x.contract, x.payout)}

\* What is kept of forge's output is its first lines.
OutputIsCut ==
    \E kept \in 0 .. Len(FailureLines(verdict)) :
        /\ output.lines = SubSeq(FailureLines(verdict), 1, kept)
        /\ output.whole <=> kept = Len(FailureLines(verdict))

\* The tests stay as they are once forge has run, and so does its output.
FuzzInv ==
    /\ text \in [Source -> Seq(Contract)]
    /\ imports \in Seq(Seq(Contract))
    /\ tests \in Seq(Test)
    /\ output.status = "ok" => fuzz \in {"clean_up", "store", "done", "failed"} /\ OutputIsCut
    /\ fuzzStored.status = "ok" =>
         /\ fuzz = "done" /\ output.status = "ok"
         /\ fuzzStored.failures = ParseFailures

LEMMA ListsInARow ==
    ASSUME NEW S, NEW a \in Seq(S), NEW c \in Seq(S), NEW b \in Seq(S), NEW p \in Seq(S),
           Len(a) = 1, Len(b) = 1
    PROVE  /\ InARow(a, c, b, p) \in Seq(S)
           /\ Len(c) = 1 => InARow(a, c, b, p)[2] = c[1]
           /\ Len(c) = 1 /\ Len(p) = 1 => InARow(a, c, b, p)[4] = p[1]
<1> DEFINE d == a \o c
           e == d \o b
<1>1. /\ d \in Seq(S) /\ Len(d) = Len(a) + Len(c)
      /\ \A i \in 1 .. Len(a) + Len(c) : d[i] = IF i <= Len(a) THEN a[i] ELSE c[i - Len(a)]
    BY ConcatProperties
<1> HIDE DEF d
<1>2. /\ e \in Seq(S) /\ Len(e) = Len(d) + Len(b)
      /\ \A i \in 1 .. Len(d) + Len(b) : e[i] = IF i <= Len(d) THEN d[i] ELSE b[i - Len(d)]
    <2>1. d \in Seq(S)
        BY <1>1
    <2> QED
        BY <2>1, ConcatProperties
<1> HIDE DEF e
<1>3. /\ e \o p \in Seq(S) /\ Len(e \o p) = Len(e) + Len(p)
      /\ \A i \in 1 .. Len(e) + Len(p) : (e \o p)[i] = IF i <= Len(e) THEN e[i] ELSE p[i - Len(e)]
    <2>1. e \in Seq(S)
        BY <1>2
    <2> QED
        BY <2>1, ConcatProperties
<1>4. Len(c) \in Nat /\ Len(p) \in Nat
    OBVIOUS
<1>5. ASSUME Len(c) = 1
      PROVE  (e \o p)[2] = c[1]
    <2>1. Len(d) = 2 /\ Len(e) = 3
        BY <1>1, <1>2, <1>5
    <2>2. d[2] = c[1]
        BY <1>1, <1>5
    <2>3. e[2] = d[2]
        BY <1>2, <2>1
    <2> QED
        BY <1>3, <1>4, <2>1, <2>2, <2>3
<1>6. ASSUME Len(c) = 1, Len(p) = 1
      PROVE  (e \o p)[4] = p[1]
    <2>1. Len(e) = 3
        BY <1>1, <1>2, <1>6
    <2> QED
        BY <1>3, <1>6, <2>1
<1> QED
    BY <1>3, <1>5, <1>6 DEF d, e, InARow

LEMMA NameProperties ==
    ASSUME NEW c \in Seq(Part), NEW p \in Seq(Part)
    PROVE  /\ NameOf(c, p) \in Seq(Part)
           /\ Len(c) = 1 => NameOf(c, p)[2] = c[1]
           /\ Len(c) = 1 /\ Len(p) = 1 => NameOf(c, p)[4] = p[1]
<1>1. "testFuzz" \in Part /\ "Conservation" \in Part
    BY DEF Part
<1>2. \A x \in Part : <<x>> \in Seq(Part) /\ Len(<<x>>) = 1
    OBVIOUS
<1> DEFINE first == <<"testFuzz">>
           third == <<"Conservation">>
<1>3. /\ first \in Seq(Part) /\ Len(first) = 1
      /\ third \in Seq(Part) /\ Len(third) = 1
    BY <1>1, <1>2
<1>4. NameOf(c, p) = InARow(first, c, third, p)
    BY DEF NameOf
<1> HIDE DEF first, third
<1> QED
    BY <1>3, <1>4, ListsInARow

LEMMA SeqOfMore ==
    ASSUME NEW S, NEW T, S \subseteq T, NEW s \in Seq(S)
    PROVE  s \in Seq(T)
    OBVIOUS

LEMMA NamesHaveParts ==
    ASSUME NEW c \in Contract
    PROVE  c.name \in Seq(Part) /\ c.payout \in Seq(Part)
<1>1. STRING \subseteq Part
    BY DEF Part
<1>2. c.name \in Seq(STRING) /\ c.payout \in Seq(STRING)
    BY DEF Contract
<1> QED
    BY <1>1, <1>2, SeqOfMore

LEMMA TestOfIsTest ==
    ASSUME NEW t \in Seq(Contract), Parsed(t), Derivable(t)
    PROVE  TestOf(t) \in Test
<1>1. Len(t) \in Nat /\ \A i \in 1 .. Len(t) : t[i] \in Contract
    OBVIOUS
<1>2. t[1] \in Contract
    <2>1. t # <<>>
        BY DEF Parsed
    <2>2. 1 \in 1 .. Len(t)
        BY <1>1, <2>1
    <2> QED
        BY <1>1, <2>2
<1> DEFINE n == Len(t)
           all == [i \in 1 .. n |-> t[i].payout]
           with == {i \in 1 .. n : t[i].payout # <<>>}
<1>3. all \in Seq(Seq(Part)) /\ Len(all) = n
    <2>1. \A i \in 1 .. n : t[i].payout \in Seq(Part)
        BY <1>1, NamesHaveParts
    <2> QED
        BY <1>1, <2>1
<1>4. Payouts(t) = Sublist(all, with)
    BY DEF Payouts
<1>5. with \in SUBSET (1 .. Len(all))
    BY <1>3
<1> HIDE DEF all, with
<1>6. Payouts(t) \in Seq(Seq(Part))
    <2>1. all \in Seq(Seq(Part))
        BY <1>3
    <2>2. Sublist(all, with) \in Seq(Seq(Part))
        BY <1>5, <2>1, SublistProperties
    <2> QED
        BY <1>4, <2>2
<1>7. Payouts(t)[1] \in Seq(Part)
    <2>1. Payouts(t) # <<>>
        BY DEF Derivable
    <2> HIDE DEF Payouts
    <2> QED
        BY <1>6, <2>1
<1>8. t[1].name \in Seq(Part)
    BY <1>2, NamesHaveParts
<1>9. NameOf(t[1].name, Payouts(t)[1]) \in Seq(Part)
    BY <1>7, <1>8, NameProperties
<1>10. TestOf(t) = [contract |-> t[1].name, getter |-> Getter(t), payout |-> Payouts(t)[1],
                    name |-> NameOf(t[1].name, Payouts(t)[1])]
    BY DEF TestOf, NameOf, InARow
<1>11. Getter(t) \in {"balanceOf", "balances"}
    BY DEF Getter
<1> QED
    BY <1>7, <1>8, <1>9, <1>10, <1>11 DEF Test

LEMMA GeneratedAreTests ==
    ASSUME imports \in Seq(Seq(Contract))
    PROVE  [i \in 1 .. Len(Generated) |-> TestOf(Generated[i])] \in Seq(Test)
<1> DEFINE mine == {i \in 1 .. Len(imports) : Parsed(imports[i])}
           some == {i \in 1 .. Len(Imported) : Derivable(Imported[i])}
<1>1. Imported = Sublist(imports, mine) /\ Generated = Sublist(Imported, some)
    BY DEF Imported, Generated
<1>2. mine \in SUBSET (1 .. Len(imports)) /\ some \in SUBSET (1 .. Len(Imported))
    OBVIOUS
<1>3. \A i \in mine : Parsed(imports[i])
    OBVIOUS
<1>4. \A i \in some : Derivable(Imported[i])
    OBVIOUS
<1> HIDE DEF mine, some
<1>5. /\ Imported \in Seq(Seq(Contract))
      /\ \A i \in 1 .. Len(Imported) : Parsed(Imported[i])
    <2>1. /\ Imported \in Seq(Seq(Contract)) /\ Len(Imported) = Cardinality(mine)
          /\ \A k \in 1 .. Cardinality(mine) : /\ InOrder(mine)[k] \in mine
                                                /\ Imported[k] = imports[InOrder(mine)[k]]
        BY <1>1, <1>2, SublistProperties
    <2> QED
        BY <1>3, <2>1
<1>6. /\ Generated \in Seq(Seq(Contract))
      /\ \A i \in 1 .. Len(Generated) : Parsed(Generated[i]) /\ Derivable(Generated[i])
    <2>1. /\ Generated \in Seq(Seq(Contract)) /\ Len(Generated) = Cardinality(some)
          /\ \A k \in 1 .. Cardinality(some) : /\ InOrder(some)[k] \in some
                                                /\ Generated[k] = Imported[InOrder(some)[k]]
        BY <1>1, <1>2, <1>5, SublistProperties
    <2>2. \A i \in some : i \in 1 .. Len(Imported)
        BY <1>2
    <2> QED
        BY <1>4, <1>5, <2>1, <2>2
<1>7. Len(Generated) \in Nat /\ \A i \in 1 .. Len(Generated) : Generated[i] \in Seq(Contract)
    BY <1>6
<1>8. \A i \in 1 .. Len(Generated) : TestOf(Generated[i]) \in Test
    BY <1>6, <1>7, TestOfIsTest
<1> QED
    BY <1>7, <1>8

\* The lines forge prints.
Printed == {Line(verdict, i) : i \in FailedTests}

LEMMA ForgePrints ==
    ASSUME tests \in Seq(Test)
    PROVE  /\ FailureLines(verdict) \in Seq(Printed)
           /\ \A x \in Printed : \E k \in 1 .. Len(FailureLines(verdict)) : FailureLines(verdict)[k] = x
<1> DEFINE n == Len(tests)
           all == [i \in 1 .. n |-> Line(verdict, i)]
           any == {Line(verdict, i) : i \in 1 .. n}
           named == Sublist(all, FailedTests)
<1>1. n \in Nat /\ FailedTests \in SUBSET (1 .. n)
    BY DEF FailedTests
<1>2. all \in Seq(any) /\ Len(all) = n /\ \A i \in 1 .. n : all[i] = Line(verdict, i)
    <2>1. \A i \in 1 .. n : Line(verdict, i) \in any
        OBVIOUS
    <2> HIDE DEF any
    <2> QED
        BY <1>1, <2>1
<1>3. FailureLines(verdict) = named \o named
    BY DEF FailureLines, FailedTests
<1> HIDE DEF all, any
<1>4. /\ named \in Seq(any) /\ Len(named) = Cardinality(FailedTests)
      /\ \A k \in 1 .. Cardinality(FailedTests) : /\ InOrder(FailedTests)[k] \in FailedTests
                                                  /\ named[k] = all[InOrder(FailedTests)[k]]
      /\ \A p \in FailedTests : \E k \in 1 .. Cardinality(FailedTests) : named[k] = all[p]
    <2>1. all \in Seq(any) /\ FailedTests \in SUBSET (1 .. Len(all))
        BY <1>1, <1>2
    <2> QED
        BY <2>1, SublistProperties
<1> HIDE DEF named
<1>5. \A k \in 1 .. Len(named) : named[k] \in Printed
    BY <1>1, <1>2, <1>4 DEF Printed
<1>6. \A x \in Printed : \E k \in 1 .. Len(named) : named[k] = x
    BY <1>1, <1>2, <1>4 DEF Printed
<1>7. named \in Seq(Printed)
    BY <1>4, <1>5
<1>8. /\ named \o named \in Seq(Printed) /\ Len(named \o named) = Len(named) + Len(named)
      /\ \A i \in 1 .. Len(named) + Len(named) :
            (named \o named)[i] = IF i <= Len(named) THEN named[i] ELSE named[i - Len(named)]
    BY <1>7, ConcatProperties
<1>9. ASSUME NEW x \in Printed
      PROVE  \E k \in 1 .. Len(named \o named) : (named \o named)[k] = x
    <2>1. PICK k \in 1 .. Len(named) : named[k] = x
        BY <1>6
    <2>2. Len(named) \in Nat
        BY <1>7
    <2>3. k \in 1 .. Len(named \o named) /\ (named \o named)[k] = x
        BY <1>8, <2>1, <2>2
    <2> QED
        BY <2>3
<1> QED
    BY <1>3, <1>8, <1>9

LEMMA KeptArePrinted ==
    ASSUME tests \in Seq(Test), OutputIsCut
    PROVE  /\ output.lines \in Seq(Printed)
           /\ output.whole =>
                \A x \in Printed : \E k \in 1 .. Len(output.lines) : output.lines[k] = x
<1> DEFINE lines == FailureLines(verdict)
<1>1. /\ lines \in Seq(Printed)
      /\ \A x \in Printed : \E k \in 1 .. Len(lines) : lines[k] = x
    BY ForgePrints
<1>2. PICK kept \in 0 .. Len(lines) :
          /\ output.lines = SubSeq(lines, 1, kept)
          /\ output.whole <=> kept = Len(lines)
    BY DEF OutputIsCut
<1> HIDE DEF lines
<1>3. Len(lines) \in Nat /\ kept \in Nat /\ kept <= Len(lines)
    BY <1>1, <1>2
<1>4. \A i \in 1 .. kept : lines[i] \in Printed
    BY <1>1, <1>3
<1>5. SubSeq(lines, 1, kept) = [i \in 1 .. kept |-> lines[i]]
    BY <1>1, <1>3
<1>6. output.lines \in Seq(Printed)
    BY <1>2, <1>3, <1>4, <1>5
<1>7. kept = Len(lines) => Len(output.lines) = Len(lines) /\ \A i \in 1 .. Len(lines) : output.lines[i] = lines[i]
    BY <1>2, <1>3, <1>5
<1> QED
    BY <1>1, <1>2, <1>6, <1>7

LEMMA LineNamesTest ==
    ASSUME tests \in Seq(Test), NEW i \in FailedTests
    PROVE  Names(FailureOf(Line(verdict, i)), i)
<1> DEFINE x == tests[i]
           f == FailureOf(Line(verdict, i))
<1>1. x \in Test
    BY DEF FailedTests
<1>2. /\ x.contract \in Seq(Part) /\ x.payout \in Seq(Part)
      /\ x.name = NameOf(x.contract, x.payout)
    BY <1>1 DEF Test
<1>3. /\ f.test = x.name /\ f.counterexample = verdict[i]
      /\ f.contract = x.name[2] /\ f.function = x.name[4]
    <2>1. Line(verdict, i).test = x.name /\ Line(verdict, i).example = verdict[i]
        BY DEF Line
    <2> QED
        BY <2>1 DEF FailureOf
<1> HIDE DEF x, f
<1>4. /\ Len(x.contract) = 1 => f.contract = x.contract[1]
      /\ Len(x.contract) = 1 /\ Len(x.payout) = 1 => f.function = x.payout[1]
    <2>1. /\ Len(x.contract) = 1 => x.name[2] = x.contract[1]
          /\ Len(x.contract) = 1 /\ Len(x.payout) = 1 => x.name[4] = x.payout[1]
        <3> DEFINE c == x.contract
                   p == x.payout
        <3>1. c \in Seq(Part) /\ p \in Seq(Part) /\ x.name = NameOf(c, p)
            BY <1>2
        <3> HIDE DEF c, p
        <3>2. /\ Len(c) = 1 => NameOf(c, p)[2] = c[1]
              /\ Len(c) = 1 /\ Len(p) = 1 => NameOf(c, p)[4] = p[1]
            BY <3>1, NameProperties
        <3> QED
            BY <3>1, <3>2 DEF c, p
    <2> QED
        BY <1>3, <2>1
<1> QED
    BY <1>3, <1>4 DEF Names, x, f

LEMMA RowIsFaithful ==
    ASSUME tests \in Seq(Test), OutputIsCut, output.status = "ok",
           fuzzStored.failures = ParseFailures
    PROVE  FailuresAreFaithful
<1> DEFINE lines == NewLines(output.lines)
           failures == fuzzStored.failures
<1>1. /\ output.lines \in Seq(Printed)
      /\ output.whole =>
           \A x \in Printed : \E k \in 1 .. Len(output.lines) : output.lines[k] = x
    BY KeptArePrinted
<1>2. lines = Sublist(output.lines, FirstOnes(output.lines))
    BY DEF NewLines, FirstOnes, Repeats
<1>3. failures = [k \in 1 .. Len(lines) |-> FailureOf(lines[k])]
    BY DEF ParseFailures
<1> HIDE DEF lines, failures
<1>4. /\ lines \in Seq(Printed)
      /\ \A i \in 1 .. Len(output.lines) : \E k \in 1 .. Len(lines) : lines[k] = output.lines[i]
      /\ \A k, l \in 1 .. Len(lines) : lines[k] = lines[l] => k = l
    <2>1. output.lines \in Seq(Printed)
        BY <1>1
    <2> QED
        BY <1>2, <2>1, FirstOnesProperties
<1>5. /\ Len(lines) \in Nat /\ Len(failures) = Len(lines)
      /\ \A k \in 1 .. Len(lines) : failures[k] = FailureOf(lines[k])
    BY <1>3, <1>4
<1>6. \A k \in 1 .. Len(lines) : \E i \in FailedTests : lines[k] = Line(verdict, i)
    BY <1>4 DEF Printed
<1> DEFINE test(k) == CHOOSE i \in FailedTests : lines[k] = Line(verdict, i)
           about == [k \in 1 .. Len(lines) |-> test(k)]
<1>7. /\ about \in [1 .. Len(lines) -> FailedTests]
      /\ \A k \in 1 .. Len(lines) : lines[k] = Line(verdict, about[k])
    <2>1. \A k \in 1 .. Len(lines) : test(k) \in FailedTests /\ lines[k] = Line(verdict, test(k))
        BY <1>6, Zenon
    <2> HIDE DEF test
    <2> QED
        BY <2>1
<1> HIDE DEF about
<1>8. \A k, l \in 1 .. Len(lines) : about[k] = about[l] => k = l
    BY <1>4, <1>7
<1>9. ASSUME NEW k \in 1 .. Len(lines)
      PROVE  Names(failures[k], about[k])
    <2>1. about[k] \in FailedTests /\ failures[k] = FailureOf(Line(verdict, about[k]))
        BY <1>5, <1>7
    <2> QED
        BY <2>1, LineNamesTest
<1>10. ASSUME output.whole, NEW i \in FailedTests
       PROVE  \E k \in 1 .. Len(failures) : failures[k].test = tests[i].name
    <2>1. Line(verdict, i) \in Printed
        BY DEF Printed
    <2>2. PICK j \in 1 .. Len(output.lines) : output.lines[j] = Line(verdict, i)
        BY <1>1, <1>10, <2>1
    <2>3. PICK k \in 1 .. Len(lines) : lines[k] = Line(verdict, i)
        BY <1>4, <2>2
    <2>4. Names(failures[k], i)
        BY <1>5, <2>3, LineNamesTest
    <2> QED
        BY <1>5, <2>4 DEF Names
<1>11. \A k \in 1 .. Len(failures) : \E i \in FailedTests : failures[k].test = tests[i].name
    BY <1>5, <1>7, <1>9 DEF Names
<1>12. output.whole =>
         {failures[k].test : k \in 1 .. Len(failures)} = {tests[i].name : i \in FailedTests}
    <2> DEFINE kept(k) == failures[k].test
               name(i) == tests[i].name
    <2>1. \A k \in 1 .. Len(failures) : \E i \in FailedTests : kept(k) = name(i)
        BY <1>11
    <2>2. output.whole => \A i \in FailedTests : \E k \in 1 .. Len(failures) : kept(k) = name(i)
        BY <1>10
    <2> HIDE DEF kept, name
    <2>3. output.whole => {kept(k) : k \in 1 .. Len(failures)} = {name(i) : i \in FailedTests}
        BY <2>1, <2>2
    <2> QED
        BY <2>3 DEF kept, name
<1>13. \E f \in [1 .. Len(failures) -> FailedTests] :
          /\ \A k, l \in 1 .. Len(failures) : f[k] = f[l] => k = l
          /\ \A k \in 1 .. Len(failures) : Names(failures[k], f[k])
    BY <1>5, <1>7, <1>8, <1>9
<1> QED
    BY <1>12, <1>13 DEF FailuresAreFaithful, failures

-----------------------------------------------------------------------------
(* The fuzzing task *)

LEMMA OutputStays ==
    ASSUME UNCHANGED <<tests, verdict, output>>, OutputIsCut
    PROVE  OutputIsCut'
    BY DEF OutputIsCut, FailureLines, Line

LEMMA ParsedTheSame ==
    ASSUME UNCHANGED output
    PROVE  ParseFailures' = ParseFailures
    BY DEF ParseFailures, NewLines, Repeats, FailureOf

\* Nothing of the fuzzing task changes, or only where it is.
LEMMA FuzzStays ==
    ASSUME FuzzInv, UNCHANGED <<text, imports, tests, verdict, output, fuzzStored>>,
           \/ fuzz' = fuzz
           \/ fuzz # "done" /\ (output.status = "ok" => fuzz' \in {"clean_up", "store", "done", "failed"})
    PROVE  FuzzInv'
<1>1. OutputIsCut => OutputIsCut'
    BY OutputStays
<1>2. ParseFailures' = ParseFailures
    BY ParsedTheSame
<1> QED
    BY <1>1, <1>2 DEF FuzzInv

LEMMA InitFuzz == Init => FuzzInv
<1> SUFFICES ASSUME Init PROVE FuzzInv
    OBVIOUS
<1>1. /\ text \in Uploads /\ imports = <<>> /\ tests = <<>>
      /\ output.status = "none" /\ fuzzStored.status = "no_row"
    BY DEF Init, FuzzInit, NoOutput, NoFuzzRow
<1>2. text \in [Source -> Seq(Contract)]
    BY <1>1, FuzzAssumption
<1>3. <<>> \in Seq(Seq(Contract)) /\ <<>> \in Seq(Test)
    OBVIOUS
<1> QED
    BY <1>1, <1>2, <1>3 DEF FuzzInv

LEMMA ListContractsInv ==
    ASSUME FuzzInv, ListContracts
    PROVE  FuzzInv'
<1>1. PICK order \in SetToSeqs(Source), added \in {<<>>, <<<<Template>>>>} :
          imports' = [i \in 1 .. Len(order) |-> text[order[i]]] \o added
    BY DEF ListContracts
<1> DEFINE n == Cardinality(Source)
           listed == [i \in 1 .. Len(order) |-> text[order[i]]]
<1>2. n \in Nat
    BY FuzzAssumption, FS_CardinalityType
<1>3. order \in [1 .. n -> Source] /\ Len(order) = n
    BY <1>2 DEF SetToSeqs
<1>4. listed \in Seq(Seq(Contract))
    <2>1. \A i \in 1 .. n : text[order[i]] \in Seq(Contract)
        BY <1>3 DEF FuzzInv
    <2> QED
        BY <1>2, <1>3, <2>1
<1>5. added \in Seq(Seq(Contract))
    <2>1. Template \in Contract
        BY FuzzAssumption
    <2>2. <<Template>> \in Seq(Contract)
        BY <2>1
    <2>3. <<<<Template>>>> \in Seq(Seq(Contract))
        BY <2>2
    <2>4. <<>> \in Seq(Seq(Contract))
        OBVIOUS
    <2>5. added = <<>> \/ added = <<<<Template>>>>
        OBVIOUS
    <2> QED
        BY <2>3, <2>4, <2>5, Zenon
<1> HIDE DEF listed
<1>6. imports' \in Seq(Seq(Contract))
    BY <1>1, <1>4, <1>5, ConcatProperties DEF listed
<1>7. /\ fuzz' = "generate" /\ fuzz = "init"
      /\ UNCHANGED <<text, tests, verdict, output, fuzzStored>>
    BY DEF ListContracts, FuzzGoes
<1>8. output.status # "ok" /\ fuzzStored.status # "ok"
    BY <1>7 DEF FuzzInv
<1> QED
    BY <1>6, <1>7, <1>8 DEF FuzzInv

LEMMA GenerateTestsInv ==
    ASSUME FuzzInv, GenerateTests
    PROVE  FuzzInv'
<1>1. output.status # "ok" /\ fuzzStored.status # "ok"
    BY DEF FuzzInv, GenerateTests
<1>2. output'.status # "ok"
    BY <1>1 DEF GenerateTests, NoOutput
<1>3. tests' \in Seq(Test)
    BY GeneratedAreTests DEF FuzzInv, GenerateTests
<1>4. UNCHANGED <<text, imports, fuzzStored>>
    BY DEF GenerateTests
<1> QED
    BY <1>1, <1>2, <1>3, <1>4 DEF FuzzInv

LEMMA ForgeRunsInv ==
    ASSUME FuzzInv, ForgeRuns
    PROVE  FuzzInv'
<1>1. /\ fuzz = "forge" /\ fuzz' = "clean_up"
      /\ UNCHANGED <<text, imports, tests, fuzzStored>>
    BY DEF ForgeRuns, FuzzGoes
<1>2. fuzzStored.status # "ok"
    BY <1>1 DEF FuzzInv
<1> DEFINE Judged(v) ==
          \E kept \in 0 .. Len(FailureLines(v)) :
              output' = [status |-> "ok", lines |-> SubSeq(FailureLines(v), 1, kept),
                         whole |-> kept = Len(FailureLines(v))]
<1>0. PICK v \in [1 .. Len(tests) -> Failing \cup Silent] : verdict' = v /\ Judged(v)
    BY DEF ForgeRuns
<1>3. PICK kept \in 0 .. Len(FailureLines(v)) :
          /\ verdict' = v
          /\ output' = [status |-> "ok", lines |-> SubSeq(FailureLines(v), 1, kept),
                        whole |-> kept = Len(FailureLines(v))]
    BY <1>0
<1>4. FailureLines(verdict)' = FailureLines(v)
    BY <1>1, <1>3 DEF FailureLines, Line
<1>5. /\ output'.lines = SubSeq(FailureLines(v), 1, kept)
      /\ output'.whole <=> kept = Len(FailureLines(v))
    BY <1>3
<1>6. OutputIsCut'
    BY <1>3, <1>4, <1>5 DEF OutputIsCut
<1> QED
    BY <1>1, <1>2, <1>6 DEF FuzzInv

LEMMA FuzzStepKeeps ==
    ASSUME FuzzInv, FuzzStep
    PROVE  FuzzInv'
<1>1. CASE MakeWorkspace \/ ForgeStops
    <2>1. /\ fuzz \in {"start", "forge"}
          /\ UNCHANGED <<text, imports, tests, fuzzStored>>
        BY <1>1 DEF MakeWorkspace, ForgeStops, FuzzGoes
    <2>2. output.status # "ok" /\ fuzzStored.status # "ok"
        BY <2>1 DEF FuzzInv
    <2>3. output'.status # "ok"
        BY <1>1, <2>2 DEF MakeWorkspace, ForgeStops, NoOutput
    <2> QED
        BY <2>1, <2>2, <2>3 DEF FuzzInv
<1>2. CASE CopyUpload \/ CopyFails \/ EngineRaises
    <2>1. /\ fuzz \in {"copy", "init", "generate", "forge"}
          /\ UNCHANGED <<text, imports, tests, verdict, output, fuzzStored>>
        BY <1>2 DEF CopyUpload, CopyFails, EngineRaises, FuzzGoes
    <2>2. output.status # "ok"
        BY <2>1 DEF FuzzInv
    <2> QED
        BY <2>1, <2>2, FuzzStays
<1>3. CASE CleanUp \/ StoreFails
    <2>1. /\ fuzz \in {"clean_up", "store"} /\ fuzz' \in {"store", "failed"}
          /\ UNCHANGED <<text, imports, tests, verdict, output, fuzzStored>>
        BY <1>3 DEF CleanUp, StoreFails, FuzzGoes
    <2> QED
        BY <2>1, FuzzStays
<1>4. CASE StoreFailures
    <2>1. /\ fuzz = "store" /\ fuzz' = "done"
          /\ UNCHANGED <<text, imports, tests, verdict, output>>
          /\ fuzzStored' = [status |-> output.status, failures |-> ParseFailures]
        BY <1>4 DEF StoreFailures, FuzzGoes
    <2>2. ParseFailures' = ParseFailures
        BY <2>1, ParsedTheSame
    <2>3. OutputIsCut => OutputIsCut'
        BY <2>1, OutputStays
    <2> QED
        BY <2>1, <2>2, <2>3 DEF FuzzInv
<1> QED
    BY <1>1, <1>2, <1>3, <1>4, ListContractsInv, GenerateTestsInv, ForgeRunsInv DEF FuzzStep

LEMMA FuzzInvStep == FuzzInv /\ [Next]_vars => FuzzInv'
<1> SUFFICES ASSUME FuzzInv, [Next]_vars PROVE FuzzInv'
    OBVIOUS
<1>1. CASE FuzzStep
    BY <1>1, FuzzStepKeeps
<1>2. CASE UNCHANGED fuzzVars
    BY <1>2, FuzzStays DEF fuzzVars
<1>3. FuzzStep \/ UNCHANGED fuzzVars
    BY DEF Next, Cleanup, Over, vars
<1> QED
    BY <1>1, <1>2, <1>3

THEOREM FuzzBookkeeping == Spec => []FuzzInv
    BY InitFuzz, FuzzInvStep, PTL DEF Spec

\* Each failure of the fuzzing_results row is a failed test of its own, named
\* with its contract and its function, and no failed test is missing from it
\* unless forge's output was cut (_parse_failures, FuzzerEngine.execute).
THEOREM FailuresAreTrue == Spec => []FailuresAreFaithful
<1>1. FuzzInv => FailuresAreFaithful
    <2>1. fuzzStored.status # "ok" => FailuresAreFaithful
        BY DEF FailuresAreFaithful
    <2> QED
        BY <2>1, RowIsFaithful DEF FuzzInv
<1> QED
    BY <1>1, FuzzBookkeeping, PTL

-----------------------------------------------------------------------------
(* Polishing *)

LEMMA Quotient ==
    ASSUME NEW n \in Nat, NEW d \in Nat \ {0}
    PROVE  n \div d \in Nat /\ (n \div d) * d <= n /\ n < (n \div d) * d + d
    OBVIOUS

LEMMA QuotientIs ==
    ASSUME NEW n \in Nat, NEW d \in Nat \ {0}, NEW q \in Nat, q * d <= n, n < q * d + d
    PROVE  n \div d = q
    OBVIOUS

LEMMA Multiples ==
    ASSUME NEW q \in Nat, NEW d \in Nat
    PROVE  /\ q * d \in Nat /\ (q + 1) * d = q * d + d
           /\ \A r \in Nat : q < r => q * d + d <= r * d
    OBVIOUS

\* The number of batches: all but the last are full.
LEMMA Batches ==
    ASSUME NEW n \in Nat, NEW d \in Nat \ {0}
    PROVE  LET m == (n + d - 1) \div d
           IN  m \in Nat /\ n <= m * d /\ \A b \in Nat : b < m => b * d < n
<1> DEFINE m == (n + d - 1) \div d
<1>1. n + d - 1 \in Nat
    OBVIOUS
<1>2. m \in Nat /\ m * d <= n + d - 1 /\ n + d - 1 < m * d + d
    BY <1>1, Quotient
<1> HIDE DEF m
<1>3. m * d \in Nat
    BY <1>2, Multiples
<1>4. n <= m * d
    BY <1>2, <1>3
<1>5. ASSUME NEW b \in Nat, b < m
      PROVE  b * d < n
    <2>1. b * d \in Nat /\ b * d + d <= m * d
        BY <1>2, <1>5, Multiples
    <2> QED
        BY <1>2, <1>3, <2>1
<1> QED
    BY <1>2, <1>4, <1>5 DEF m

\* The first places of a polished list.
KeptUpTo(items, got, n) ==
    /\ Len(got) = n
    /\ \A i \in 1 .. n : got[i] = items[i] \/ got[i].batch = (i - 1) \div BatchSize + 1

\* A batch of items that begins after the first n.
BatchAfter(items, n) ==
    SubSeq(items, n + 1, IF n + BatchSize < Len(items) THEN n + BatchSize ELSE Len(items))

LEMMA BatchAfterProperties ==
    ASSUME NEW S, NEW items \in Seq(S), NEW n \in Nat, n < Len(items)
    PROVE  LET c == IF n + BatchSize < Len(items) THEN BatchSize ELSE Len(items) - n
           IN  /\ c \in Nat /\ c <= BatchSize /\ n + c <= Len(items)
               /\ BatchAfter(items, n) \in Seq(S) /\ Len(BatchAfter(items, n)) = c
               /\ \A j \in 1 .. c : BatchAfter(items, n)[j] = items[n + j]
<1> DEFINE e == IF n + BatchSize < Len(items) THEN n + BatchSize ELSE Len(items)
           c == IF n + BatchSize < Len(items) THEN BatchSize ELSE Len(items) - n
<1>1. BatchSize \in Nat \ {0}
    BY ReportingAssumption
<1>2. e = n + c /\ c \in Nat /\ c <= BatchSize /\ n + c <= Len(items)
    BY <1>1
<1> HIDE DEF c, e
<1>3. SubSeq(items, n + 1, e) = [j \in 1 .. (e - (n + 1) + 1) |-> items[n + 1 + j - 1]]
    BY <1>2
<1>4. e - (n + 1) + 1 = c /\ \A j \in 1 .. c : n + 1 + j - 1 = n + j
    BY <1>2
<1>5. SubSeq(items, n + 1, e) = [j \in 1 .. c |-> items[n + j]]
    BY <1>2, <1>3, <1>4
<1>6. \A j \in 1 .. c : items[n + j] \in S
    BY <1>2
<1>7. /\ SubSeq(items, n + 1, e) \in Seq(S) /\ Len(SubSeq(items, n + 1, e)) = c
      /\ \A j \in 1 .. c : SubSeq(items, n + 1, e)[j] = items[n + j]
    BY <1>2, <1>5, <1>6
<1> QED
    BY <1>2, <1>7 DEF BatchAfter, c, e

\* Whatever the model replies, the answer has a place for each item.
LEMMA AnswerFits ==
    ASSUME NEW S, NEW batch \in Seq(S), NEW b \in Nat, [batch |-> b] \in S, NEW reply \in Nat
    PROVE  LET answer == PolishSingleBatch(batch, b, reply)
           IN  /\ answer \in Seq(S) /\ Len(answer) = Len(batch)
               /\ \A j \in 1 .. Len(batch) : answer[j] = batch[j] \/ answer[j].batch = b
<1>1. CASE reply = Len(batch)
    <2> DEFINE x == [batch |-> b]
    <2>1. x \in S /\ x.batch = b
        OBVIOUS
    <2>2. PolishSingleBatch(batch, b, reply) = [j \in 1 .. Len(batch) |-> x]
        BY <1>1 DEF PolishSingleBatch, Rewritten
    <2> HIDE DEF x
    <2>3. Len(batch) \in Nat
        OBVIOUS
    <2> QED
        BY <2>1, <2>2, <2>3
<1>2. CASE reply # Len(batch)
    BY <1>2 DEF PolishSingleBatch
<1> QED
    BY <1>1, <1>2

\* The items in the first b batches, when all of them are full.
InFull(b) == b * BatchSize

\* The answer to the batch after the first n items, number b.
Answers(items, n, b, answer) ==
    /\ Len(answer) = Len(BatchAfter(items, n))
    /\ \A j \in 1 .. Len(answer) : answer[j] = BatchAfter(items, n)[j] \/ answer[j].batch = b

LEMMA SamePlace ==
    ASSUME NEW b \in Nat, NEW k \in Nat, InFull(b) <= k, k < InFull(b) + BatchSize
    PROVE  k \div BatchSize = b
    BY ReportingAssumption, QuotientIs DEF InFull

LEMMA OneMoreBatch ==
    ASSUME NEW S, NEW items \in Seq(S), NEW b \in Nat, NEW n \in Nat, n = InFull(b),
           n < Len(items), NEW got \in Seq(S), KeptUpTo(items, got, n),
           NEW answer \in Seq(S), Answers(items, n, b + 1, answer)
    PROVE  KeptUpTo(items, got \o answer,
                    IF n + BatchSize < Len(items) THEN n + BatchSize ELSE Len(items))
<1> DEFINE c == IF n + BatchSize < Len(items) THEN BatchSize ELSE Len(items) - n
<1>1. BatchSize \in Nat \ {0}
    BY ReportingAssumption
<1>2. /\ c \in Nat /\ c <= BatchSize /\ n + c <= Len(items)
      /\ Len(answer) = c
      /\ \A j \in 1 .. c : answer[j] = items[n + j] \/ answer[j].batch = b + 1
    BY BatchAfterProperties DEF Answers
<1>3. n + c = IF n + BatchSize < Len(items) THEN n + BatchSize ELSE Len(items)
    BY <1>1
<1> HIDE DEF c
<1>4. Len(got) = n /\ \A i \in 1 .. n : got[i] = items[i] \/ got[i].batch = (i - 1) \div BatchSize + 1
    BY DEF KeptUpTo
<1> DEFINE z == got \o answer
<1>5. Joins(z, got, n, answer, c)
    <2>1. c \in Nat /\ Len(got) = n /\ Len(answer) = c
        BY <1>2, <1>4
    <2> QED
        BY <2>1, JoinedLists
<1> HIDE DEF z
<1>6. ASSUME NEW i \in 1 .. n + c
      PROVE  z[i] = items[i] \/ z[i].batch = (i - 1) \div BatchSize + 1
    <2>1. CASE i <= n
        BY <1>4, <1>5, <2>1 DEF Joins
    <2>2. CASE ~ (i <= n)
        <3>0. c \in Nat /\ c <= BatchSize
            BY <1>2
        <3>1. i - n \in 1 .. c /\ n + (i - n) = i /\ i - 1 \in Nat
            BY <2>2, <3>0
        <3>2. z[i] = items[i] \/ z[i].batch = b + 1
            BY <1>2, <1>5, <2>2, <3>1 DEF Joins
        <3>3. n <= i - 1 /\ i - 1 < n + BatchSize
            BY <1>1, <2>2, <3>0
        <3>4. (i - 1) \div BatchSize = b
            BY <3>1, <3>3, SamePlace
        <3> QED
            BY <3>2, <3>4
    <2> QED
        BY <2>1, <2>2
<1>7. KeptUpTo(items, z, n + c)
    BY <1>5, <1>6 DEF KeptUpTo, Joins
<1> QED
    BY <1>3, <1>7 DEF z

\* All findings, and what the model may make of them.
Finding == [of : Ref \cup Nat, batch : {0}]
Answer == Finding \cup [batch : Nat]

LEMMA BatchIsNext ==
    ASSUME NEW S, NEW items \in Seq(S), NEW b \in Nat, NEW c, c = b + 1
    PROVE  BatchAt(items, c) = BatchAfter(items, InFull(b)) /\ InFull(b) \in Nat
           /\ InFull(c) = InFull(b) + BatchSize
<1>1. BatchSize \in Nat
    BY ReportingAssumption
<1>2. /\ InFull(b) \in Nat
      /\ c * BatchSize = InFull(b) + BatchSize
    BY <1>1, Multiples DEF InFull
<1>3. c * BatchSize - BatchSize + 1 = InFull(b) + 1
    BY <1>1, <1>2
<1>4. BatchAt(items, c) = BatchAfter(items, InFull(b))
    BY <1>2, <1>3 DEF BatchAt, BatchAfter
<1> QED
    BY <1>2, <1>4 DEF InFull

LEMMA PolishKeeps ==
    ASSUME NEW items \in Seq(Answer), NEW polished \in Polishings(items)
    PROVE  polished \in Seq(Answer) /\ KeptInPlace(items, polished)
<1> DEFINE n == Len(items)
           m == BatchesOf(items)
           Covered(b) == IF InFull(b) < n THEN InFull(b) ELSE n
<1>1. n \in Nat /\ BatchSize \in Nat \ {0}
    BY ReportingAssumption
<1>2. m \in Nat /\ n <= InFull(m) /\ \A b \in Nat : b < m => InFull(b) < n
    BY <1>1, Batches DEF BatchesOf, InFull
<1> HIDE DEF m
<1>3. PICK replies \in [1 .. m -> 0 .. (BatchSize + 1)] : polished = PolishCategory(items, replies)
    BY DEF Polishings, m
<1> DEFINE part(b) == PolishSingleBatch(BatchAt(items, b), b, replies[b])
           seqs == [b \in 1 .. m |-> part(b)]
<1>4. ASSUME NEW b \in Nat, b < m
      PROVE  /\ part(b + 1) \in Seq(Answer)
             /\ Answers(items, InFull(b), b + 1, part(b + 1))
             /\ InFull(b) \in Nat /\ InFull(b + 1) = InFull(b) + BatchSize /\ InFull(b) < n
    <2> DEFINE batch == BatchAfter(items, InFull(b))
               c == b + 1
    <2>1. /\ BatchAt(items, c) = batch /\ InFull(b) \in Nat
          /\ InFull(c) = InFull(b) + BatchSize
        BY BatchIsNext
    <2>2. InFull(b) < n
        BY <1>2, <1>4
    <2>3. batch \in Seq(Answer)
        BY <2>1, <2>2, BatchAfterProperties
    <2>4. replies[c] \in Nat
        <3>1. c \in 1 .. m
            BY <1>2, <1>4
        <3> HIDE DEF c
        <3>2. replies[c] \in 0 .. (BatchSize + 1)
            BY <3>1
        <3> QED
            BY <1>1, <3>2
    <2>5. [batch |-> c] \in Answer /\ c \in Nat
        BY DEF Answer
    <2> HIDE DEF batch, c
    <2>6. LET answer == PolishSingleBatch(batch, c, replies[c])
          IN  /\ answer \in Seq(Answer) /\ Len(answer) = Len(batch)
              /\ \A j \in 1 .. Len(batch) : answer[j] = batch[j] \/ answer[j].batch = c
        BY <2>3, <2>4, <2>5, AnswerFits
    <2>7. part(c) \in Seq(Answer) /\ Answers(items, InFull(b), c, part(c))
        BY <2>1, <2>6 DEF Answers, batch
    <2> QED
        BY <2>1, <2>2, <2>7 DEF c
<1> HIDE DEF part
<1>5. seqs \in [1 .. m -> Seq(Answer)]
    <2>1. ASSUME NEW b \in 1 .. m
          PROVE  part(b) \in Seq(Answer)
        <3>1. b - 1 \in Nat /\ b - 1 < m /\ (b - 1) + 1 = b
            BY <1>2
        <3> QED
            BY <1>4, <3>1
    <2> QED
        BY <2>1
<1>6. PICK f \in [1 .. m -> Seq(Answer)] :
          Appends(f, seqs) /\ FlattenSeq(seqs) = IF m = 0 THEN <<>> ELSE f[m]
    BY <1>2, <1>5, FlattenProperties
<1>7. polished = IF m = 0 THEN <<>> ELSE f[m]
    BY <1>3, <1>6 DEF PolishCategory, part, m
<1>8. \A b \in 1 .. m : f[b] = IF b = 1 THEN part(b) ELSE f[b - 1] \o part(b)
    BY <1>6 DEF Appends
<1> HIDE DEF seqs
<1> DEFINE got(b) == IF b = 0 THEN <<>> ELSE f[b]
           Good == {b \in Nat : b <= m => got(b) \in Seq(Answer) /\ KeptUpTo(items, got(b), Covered(b))}
<1>9. 0 \in Good
    <2>1. InFull(0) = 0 /\ Covered(0) = 0
        BY <1>1 DEF InFull
    <2> QED
        BY <2>1 DEF KeptUpTo
<1>10. ASSUME NEW b \in Nat, b < m, b \in Good
       PROVE  b + 1 \in Good
    <2>1. got(b) \in Seq(Answer) /\ KeptUpTo(items, got(b), InFull(b))
        BY <1>2, <1>10
    <2>2. got(b + 1) = got(b) \o part(b + 1) /\ got(b + 1) \in Seq(Answer)
        <3>1. b + 1 \in 1 .. m /\ b + 1 # 0 /\ (b + 1) - 1 = b
            BY <1>2, <1>10
        <3>2. CASE b = 0
            <4>1. <<>> \o part(b + 1) = part(b + 1)
                BY <1>4, <1>10, ConcatEmptySeq
            <4> QED
                BY <1>8, <3>1, <3>2, <4>1
        <3>3. CASE b # 0
            <4> DEFINE c == b + 1
            <4>1. c \in 1 .. m /\ c # 1 /\ c - 1 = b
                BY <3>1, <3>3
            <4> HIDE DEF c
            <4>2. f[c] = f[c - 1] \o part(c) /\ f[c] \in Seq(Answer)
                BY <1>8, <4>1
            <4>3. f[c] = f[b] \o part(c)
                BY <4>1, <4>2
            <4> QED
                BY <3>1, <3>3, <4>2, <4>3 DEF c
        <3> QED
            BY <3>2, <3>3
    <2> HIDE DEF got
    <2>0. Covered(b + 1) = IF InFull(b) + BatchSize < Len(items) THEN InFull(b) + BatchSize
                           ELSE Len(items)
        BY <1>4, <1>10
    <2>3. KeptUpTo(items, got(b) \o part(b + 1),
                   IF InFull(b) + BatchSize < Len(items) THEN InFull(b) + BatchSize ELSE Len(items))
        <3> DEFINE k == InFull(b)
                   a == part(b + 1)
                   g == got(b)
        <3>1. /\ a \in Seq(Answer) /\ Answers(items, k, b + 1, a)
              /\ k \in Nat /\ k < Len(items) /\ k = InFull(b)
            BY <1>4, <1>10
        <3>2. g \in Seq(Answer) /\ KeptUpTo(items, g, k)
            BY <2>1
        <3> HIDE DEF a, g, k
        <3>3. KeptUpTo(items, g \o a, IF k + BatchSize < Len(items) THEN k + BatchSize ELSE Len(items))
            BY <3>1, <3>2, OneMoreBatch
        <3> QED
            BY <3>3 DEF a, g, k
    <2> DEFINE more == IF InFull(b) + BatchSize < Len(items) THEN InFull(b) + BatchSize ELSE Len(items)
               now == Covered(b + 1)
    <2>4. now = more /\ KeptUpTo(items, got(b) \o part(b + 1), more)
        BY <2>0, <2>3
    <2> HIDE DEF more, now
    <2>5. KeptUpTo(items, got(b + 1), now)
        BY <2>2, <2>4
    <2>6. b + 1 \in Nat /\ got(b + 1) \in Seq(Answer) /\ KeptUpTo(items, got(b + 1), Covered(b + 1))
        BY <2>2, <2>5 DEF now
    <2> HIDE DEF Covered
    <2> QED
        BY <2>6
<1> HIDE DEF Good
<1>11. m \in Good
    <2>1. m \in Nat
        BY <1>2
    <2> QED
        BY <1>9, <1>10, <2>1, UpTo
<1>12. Covered(m) = n /\ polished = got(m)
    <2>1. InFull(m) \in Nat
        BY <1>1, <1>2, Multiples DEF InFull
    <2> QED
        BY <1>1, <1>2, <1>7, <2>1
<1>13. polished \in Seq(Answer) /\ KeptUpTo(items, polished, n)
    BY <1>2, <1>11, <1>12 DEF Good
<1> QED
    BY <1>13 DEF KeptInPlace, KeptUpTo

-----------------------------------------------------------------------------
(* The rows while reports are made *)

Run == [status : {"running", "settled", "failed"}, saved : BOOLEAN]
Lists == [slither : Seq(Answer), fuzzing : Seq(Answer), llm : Seq(Answer)]
Verdict == {"legacy", "running", "settled", "failed"}
Report == [task : Task, raw : Lists, polished : Lists, run : Nat, status : Verdict]

Rows == [exists : BOOLEAN, runs : Seq(Run), llm : Seq(Nat), detections : Seq(Ref),
         fuzz : Seq(Nat), marks : SUBSET Ref, reports : SUBSET Report]

\* The findings of a run are saved before its verdict.
SavedFirst == \A r \in 1 .. Len(stored.runs) : stored.runs[r].status = "settled" => stored.runs[r].saved

RowsInv == stored \in Rows /\ SavedFirst

\* Run r, whose findings are saved, stays, and so do they.
SavedStays(r) ==
    r \in 1 .. Len(stored.runs) /\ stored.runs[r].saved =>
        /\ r \in 1 .. Len(stored'.runs) /\ stored'.runs[r].saved
        /\ FindingsOf(r)' = FindingsOf(r)

\* What the other tasks leave as it is, as long as the project is there.
RowsKept == /\ stored'.exists = stored.exists /\ stored'.reports = stored.reports
            /\ \A r : SavedStays(r)

LEMMA OpenRunKeeps ==
    ASSUME RowsInv, OpenRun
    PROVE  RowsInv' /\ RowsKept
<1> DEFINE new == [status |-> "running", saved |-> FALSE]
           more == Append(stored.runs, new)
<1>1. stored' = [stored EXCEPT !.runs = more]
    BY DEF OpenRun, Commits
<1>2. new \in Run /\ new.status # "settled"
    BY DEF Run
<1> HIDE DEF new
<1>3. stored.runs \in Seq(Run) /\ Len(stored.runs) \in Nat
    BY DEF RowsInv, Rows
<1>4. /\ more \in Seq(Run) /\ Len(more) = Len(stored.runs) + 1
      /\ \A r \in 1 .. Len(stored.runs) : more[r] = stored.runs[r]
      /\ more[Len(stored.runs) + 1] = new
    BY <1>2, <1>3
<1> HIDE DEF more
<1>5. stored' \in Rows /\ stored'.runs = more /\ stored'.llm = stored.llm
      /\ stored'.exists = stored.exists /\ stored'.reports = stored.reports
    BY <1>1, <1>4 DEF RowsInv, Rows
<1>6. ASSUME NEW r \in 1 .. Len(more), more[r].status = "settled"
      PROVE  more[r].saved
    <2>1. r \in 1 .. Len(stored.runs)
        BY <1>2, <1>3, <1>4, <1>6
    <2> QED
        BY <1>4, <1>6, <2>1 DEF RowsInv, SavedFirst
<1>7. \A r \in 1 .. Len(stored.runs) : r \in 1 .. Len(more)
    BY <1>3, <1>4
<1> QED
    BY <1>4, <1>5, <1>6, <1>7 DEF RowsInv, SavedFirst, RowsKept, SavedStays, FindingsOf

\* Findings of another run are added at the end.
LEMMA FindingsAdded ==
    ASSUME NEW m \in Nat, NEW old \in Seq(Nat), Len(old) = m, NEW n \in Nat, NEW q \in Nat, NEW r, r # q
    PROVE  LET all == old \o [i \in 1 .. n |-> q]
           IN  all \in Seq(Nat) /\ {i \in 1 .. Len(all) : all[i] = r} = {i \in 1 .. m : old[i] = r}
<1> DEFINE added == [i \in 1 .. n |-> q]
           all == old \o added
<1>1. added \in Seq(Nat) /\ Len(added) = n /\ \A i \in 1 .. n : added[i] = q
    OBVIOUS
<1> HIDE DEF added
<1>3. all \in Seq(Nat) /\ Joins(all, old, m, added, n)
    BY <1>1, JoinedLists
<1> HIDE DEF all
<1>4. ASSUME NEW i \in 1 .. m + n, i > m
      PROVE  all[i] = q
    <2>1. i - m \in 1 .. n /\ m + (i - m) = i
        BY <1>4
    <2> QED
        BY <1>1, <1>3, <1>4, <2>1 DEF Joins
<1>5. ASSUME NEW i \in 1 .. m
      PROVE  i \in 1 .. m + n /\ all[i] = old[i]
    BY <1>3 DEF Joins
<1>6. {i \in 1 .. m + n : all[i] = r} = {i \in 1 .. m : old[i] = r}
    BY <1>4, <1>5
<1>7. Len(all) = m + n
    BY <1>3 DEF Joins
<1> QED
    BY <1>3, <1>6, <1>7 DEF all, added

\* Another state of run q, whose findings are saved no less than before.
LEMMA RunChanges ==
    ASSUME RowsInv, NEW q \in 1 .. Len(stored.runs), NEW new \in Run,
           stored.runs[q].saved => new.saved, new.status = "settled" => new.saved,
           NEW all \in Seq(Nat), stored' \in Rows,
           stored'.runs = [stored.runs EXCEPT ![q] = new], stored'.llm = all,
           stored'.exists = stored.exists, stored'.reports = stored.reports,
           \A r \in 1 .. Len(stored.runs) : stored.runs[r].saved =>
               {i \in 1 .. Len(all) : all[i] = r} = FindingsOf(r)
    PROVE  RowsInv' /\ RowsKept
<1>1. /\ Len(stored'.runs) = Len(stored.runs) /\ stored'.runs[q] = new
      /\ \A r \in 1 .. Len(stored.runs) : r # q => stored'.runs[r] = stored.runs[r]
    BY DEF RowsInv, Rows
<1>2. \A r \in 1 .. Len(stored.runs) : /\ stored.runs[r].saved => stored'.runs[r].saved
                                       /\ stored'.runs[r].status = "settled" => stored'.runs[r].saved
    BY <1>1 DEF RowsInv, SavedFirst
<1>3. \A r \in 1 .. Len(stored.runs) : stored.runs[r].saved => FindingsOf(r)' = FindingsOf(r)
    BY DEF FindingsOf
<1> QED
    BY <1>1, <1>2, <1>3 DEF RowsInv, SavedFirst, RowsKept, SavedStays

LEMMA RunIsRun ==
    ASSUME RowsInv, NEW q \in 1 .. Len(stored.runs)
    PROVE  stored.runs[q] \in Run /\ stored.runs \in Seq(Run) /\ q \in Nat /\ stored.llm \in Seq(Nat)
BY DEF RowsInv, Rows

LEMMA SaveFindingsKeeps ==
    ASSUME RowsInv, NEW q \in 1 .. Len(stored.runs), SaveFindings(q)
    PROVE  RowsInv' /\ RowsKept
<1>1. PICK n \in 0 .. MaxFindings :
        stored' = [stored EXCEPT !.runs[q].saved = TRUE, !.llm = @ \o [i \in 1 .. n |-> q]]
    BY Zenon DEF SaveFindings, Commits
<1>2. n \in Nat
    BY ReportingAssumption
<1> DEFINE new == [stored.runs[q] EXCEPT !.saved = TRUE]
           all == stored.llm \o [i \in 1 .. n |-> q]
           runs == [stored.runs EXCEPT ![q] = new]
<1>3. stored' = [stored EXCEPT !.runs = runs, !.llm = all]
    BY <1>1
<1>4. new \in Run /\ new.saved /\ runs \in Seq(Run)
    <2>1. stored.runs[q] \in Run /\ stored.runs \in Seq(Run)
        BY RunIsRun
    <2>2. new \in Run /\ new.saved
        BY <2>1 DEF Run
    <2> QED
        BY <2>1, <2>2
<1>5. all \in Seq(Nat) /\ \A r : r # q =>
        {i \in 1 .. Len(all) : all[i] = r} = {i \in 1 .. Len(stored.llm) : stored.llm[i] = r}
    <2>1. Len(stored.llm) \in Nat
        BY RunIsRun
    <2>2. q \in Nat /\ stored.llm \in Seq(Nat)
        BY RunIsRun
    <2>3. all \in Seq(Nat)
        BY <1>2, <2>2
    <2> QED
        BY <1>2, <2>1, <2>2, <2>3, FindingsAdded
<1> HIDE DEF new, all
<1>6. stored' \in Rows /\ stored'.runs = runs /\ stored'.llm = all
      /\ stored'.exists = stored.exists /\ stored'.reports = stored.reports
    BY <1>3, <1>4, <1>5 DEF RowsInv, Rows
<1>7. ~stored.runs[q].saved
    BY DEF SaveFindings
<1>8. \A r \in 1 .. Len(stored.runs) : stored.runs[r].saved =>
        {i \in 1 .. Len(all) : all[i] = r} = FindingsOf(r)
    BY <1>5, <1>7 DEF FindingsOf
<1> QED
    BY <1>4, <1>5, <1>6, <1>8, RunChanges

\* A verdict on run q.
LEMMA VerdictKeeps ==
    ASSUME RowsInv, NEW q \in 1 .. Len(stored.runs), NEW v \in {"settled", "failed"},
           v = "settled" => stored.runs[q].saved,
           stored' = [stored EXCEPT !.runs[q].status = v]
    PROVE  RowsInv' /\ RowsKept
<1> DEFINE new == [stored.runs[q] EXCEPT !.status = v]
           runs == [stored.runs EXCEPT ![q] = new]
<1>1. stored' = [stored EXCEPT !.runs = runs]
    OBVIOUS
<1>2. new \in Run /\ new.saved = stored.runs[q].saved /\ new.status = v /\ runs \in Seq(Run)
    BY RunIsRun DEF Run
<1> HIDE DEF new
<1>3. stored' \in Rows /\ stored'.runs = runs /\ stored'.llm = stored.llm
      /\ stored'.exists = stored.exists /\ stored'.reports = stored.reports
    BY <1>1, <1>2 DEF RowsInv, Rows
<1>4. stored.llm \in Seq(Nat)
    BY RunIsRun
<1>5. \A r \in 1 .. Len(stored.runs) : stored.runs[r].saved =>
        {i \in 1 .. Len(stored.llm) : stored.llm[i] = r} = FindingsOf(r)
    BY DEF FindingsOf
<1> QED
    BY <1>2, <1>3, <1>4, <1>5, RunChanges

\* What the tools store, and the marks, are rows of other tables.
LEMMA OtherRowsKeep ==
    ASSUME RowsInv, StoreScan \/ StoreFuzz \/ \E ref \in Ref : MarkFalsePositive(ref)
    PROVE  RowsInv' /\ RowsKept
<1>1. /\ stored' \in Rows
      /\ stored'.runs = stored.runs /\ stored'.llm = stored.llm
      /\ stored'.exists = stored.exists /\ stored'.reports = stored.reports
    <2>1. CASE StoreScan
        <3>1. PICK refs \in BoundedSeq(Ref, MaxScans - Len(stored.detections)) :
                stored' = [stored EXCEPT !.detections = @ \o refs]
            BY <2>1 DEF StoreScan, Commits
        <3>2. refs \in Seq(Ref)
            BY DEF BoundedSeq, SeqOf
        <3>3. stored.detections \o refs \in Seq(Ref)
            BY <3>2 DEF RowsInv, Rows
        <3> QED
            BY <3>1, <3>3 DEF RowsInv, Rows
    <2>2. CASE StoreFuzz
        <3>1. PICK failures \in 0 .. MaxFailures :
                stored' = [stored EXCEPT !.fuzz = Append(@, failures)]
            BY <2>2 DEF StoreFuzz, Commits
        <3>2. Append(stored.fuzz, failures) \in Seq(Nat)
            BY ReportingAssumption DEF RowsInv, Rows
        <3> QED
            BY <3>1, <3>2 DEF RowsInv, Rows
    <2>3. CASE \E ref \in Ref : MarkFalsePositive(ref)
        BY <2>3 DEF MarkFalsePositive, Commits, RowsInv, Rows
    <2> QED
        BY <2>1, <2>2, <2>3
<1> QED
    BY <1>1 DEF RowsInv, SavedFirst, RowsKept, SavedStays, FindingsOf

-----------------------------------------------------------------------------
(* What the tasks hold, and the reports *)

Job == [at : {"idle", "marks", "detections", "fuzz", "run", "llm", "polish", "render", "commit",
              "done", "failed"},
        format : Format, marks : SUBSET Ref, raw : Lists, polished : Lists, run : Nat, status : Verdict, odd : BOOLEAN]

\* The verdict that x shows was given on findings that are saved.
RunIsThere(x) ==
    x.run # 0 /\ x.status = "settled" =>
        x.run \in 1 .. Len(stored.runs) /\ stored.runs[x.run].saved

ShowsOneRun(x) ==
    x.run # 0 =>
        /\ \A i \in 1 .. Len(x.raw.llm) : x.raw.llm[i].of = x.run
        /\ x.status = "settled" => Len(x.raw.llm) = Cardinality(FindingsOf(x.run))

KeepsFindings(x) == \A c \in Category : KeptInPlace(x.raw[c], x.polished[c])

HasRead(j) == /\ stored.exists /\ j.at \in {"llm", "polish", "render", "commit"} => RunIsThere(j)
              /\ stored.exists /\ j.at \in {"polish", "render", "commit"} => ShowsOneRun(j)
              /\ j.at \in {"render", "commit"} => KeepsFindings(j)

IsTrue(report) == RunIsThere(report) /\ ShowsOneRun(report) /\ KeepsFindings(report)

\* A task whose project is gone may hold what is nowhere else; it cannot commit.
ReportInv ==
    /\ RowsInv
    /\ job \in [Task -> Job]
    /\ \A t \in Task : HasRead(job[t])
    /\ \A report \in stored.reports : IsTrue(report)

LEMMA StillTold ==
    ASSUME RowsKept, NEW x, RunIsThere(x)
    PROVE  RunIsThere(x)' /\ (ShowsOneRun(x) => ShowsOneRun(x)')
BY DEF RowsKept, RunIsThere, SavedStays, ShowsOneRun

LEMMA RowsKeptIsEnough ==
    ASSUME ReportInv, RowsInv', RowsKept, UNCHANGED job
    PROVE  ReportInv'
<1>1. ASSUME NEW t \in Task
      PROVE  HasRead(job[t])'
    <2>1. HasRead(job[t]) /\ stored'.exists = stored.exists
        BY DEF ReportInv, RowsKept
    <2> DEFINE j == job[t]
    <2>2. j' = j
        OBVIOUS
    <2> HIDE DEF j
    <2> QED
        BY <2>1, <2>2, StillTold DEF HasRead
<1>2. ASSUME NEW report \in stored'.reports
      PROVE  IsTrue(report)'
    <2>1. IsTrue(report)
        BY DEF ReportInv, RowsKept
    <2> QED
        BY <2>1, StillTold DEF IsTrue, KeepsFindings, KeptInPlace
<1> QED
    BY <1>1, <1>2 DEF ReportInv

\* Only task t goes on, with what j holds.
LEMMA JobChanges ==
    ASSUME ReportInv, NEW t \in Task, NEW j \in Job, HasRead(j), Becomes(t, j)
    PROVE  ReportInv'
<1>1. job' = [job EXCEPT ![t] = j] /\ UNCHANGED stored
    BY DEF Becomes
<1>2. RowsInv' /\ \A report \in stored'.reports : IsTrue(report)'
    BY <1>1 DEF ReportInv, RowsInv, SavedFirst, IsTrue, RunIsThere, ShowsOneRun, FindingsOf, KeepsFindings,
                KeptInPlace
<1>3. job' \in [Task -> Job]
    BY <1>1 DEF ReportInv
<1>4. ASSUME NEW u \in Task
      PROVE  HasRead(job[u])'
    <2>1. job'[u] \in {j, job[u]}
        BY <1>1 DEF ReportInv
    <2> DEFINE k == job'[u]
    <2>2. HasRead(k)
        BY <2>1 DEF ReportInv
    <2>3. HasRead(k) = HasRead(job[u])'
        BY <1>1 DEF HasRead, RunIsThere, ShowsOneRun, FindingsOf, KeepsFindings, KeptInPlace
    <2> QED
        BY <2>2, <2>3
<1> QED
    BY <1>2, <1>3, <1>4 DEF ReportInv

LEMMA JobIsJob ==
    ASSUME ReportInv, NEW t \in Task
    PROVE  job[t] \in Job /\ HasRead(job[t])
BY DEF ReportInv

LEMMA ItemsAreAnswers ==
    ASSUME NEW rows \in Seq(Ref \cup Nat)
    PROVE  /\ Items(rows) \in Seq(Answer) /\ Len(Items(rows)) = Len(rows)
           /\ \A i \in 1 .. Len(rows) : Items(rows)[i].of = rows[i]
<1>1. \A x \in Ref \cup Nat : Item(x) \in Answer /\ Item(x).of = x
    BY DEF Item, Answer, Finding
<1>2. Len(rows) \in Nat /\ \A i \in 1 .. Len(rows) : rows[i] \in Ref \cup Nat
    OBVIOUS
<1> QED
    BY <1>1, <1>2 DEF Items

LEMMA StartKeeps ==
    ASSUME ReportInv, NEW t \in Task, Start(t)
    PROVE  ReportInv'
<1>1. PICK f \in Format : Becomes(t, [job[t] EXCEPT !.at = "marks", !.format = f])
    BY Zenon DEF Start
<1> DEFINE j == [job[t] EXCEPT !.at = "marks", !.format = f]
<1>2. job[t] \in Job
    BY JobIsJob
<1>3. j \in Job /\ j.at = "marks"
    BY <1>2 DEF Job
<1> HIDE DEF j
<1>4. HasRead(j)
    BY <1>3 DEF HasRead
<1> QED
    BY <1>1, <1>3, <1>4, JobChanges DEF j

LEMMA SameItem ==
    ASSUME NEW S, NEW x \in S, NEW n \in Nat
    PROVE  [i \in 1 .. n |-> x] \in Seq(S)
OBVIOUS

LEMMA DetectionsAreItems ==
    ASSUME RowsInv, NEW marks \in SUBSET Ref
    PROVE  Items(Sublist(stored.detections, Unmarked(marks))) \in Seq(Answer)
<1> DEFINE shown == Unmarked(marks)
<1>1. stored.detections \in Seq(Ref) /\ shown \in SUBSET (1 .. Len(stored.detections))
    BY DEF RowsInv, Rows, Unmarked
<1> HIDE DEF shown
<1>2. Sublist(stored.detections, shown) \in Seq(Ref)
    BY <1>1, SublistProperties
<1>3. Sublist(stored.detections, shown) \in Seq(Ref \cup Nat)
    BY <1>2
<1>4. Items(Sublist(stored.detections, shown)) \in Seq(Answer)
    BY <1>3, ItemsAreAnswers
<1> QED
    BY <1>4 DEF shown

LEMMA FuzzRowsAreItems ==
    ASSUME RowsInv
    PROVE  FlattenSeq([k \in 1 .. Len(stored.fuzz) |->
                          [i \in 1 .. stored.fuzz[k] |-> Item(k)]]) \in Seq(Answer)
<1> DEFINE n == Len(stored.fuzz)
           failures == [k \in 1 .. n |-> [i \in 1 .. stored.fuzz[k] |-> Item(k)]]
<1>1. n \in Nat /\ \A k \in 1 .. n : stored.fuzz[k] \in Nat
    BY DEF RowsInv, Rows
<1>2. \A k \in Nat : Item(k) \in Answer
    BY DEF Item, Answer, Finding
<1>3. \A k \in 1 .. n : [i \in 1 .. stored.fuzz[k] |-> Item(k)] \in Seq(Answer)
    BY <1>1, <1>2, SameItem
<1>4. failures \in [1 .. n -> Seq(Answer)]
    BY <1>3
<1> HIDE DEF n, failures
<1>5. \E f \in [1 .. n -> Seq(Answer)] :
        /\ Appends(f, failures)
        /\ FlattenSeq(failures) = IF n = 0 THEN <<>> ELSE f[n]
    <2>1. n \in Nat
        BY <1>1
    <2> QED
        BY <1>4, <2>1, FlattenProperties, Zenon
<1>6. FlattenSeq(failures) \in Seq(Answer)
    BY <1>1, <1>5
<1> QED
    BY <1>6 DEF n, failures

LEMMA ReadMarksKeeps ==
    ASSUME ReportInv, NEW t \in Task, ReadMarks(t)
    PROVE  ReportInv'
<1> DEFINE j == [job[t] EXCEPT !.at = "detections", !.marks = stored.marks]
<1>1. Becomes(t, j)
    BY DEF ReadMarks
<1>2. job[t] \in Job /\ stored.marks \in SUBSET Ref
    BY JobIsJob DEF ReportInv, RowsInv, Rows
<1>3. j \in Job /\ j.at = "detections"
    BY <1>2 DEF Job
<1> HIDE DEF j
<1>4. HasRead(j)
    BY <1>3 DEF HasRead
<1> QED
    BY <1>1, <1>3, <1>4, JobChanges

LEMMA ReadDetectionsKeeps ==
    ASSUME ReportInv, NEW t \in Task, ReadDetections(t)
    PROVE  ReportInv'
<1> DEFINE shown == Items(Sublist(stored.detections, Unmarked(job[t].marks)))
           j == [job[t] EXCEPT !.at = "fuzz", !.marks = {}, !.raw.slither = shown]
           lists == [job[t].raw EXCEPT !.slither = shown]
<1>1. Becomes(t, j)
    BY DEF ReadDetections
<1>2. job[t] \in Job /\ job[t].marks \in SUBSET Ref
    BY JobIsJob DEF Job
<1>3. shown \in Seq(Answer)
    BY <1>2, DetectionsAreItems DEF ReportInv
<1> HIDE DEF shown
<1>4. lists \in Lists
    BY <1>2, <1>3 DEF Job, Lists
<1>5. j = [job[t] EXCEPT !.at = "fuzz", !.marks = {}, !.raw = lists]
    BY <1>2 DEF Job, Lists
<1> HIDE DEF lists
<1>6. j \in Job /\ j.at = "fuzz"
    BY <1>2, <1>4, <1>5 DEF Job
<1> HIDE DEF j
<1>7. HasRead(j)
    BY <1>6 DEF HasRead
<1> QED
    BY <1>1, <1>6, <1>7, JobChanges

LEMMA ReadFuzzResultsKeeps ==
    ASSUME ReportInv, NEW t \in Task, ReadFuzzResults(t)
    PROVE  ReportInv'
<1> DEFINE failed == FlattenSeq([k \in 1 .. Len(stored.fuzz) |->
                                    [i \in 1 .. stored.fuzz[k] |-> Item(k)]])
           j == [job[t] EXCEPT !.at = "run", !.raw.fuzzing = failed]
           lists == [job[t].raw EXCEPT !.fuzzing = failed]
<1>1. Becomes(t, j)
    BY DEF ReadFuzzResults
<1>2. job[t] \in Job
    BY JobIsJob
<1>3. failed \in Seq(Answer)
    BY FuzzRowsAreItems DEF ReportInv
<1> HIDE DEF failed
<1>4. lists \in Lists
    BY <1>2, <1>3 DEF Job, Lists
<1>5. j = [job[t] EXCEPT !.at = "run", !.raw = lists]
    BY <1>2 DEF Job, Lists
<1> HIDE DEF lists
<1>6. j \in Job /\ j.at = "run"
    BY <1>2, <1>4, <1>5 DEF Job
<1> HIDE DEF j
<1>7. HasRead(j)
    BY <1>6 DEF HasRead
<1> QED
    BY <1>1, <1>6, <1>7, JobChanges

\* The newest run, when it has its verdict, has its findings saved.
LEMMA ReadLatestRunKeeps ==
    ASSUME ReportInv, NEW t \in Task, ReadLatestRun(t)
    PROVE  ReportInv'
<1> DEFINE newest == Len(stored.runs)
           shown == IF newest = 0 THEN job[t].status ELSE stored.runs[newest].status
           j == [job[t] EXCEPT !.at = "llm", !.run = newest, !.status = shown]
<1>1. Becomes(t, j) /\ At(t, "run")
    BY Zenon DEF ReadLatestRun
<1>2. job[t] \in Job
    BY JobIsJob
<1>3. newest \in Nat /\ (newest # 0 => newest \in 1 .. newest)
    BY DEF ReportInv, RowsInv, Rows
<1>4. newest # 0 => stored.runs[newest] \in Run
    BY <1>3, RunIsRun DEF ReportInv
<1>5. shown \in Verdict
    BY <1>2, <1>4 DEF Job, Run, Verdict
<1>6. newest # 0 /\ shown = "settled" => stored.runs[newest].saved
    BY <1>3 DEF ReportInv, RowsInv, SavedFirst
<1> HIDE DEF shown
<1>7. j \in Job /\ j.at = "llm" /\ j.run = newest /\ j.status = shown
    BY <1>2, <1>3, <1>5 DEF Job
<1> HIDE DEF j
<1>8. HasRead(j)
    BY <1>3, <1>6, <1>7 DEF HasRead, RunIsThere
<1> QED
    BY <1>1, <1>7, <1>8, JobChanges

LEMMA ReadFindingsKeeps ==
    ASSUME ReportInv, NEW t \in Task, ReadFindings(t)
    PROVE  ReportInv'
<1> DEFINE chosen == {i \in 1 .. Len(stored.llm) : Belongs(t, stored.llm[i])}
           mine == Sublist(stored.llm, chosen)
           items == Items(mine)
           lists == [job[t].raw EXCEPT !.llm = items]
           j == [job[t] EXCEPT !.at = "polish", !.raw.llm = items]
<1>1. Becomes(t, j) /\ At(t, "llm")
    BY DEF ReadFindings
<1>2. job[t] \in Job /\ HasRead(job[t])
    BY JobIsJob
<1>3. stored.llm \in Seq(Nat) /\ chosen \in SUBSET (1 .. Len(stored.llm))
    BY DEF ReportInv, RowsInv, Rows
<1>4. job[t].run # 0 => \A p \in chosen : stored.llm[p] = job[t].run
    BY DEF Belongs
<1>5. job[t].run # 0 => chosen = FindingsOf(job[t].run)
    BY DEF Belongs, FindingsOf
<1> HIDE DEF chosen
<1>6. /\ mine \in Seq(Nat) /\ Len(mine) = Cardinality(chosen)
      /\ \A k \in 1 .. Len(mine) : \E p \in chosen : mine[k] = stored.llm[p]
    <2>1. /\ mine \in Seq(Nat) /\ Len(mine) = Cardinality(chosen)
          /\ \A k \in 1 .. Cardinality(chosen) :
                InOrder(chosen)[k] \in chosen /\ mine[k] = stored.llm[InOrder(chosen)[k]]
        BY <1>3, SublistProperties
    <2> HIDE DEF mine
    <2> QED
        BY <2>1, Zenon
<1> HIDE DEF mine
<1>7. mine \in Seq(Ref \cup Nat)
    BY <1>6
<1>8. items \in Seq(Answer) /\ Len(items) = Len(mine) /\ \A i \in 1 .. Len(mine) : items[i].of = mine[i]
    BY <1>7, ItemsAreAnswers
<1> HIDE DEF items
<1>9. lists \in Lists /\ lists.llm = items
    BY <1>2, <1>8 DEF Job, Lists
<1>10. j = [job[t] EXCEPT !.at = "polish", !.raw = lists]
    BY <1>2 DEF Job, Lists
<1> HIDE DEF lists
<1>11. /\ j \in Job /\ j.at = "polish" /\ j.raw = lists
       /\ j.run = job[t].run /\ j.status = job[t].status
    BY <1>2, <1>9, <1>10 DEF Job
<1> HIDE DEF j
<1>12. stored.exists => RunIsThere(j)
    BY <1>1, <1>2, <1>11 DEF HasRead, RunIsThere, At
<1>13. ShowsOneRun(j)
    <2> SUFFICES ASSUME j.run # 0
                 PROVE  /\ \A i \in 1 .. Len(items) : items[i].of = j.run
                        /\ Len(items) = Cardinality(FindingsOf(j.run))
        BY <1>9, <1>11 DEF ShowsOneRun
    <2> QED
        BY <1>4, <1>5, <1>6, <1>8, <1>11
<1>14. HasRead(j)
    BY <1>11, <1>12, <1>13 DEF HasRead
<1> QED
    BY <1>1, <1>11, <1>14, JobChanges

LEMMA PolishStepKeeps ==
    ASSUME ReportInv, NEW t \in Task, Polish(t)
    PROVE  ReportInv'
<1> DEFINE Held(s, f, l, odd) ==
               [job[t] EXCEPT !.at = "render", !.polished = [slither |-> s, fuzzing |-> f, llm |-> l], !.odd = odd]
<1>1. PICK s \in Polishings(job[t].raw.slither), f \in Polishings(job[t].raw.fuzzing),
           l \in Polishings(job[t].raw.llm), odd \in BOOLEAN : Becomes(t, Held(s, f, l, odd))
    BY Zenon DEF Polish
<1> DEFINE j == Held(s, f, l, odd)
           lists == [slither |-> s, fuzzing |-> f, llm |-> l]
<1>2. job[t] \in Job /\ HasRead(job[t]) /\ job[t].at = "polish"
    BY JobIsJob DEF Polish, At
<1>3. /\ job[t].raw.slither \in Seq(Answer) /\ job[t].raw.fuzzing \in Seq(Answer)
      /\ job[t].raw.llm \in Seq(Answer)
    BY <1>2 DEF Job, Lists
<1>4. /\ s \in Seq(Answer) /\ KeptInPlace(job[t].raw.slither, s)
      /\ f \in Seq(Answer) /\ KeptInPlace(job[t].raw.fuzzing, f)
      /\ l \in Seq(Answer) /\ KeptInPlace(job[t].raw.llm, l)
    BY <1>3, PolishKeeps
<1>5. lists \in Lists /\ lists.slither = s /\ lists.fuzzing = f /\ lists.llm = l
    BY <1>4 DEF Lists
<1>6. /\ j \in Job /\ j.at = "render" /\ j.raw = job[t].raw /\ j.polished = lists
      /\ j.run = job[t].run /\ j.status = job[t].status
    BY <1>2, <1>5 DEF Job
<1> HIDE DEF j, lists
<1>7. KeepsFindings(j)
    <2> SUFFICES ASSUME NEW c \in {"slither", "fuzzing", "llm"}
                 PROVE  KeptInPlace(j.raw[c], j.polished[c])
        BY DEF KeepsFindings, Category
    <2> QED
        BY <1>4, <1>5, <1>6
<1>8. stored.exists => RunIsThere(j) /\ ShowsOneRun(j)
    BY <1>2, <1>6 DEF HasRead, RunIsThere, ShowsOneRun
<1>9. HasRead(j)
    BY <1>6, <1>7, <1>8 DEF HasRead
<1>10. Becomes(t, j)
    BY <1>1 DEF j
<1> QED
    BY <1>6, <1>9, <1>10, JobChanges

LEMMA RenderKeeps ==
    ASSUME ReportInv, NEW t \in Task, Render(t)
    PROVE  ReportInv'
<1> DEFINE j == [job[t] EXCEPT !.at = "commit"]
<1>1. Becomes(t, j)
    BY DEF Render
<1>2. job[t] \in Job /\ HasRead(job[t]) /\ job[t].at = "render"
    BY JobIsJob DEF Render, At
<1>3. /\ j \in Job /\ j.at = "commit" /\ j.raw = job[t].raw /\ j.polished = job[t].polished
      /\ j.run = job[t].run /\ j.status = job[t].status
    BY <1>2 DEF Job
<1> HIDE DEF j
<1>4. HasRead(j)
    BY <1>2, <1>3 DEF HasRead, RunIsThere, ShowsOneRun, KeepsFindings
<1> QED
    BY <1>1, <1>3, <1>4, JobChanges

LEMMA TaskFailsKeeps ==
    ASSUME ReportInv, NEW t \in Task, TaskFails(t)
    PROVE  ReportInv'
<1> DEFINE j == [NewJob EXCEPT !.at = "failed"]
<1>1. Raw \in Lists
    BY DEF Raw, Lists
<1>2. j \in Job /\ j.at = "failed"
    BY <1>1 DEF NewJob, Job, Format, Verdict
<1>3. HasRead(j)
    BY <1>2 DEF HasRead
<1> HIDE DEF j
<1>4. Becomes(t, j)
    BY DEF TaskFails, j
<1> QED
    BY <1>2, <1>3, <1>4, JobChanges

LEMMA CommitKeeps ==
    ASSUME ReportInv, NEW t \in Task, CommitReport(t)
    PROVE  ReportInv'
<1> DEFINE new == [task |-> t, raw |-> job[t].raw, polished |-> job[t].polished,
                   run |-> job[t].run, status |-> job[t].status]
           j == [NewJob EXCEPT !.at = "done"]
<1>1. /\ stored' = [stored EXCEPT !.reports = @ \cup {new}] /\ job' = [job EXCEPT ![t] = j]
      /\ stored.exists /\ job[t].at = "commit"
    BY DEF CommitReport, At
<1>2. job[t] \in Job /\ HasRead(job[t])
    BY JobIsJob
<1>3. /\ new \in Report /\ new.raw = job[t].raw /\ new.polished = job[t].polished
      /\ new.run = job[t].run /\ new.status = job[t].status
    BY <1>2 DEF Job, Report
<1> HIDE DEF new
<1>4. IsTrue(new)
    BY <1>1, <1>2, <1>3 DEF HasRead, IsTrue, RunIsThere, ShowsOneRun, KeepsFindings
<1>5. /\ stored' \in Rows /\ stored'.exists = stored.exists /\ stored'.runs = stored.runs
      /\ stored'.llm = stored.llm /\ stored'.reports = stored.reports \cup {new}
    BY <1>1, <1>3 DEF ReportInv, RowsInv, Rows
<1>6. RowsInv'
    BY <1>5 DEF ReportInv, RowsInv, SavedFirst
<1>7. \A report \in stored'.reports : IsTrue(report)
    BY <1>4, <1>5 DEF ReportInv
<1>8. ASSUME NEW x
      PROVE  /\ RunIsThere(x) => RunIsThere(x)'
             /\ ShowsOneRun(x) => ShowsOneRun(x)'
             /\ KeepsFindings(x) => KeepsFindings(x)'
    BY <1>5 DEF RunIsThere, ShowsOneRun, FindingsOf, KeepsFindings, KeptInPlace
<1>9. \A report \in stored'.reports : IsTrue(report)'
    BY <1>7, <1>8 DEF IsTrue
<1>10. Raw \in Lists
    BY DEF Raw, Lists
<1>11. j \in Job /\ j.at = "done"
    BY <1>10 DEF NewJob, Job, Format, Verdict
<1> HIDE DEF j
<1>12. job' \in [Task -> Job]
    BY <1>1, <1>11 DEF ReportInv
<1>13. ASSUME NEW u \in Task
       PROVE  HasRead(job[u])'
    <2>1. CASE u = t
        BY <1>1, <1>11, <2>1 DEF ReportInv, HasRead
    <2>2. CASE u # t
        <3>1. PICK k \in Job : k = job[u]
            BY DEF ReportInv
        <3>2. HasRead(k) /\ job'[u] = k
            BY <1>1, <2>2, <3>1 DEF ReportInv
        <3>3. HasRead(k)'
            BY <1>5, <1>8, <3>2 DEF HasRead
        <3> QED
            BY <3>2, <3>3 DEF HasRead, RunIsThere, ShowsOneRun, FindingsOf, KeepsFindings, KeptInPlace
    <2> QED
        BY <2>1, <2>2
<1> QED
    BY <1>6, <1>9, <1>12, <1>13 DEF ReportInv

\* With the rows all reports go, and no task commits any more.
LEMMA DeleteKeeps ==
    ASSUME ReportInv, DeleteProject
    PROVE  ReportInv'
<1>1. stored' = NoRows /\ UNCHANGED job
    BY DEF DeleteProject, Commits
<1>2. /\ stored' \in Rows /\ ~stored'.exists /\ stored'.reports = {} /\ Len(stored'.runs) = 0
    BY <1>1 DEF NoRows, Rows
<1>3. RowsInv'
    BY <1>2 DEF RowsInv, SavedFirst
<1>4. ASSUME NEW t \in Task
      PROVE  HasRead(job[t])'
    BY <1>1, <1>2 DEF ReportInv, HasRead, KeepsFindings, KeptInPlace
<1> QED
    BY <1>1, <1>2, <1>3, <1>4 DEF ReportInv

LEMMA InitReports == ReportInit => ReportInv
<1> SUFFICES ASSUME ReportInit
             PROVE  ReportInv
    OBVIOUS
<1>1. [i \in 1 .. Legacy |-> 0] \in Seq(Nat)
    BY ReportingAssumption, SameItem
<1>2. stored \in Rows /\ stored.reports = {} /\ Len(stored.runs) = 0
    <2> DEFINE old == [i \in 1 .. Legacy |-> 0]
    <2>1. stored = [exists |-> TRUE, runs |-> <<>>, llm |-> old, detections |-> <<>>,
                    fuzz |-> <<>>, marks |-> {}, reports |-> {}]
        BY DEF ReportInit, NoRows
    <2> HIDE DEF old
    <2> QED
        BY <1>1, <2>1 DEF Rows, old
<1>3. RowsInv
    BY <1>2 DEF RowsInv, SavedFirst
<1>4. Raw \in Lists
    BY DEF Raw, Lists
<1>5. NewJob \in Job /\ NewJob.at = "idle"
    BY <1>4 DEF NewJob, Job, Format, Verdict
<1>6. job \in [Task -> Job] /\ \A t \in Task : job[t] = NewJob
    BY <1>5 DEF ReportInit
<1> QED
    BY <1>2, <1>3, <1>5, <1>6 DEF ReportInv, HasRead

LEMMA OtherStepKeeps ==
    ASSUME ReportInv, OtherStep
    PROVE  ReportInv'
<1>1. RowsInv
    BY DEF ReportInv
<1>2. CASE OpenRun
    <2>1. UNCHANGED job
        BY <1>2 DEF OpenRun, Commits
    <2> QED
        BY <1>1, <1>2, <2>1, OpenRunKeeps, RowsKeptIsEnough
<1>3. CASE StoreScan \/ StoreFuzz \/ \E ref \in Ref : MarkFalsePositive(ref)
    <2>1. UNCHANGED job
        BY <1>3 DEF StoreScan, StoreFuzz, MarkFalsePositive, Commits
    <2> QED
        BY <1>1, <1>3, <2>1, OtherRowsKeep, RowsKeptIsEnough
<1>4. CASE DeleteProject
    BY <1>4, DeleteKeeps
<1>5. ASSUME NEW r \in 1 .. Len(stored.runs), SaveFindings(r)
      PROVE  ReportInv'
    <2>1. UNCHANGED job
        BY <1>5, Zenon DEF SaveFindings, Commits
    <2> QED
        BY <1>1, <1>5, <2>1, SaveFindingsKeeps, RowsKeptIsEnough
<1>6. ASSUME NEW r \in 1 .. Len(stored.runs), CloseRun(r) \/ DeclareFailed(r)
      PROVE  ReportInv'
    <2>1. \E v \in {"settled", "failed"} :
            /\ v = "settled" => stored.runs[r].saved
            /\ stored' = [stored EXCEPT !.runs[r].status = v] /\ UNCHANGED job
        <3>1. CASE CloseRun(r)
            BY <3>1 DEF CloseRun, Commits
        <3>2. CASE DeclareFailed(r)
            BY <3>2 DEF DeclareFailed, Commits
        <3> QED
            BY <1>6, <3>1, <3>2
    <2> QED
        BY <1>1, <2>1, VerdictKeeps, RowsKeptIsEnough
<1> QED
    BY <1>2, <1>3, <1>4, <1>5, <1>6 DEF OtherStep

LEMMA ReportInvStep == ReportInv /\ [ReportNext]_reportVars => ReportInv'
<1> SUFFICES ASSUME ReportInv, [ReportNext]_reportVars
             PROVE  ReportInv'
    OBVIOUS
<1>1. CASE OtherStep
    BY <1>1, OtherStepKeeps
<1>2. ASSUME NEW t \in Task, ReportStep(t)
      PROVE  ReportInv'
    BY <1>2, StartKeeps, ReadMarksKeeps, ReadDetectionsKeeps, ReadFuzzResultsKeeps,
       ReadLatestRunKeeps, ReadFindingsKeeps, PolishStepKeeps, RenderKeeps, CommitKeeps, TaskFailsKeeps, Zenon DEF ReportStep
<1>3. CASE UNCHANGED reportVars
    <2>1. UNCHANGED job /\ UNCHANGED stored
        BY <1>3 DEF reportVars
    <2>2. RowsInv' /\ RowsKept
        BY <2>1 DEF ReportInv, RowsInv, SavedFirst, RowsKept, SavedStays, FindingsOf
    <2> QED
        BY <2>1, <2>2, RowsKeptIsEnough
<1> QED
    BY <1>1, <1>2, <1>3 DEF ReportNext, Done

\* Every row, every running report task and every report is as the queries of
\* aggregate_findings, in their order, and polish_single_batch leave it.
THEOREM ReportBookkeeping == ReportSpec => []ReportInv
<1>1. ReportInit => ReportInv
    BY InitReports
<1> QED
    BY <1>1, ReportInvStep, PTL DEF ReportSpec

\* However the audits commit between the queries of aggregate_findings, a report
\* that names a run shows the findings of that run only, and all of them when it
\* shows the verdict of the run.
THEOREM ReportsTellOneRun == ReportSpec => []ReportTellsOneRun
<1>1. ReportInv => ReportTellsOneRun
    <2> SUFFICES ASSUME ReportInv, NEW report \in stored.reports, report.run # 0
                 PROVE  /\ \A x \in ToSet(report.raw.llm) : x.of = report.run
                        /\ report.status = "settled" =>
                             Len(report.raw.llm) = Cardinality(FindingsOf(report.run))
        BY DEF ReportTellsOneRun
    <2>1. ShowsOneRun(report)
        BY DEF ReportInv, IsTrue
    <2>2. report \in Report
        BY DEF ReportInv, RowsInv, Rows
    <2>3. report.raw.llm \in Seq(Answer)
        BY <2>2 DEF Report, Lists
    <2>4. ToSet(report.raw.llm) = {report.raw.llm[i] : i \in 1 .. Len(report.raw.llm)}
        BY <2>3 DEF ToSet
    <2> QED
        BY <2>1, <2>4 DEF ShowsOneRun
<1> QED
    BY <1>1, ReportBookkeeping, PTL

\* Whatever the model answers to whichever batch, and whether or not it answers,
\* a report has every finding that was aggregated, at its place, or the answer to
\* its batch there.
THEOREM PolishLosesNothing == ReportSpec => []PolishKeepsEveryFinding
<1>1. ReportInv => PolishKeepsEveryFinding
    BY DEF ReportInv, IsTrue, KeepsFindings, PolishKeepsEveryFinding
<1> QED
    BY <1>1, ReportBookkeeping, PTL
=============================================================================
