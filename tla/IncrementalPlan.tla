--------------------------- MODULE IncrementalPlan ---------------------------
(***************************************************************************)
(* Which functions of a changed file an incremental audit looks at: the    *)
(* diff is parsed line by line, its hunks become line ranges, neighbouring *)
(* ranges are merged, and the units of the new source that meet a range    *)
(* are selected, or all of them when none does.                            *)
(*                                                                         *)
(* The edit is chosen once the units are known: lines that were added and  *)
(* gaps between lines where others were removed, shown by git with Context *)
(* unchanged lines around them, among the sections of other files. An      *)
(* added line that begins with "++ " is a lookalike: with the plus of the  *)
(* diff before it, the parser takes it for the header of another file.     *)
(***************************************************************************)
EXTENDS SolidityUnits

CONSTANTS
    Contexts,    \* values of git diff -U
    Sections,    \* orders in which the files of the diff appear
    MaxEdited    \* bound: lines added and gaps with removals

ASSUME IncrementalPlanAssumption ==
    /\ Contexts \subseteq Nat /\ MaxEdited \in Nat
    /\ Sections \subseteq Seq({"mine", "other", "deleted"})
    /\ \A order \in Sections : "mine" \in ToSet(order)

VARIABLES
    edit,      \* the added lines, the lookalikes among them, the gaps with removals
               \* and the context
    diff,      \* the lines of the diff still to be parsed
    path,      \* path in parse_unified_diff
    changed,   \* its result, per path
    stage,     \* "scan", "parse", "merge", "plan" or "done"
    ranges,    \* in merge_ranges: the sorted ranges still to be merged
    merged,    \* merged ranges of the file
    plan       \* FileChange: changed, untouched and whole_file

diffVars == <<edit, diff, path, changed, stage, ranges, merged, plan>>
planVars == <<scanVars, diffVars>>

-----------------------------------------------------------------------------
(* The diff *)

\* None, for which git writes /dev/null.
NoPath == "dev_null"

\* What follows the pluses of a lookalike: no path of the project.
LineText == "text"

\* The unchanged, added or removed lines of a hunk.
BodyLine == [what |-> "body"]

FileLine(p) == [what |-> "file", path |-> p]

Hunk(old, start, new) == [what |-> "hunk", old |-> old, start |-> start, new |-> new]

\* A change of another file at its first line; a deleted file.
OtherSection == <<FileLine("other"), Hunk(1, 1, 1), BodyLine>>
DeletedSection == <<FileLine(NoPath), Hunk(3, 0, 0), BodyLine>>

\* The lines of the new file that the hunks show: a removal in gap g is between
\* the lines g and g + 1.
Shown(e) == {l \in 1 .. Lines :
               \/ \E a \in e.added : l <= a + e.context /\ a <= l + e.context
               \/ \E g \in e.removed : l <= g + e.context /\ g < l + e.context}

\* Without context a removal away from added lines has a hunk that shows nothing.
BareGaps(e) == IF e.context > 0 THEN {}
               ELSE {g \in e.removed : g \notin e.added /\ g + 1 \notin e.added}

OldLines(e, first, last) ==
    Cardinality(first .. last \ e.added) + Cardinality(e.removed \cap (first - 1) .. last)

HunksOf(e) ==
    LET runs == {r \in (1 .. Lines) \X (1 .. Lines) :
                   /\ r[1] <= r[2] /\ r[1] .. r[2] \subseteq Shown(e)
                   /\ r[1] - 1 \notin Shown(e) /\ r[2] + 1 \notin Shown(e)}
        all == {Hunk(OldLines(e, r[1], r[2]), r[1], r[2] - r[1] + 1) : r \in runs}
               \cup {Hunk(1, g, 0) : g \in BareGaps(e)}
    IN  Sorted(all, {p \in all \X all : p[1].start < p[2].start})

\* The lines of a hunk, of which only a lookalike means something to the parser.
BodyOf(e, h) == IF e.lookalike \cap h.start .. (h.start + h.new - 1) = {} THEN BodyLine
                ELSE FileLine(LineText)

MySection(e) == <<FileLine("mine")>> \o FlattenSeq([i \in DOMAIN HunksOf(e) |->
                                            <<HunksOf(e)[i], BodyOf(e, HunksOf(e)[i])>>])

DiffOf(e, order) ==
    FlattenSeq([i \in DOMAIN order |-> CASE order[i] = "mine" -> MySection(e)
                                         [] order[i] = "other" -> OtherSection
                                         [] order[i] = "deleted" -> DeletedSection])

-----------------------------------------------------------------------------
NoEdit == [added |-> {}, lookalike |-> {}, removed |-> {}, context |-> 0]
NoPlan == [changed |-> {}, untouched |-> {}, whole |-> FALSE]

PlanInit ==
    /\ ScanInit
    /\ edit = NoEdit /\ diff = <<>>
    /\ path = NoPath
    /\ changed = [p \in {} |-> <<>>]
    /\ stage = "scan" /\ ranges = <<>> /\ merged = <<>> /\ plan = NoPlan

Scan == ScanStep /\ UNCHANGED diffVars

\* Somebody changes the file and hands git's diff to the task.
Submit ==
    /\ scan = "done" /\ stage = "scan"
    /\ \E added \in SUBSET (1 .. Lines), removed \in SUBSET (0 .. Lines),
          context \in Contexts, order \in Sections :
        \E lookalike \in SUBSET added :
          /\ Cardinality(added) + Cardinality(removed) \in 1 .. MaxEdited
          /\ edit' = [added |-> added, lookalike |-> lookalike,
                      removed |-> removed, context |-> context]
          /\ diff' = DiffOf(edit', order)
    /\ stage' = "parse"
    /\ UNCHANGED <<scanVars, path, changed, ranges, merged, plan>>

-----------------------------------------------------------------------------
(* parse_unified_diff *)

\* Mutant: a deleted file leaves the path of the file before it.
KeepsPath(p) == IF p = NoPath THEN path ELSE p

\* A deleted file has no path; its hunks are passed over.
PathOf(p) == p

ParseFile ==
    /\ stage = "parse" /\ diff # <<>> /\ Head(diff).what = "file"
    /\ path' = PathOf(Head(diff).path)
    /\ changed' = IF path' \in DOMAIN changed \cup {NoPath} THEN changed
                  ELSE [p \in DOMAIN changed \cup {path'} |->
                          IF p = path' THEN <<>> ELSE changed[p]]
    /\ diff' = Tail(diff)
    /\ UNCHANGED <<scanVars, edit, stage, ranges, merged, plan>>

\* Mutant: hunks that only remove are left out.
NoAnchor(h) == IF h.new > 0 THEN <<[first |-> h.start, last |-> h.start + h.new - 1]>> ELSE <<>>

\* The range of a hunk: the lines it shows, or where it removed some.
RangeOf(h) ==
    IF h.new > 0 THEN <<[first |-> h.start, last |-> h.start + h.new - 1]>>
    ELSE IF h.old > 0 THEN LET anchor == IF h.start = 0 THEN 1 ELSE h.start
                           IN  <<[first |-> anchor, last |-> anchor]>>
    ELSE <<>>

ParseHunk ==
    /\ stage = "parse" /\ diff # <<>> /\ Head(diff).what = "hunk"
    /\ changed' = IF path = NoPath THEN changed
                  ELSE [changed EXCEPT ![path] = @ \o RangeOf(Head(diff))]
    /\ diff' = Tail(diff)
    /\ UNCHANGED <<scanVars, edit, path, stage, ranges, merged, plan>>

\* A line that begins with neither "+++ " nor "@@".
PassLine ==
    /\ stage = "parse" /\ diff # <<>> /\ Head(diff).what = "body"
    /\ diff' = Tail(diff)
    /\ UNCHANGED <<scanVars, edit, path, changed, stage, ranges, merged, plan>>

-----------------------------------------------------------------------------
(* merge_ranges and build_plan *)

\* Sorted by (start, end).
Earlier(a, b) == a.first < b.first \/ (a.first = b.first /\ a.last < b.last)

Ordered(rs) ==
    LET places == DOMAIN rs
        order == Sorted(places, {p \in places \X places : Earlier(rs[p[1]], rs[p[2]])})
    IN  [k \in places |-> rs[order[k]]]

EndParse ==
    /\ stage = "parse" /\ diff = <<>>
    /\ ranges' = Ordered(changed["mine"])
    /\ stage' = "merge"
    /\ UNCHANGED <<scanVars, edit, diff, path, changed, merged, plan>>

\* A range that overlaps the last one, or begins right after it, extends it.
Extended(last, r) ==
    [first |-> last.first, last |-> IF last.last > r.last THEN last.last ELSE r.last]

WithRange(rs, r) ==
    IF rs # <<>> /\ r.first <= Last(rs).last + 1
    THEN [rs EXCEPT ![Len(rs)] = Extended(Last(rs), r)]
    ELSE Append(rs, r)

MergeRange ==
    /\ stage = "merge" /\ ranges # <<>>
    /\ merged' = WithRange(merged, Head(ranges))
    /\ ranges' = Tail(ranges)
    /\ UNCHANGED <<scanVars, edit, diff, path, changed, stage, plan>>

EndMerge ==
    /\ stage = "merge" /\ ranges = <<>>
    /\ stage' = "plan"
    /\ UNCHANGED <<scanVars, edit, diff, path, changed, ranges, merged, plan>>

Overlaps(r, u) == r.first <= u.last /\ u.first <= r.last

Touched == {i \in DOMAIN units : \E n \in DOMAIN merged : Overlaps(merged[n], units[i])}

\* Mutant: nothing is audited when the change is outside all functions.
OnlyTouched == [changed |-> Touched, untouched |-> DOMAIN units \ Touched, whole |-> FALSE]

\* Without a range there is no FileChange.
Planned ==
    IF merged = <<>> THEN NoPlan
    ELSE IF Touched = {} /\ units # <<>>
    THEN [changed |-> DOMAIN units, untouched |-> {}, whole |-> TRUE]
    ELSE [changed |-> Touched, untouched |-> DOMAIN units \ Touched, whole |-> FALSE]

BuildPlan ==
    /\ stage = "plan"
    /\ plan' = Planned
    /\ stage' = "done"
    /\ UNCHANGED <<scanVars, edit, diff, path, changed, ranges, merged>>

PlanStep == \/ Submit \/ ParseFile \/ ParseHunk \/ PassLine \/ EndParse
            \/ MergeRange \/ EndMerge \/ BuildPlan

PlanNext == Scan \/ PlanStep

PlanSpec == PlanInit /\ [][PlanNext]_planVars

-----------------------------------------------------------------------------
(* Properties *)

\* What an edit does to the unit on the lines from first to last: a line added
\* there, or one removed between two of its lines.
Edits(e, u) == \/ e.added \cap u.first .. u.last # {}
               \/ e.removed \cap u.first .. (u.last - 1) # {}

\* Every function that was edited is audited, however much context the diff shows
\* and whatever other files it contains (run_incremental_audit). The exception is
\* a diff with a lookalike, behind which the hunks are counted to another file.
EditedIsSelected ==
    stage = "done" /\ edit.lookalike = {} =>
        \A i \in DOMAIN units : Edits(edit, units[i]) => i \in plan.changed

\* Where an edit without context leaves its mark: on the added lines, and on the
\* line before a removal, or on the first one.
Marks == edit.added \cup {IF g = 0 THEN 1 ELSE g : g \in BareGaps(edit)}

\* A diff without context that leaves no mark on a function has the whole file
\* audited, any other only the functions with a mark (build_plan: "A diff that
\* touches no function still changes the contract's behaviour surface"), with the
\* same exception.
OutsideMeansAll ==
    stage = "done" /\ edit.lookalike = {} /\ edit.context = 0 =>
        LET marked == {i \in DOMAIN units : Marks \cap units[i].first .. units[i].last # {}}
        IN  plan.changed = IF marked = {} THEN DOMAIN units ELSE marked
=============================================================================
