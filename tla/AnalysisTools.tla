--------------------------- MODULE AnalysisTools ---------------------------
(***************************************************************************)
(* The two tool-driven tasks on one project: run_slither and run_fuzzer in *)
(* two worker processes, and the cleanup, which may take the directory     *)
(* away from both at any time.                                             *)
(***************************************************************************)
EXTENDS SlitherRun, FuzzRun

vars == <<onDisk, slitherVars, fuzzVars>>

Init == DirectoryInit /\ SlitherInit /\ FuzzInit

Cleanup == RemoveDirectory /\ UNCHANGED <<slitherVars, fuzzVars>>

\* Both tasks have ended, well or badly.
Over == scan \in {"done", "failed"} /\ fuzz \in {"done", "failed"} /\ UNCHANGED vars

Next ==
    \/ SlitherStep /\ UNCHANGED fuzzVars
    \/ FuzzStep /\ UNCHANGED slitherVars
    \/ Cleanup
    \/ Over

Spec == Init /\ [][Next]_vars
=============================================================================
