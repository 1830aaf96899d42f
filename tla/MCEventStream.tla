---------------------------- MODULE MCEventStream ----------------------------
(* A page with the audit results and the project detail; for the question that *)
(* needs no failure, also with the fuzz results, which the fallback leaves out.*)
EXTENDS EventStream

TwoTopics == {"audit_results", "status"}

ThreeTopics == TwoTopics \cup {"fuzz_results"}
=============================================================================
