-------------------------- MODULE MCProjectLifecycle --------------------------
(* A project of up to two contracts, with requests for a full audit, which the *)
(* dispatcher guards, and for an incremental one, which it does not.           *)
EXTENDS ProjectLifecycle, TLC

MCKind == {"llm_audit", "incremental_audit"}
MCGuarded == {"llm_audit"}

Symmetry == Permutations(SolFile) \cup Permutations(Request) \cup Permutations(Task)
=============================================================================
