---------------------------- MODULE MCTokenBudget ----------------------------
(* Two worker processes whose tasks have two or three threads. *)
EXTENDS TokenBudget, TLC

Symmetry == Permutations(Process) \cup Permutations(Thread)
=============================================================================
