-------------------------- MODULE MCKnowledgeBase --------------------------
(***************************************************************************)
(* Two entries and two syncs; an embedding provider behind an API, a local *)
(* model with vectors of another length, and a provider whose api cannot   *)
(* embed.                                                                  *)
(***************************************************************************)
EXTENDS KnowledgeBase, TLC

CONSTANTS s1, s2, shipped, upstream, remote, inprocess, chatonly

MCDimensionOf == (remote :> 2) @@ (inprocess :> 1) @@ (chatonly :> 0)

Syncs == Permutations(Task)
=============================================================================
