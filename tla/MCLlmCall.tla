----------------------------- MODULE MCLlmCall -----------------------------
(***************************************************************************)
(* Two contents that load, with different limits and providers, and one    *)
(* that does not, for instance because it is half written.                 *)
(***************************************************************************)
EXTENDS LlmCall, TLC

CONSTANTS narrow, wide, broken, t1, t2

MCLimitOf == (narrow :> 1) @@ (wide :> 2)

MCProvidersOf == (narrow :> <<"first">>) @@ (wide :> <<"second", "default">>)

Threads == Permutations(Thread)
=============================================================================
