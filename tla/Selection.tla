----------------------------- MODULE Selection -----------------------------
(***************************************************************************)
(* Lists made from parts of a list, as the comprehensions with a condition *)
(* and the calls of sorted() in the code make them: the elements at some   *)
(* positions, in their order.                                              *)
(***************************************************************************)
EXTENDS Naturals, Sequences, FiniteSets, SequencesExt

Rising(s) == \A i, j \in DOMAIN s : i < j => s[i] < s[j]

\* The numbers in P, the smallest first.
InOrder(P) == CHOOSE s \in [1 .. Cardinality(P) -> P] : Rising(s)

\* The elements of S, those before others first; <<a, b>> \in before says that a
\* is before b.
Sorted(S, before) ==
    CHOOSE s \in [1 .. Cardinality(S) -> S] :
        \A i, j \in 1 .. Cardinality(S) : i < j => s[i] # s[j] /\ <<s[j], s[i]>> \notin before

\* The elements of s at the positions in P.
Sublist(s, P) == [k \in 1 .. Cardinality(P) |-> s[InOrder(P)[k]]]
=============================================================================
