---------------------------- MODULE MCAuditTask ----------------------------
(***************************************************************************)
(* Small projects for AuditTask: f1 holds two units with keywords (more    *)
(* than the parallel threshold); f2 one with a keyword, an overload of it  *)
(* on the same line without, and another one without.                      *)
(***************************************************************************)
EXTENDS AuditTask, TLC

CONSTANTS f1, f2, u1, u2, u3, u4, u5, p1, p2, p3

MCFileOf == [u \in Unit |-> IF u \in {u1, u2} THEN f1 ELSE f2]

MCKeyworded == {u1, u2, u3}

MCKeyOf == [u \in Unit |-> IF u = u4 THEN u3 ELSE u]

\* A diff names f1 by two paths, and a file that is not part of the project.
MCResolve == (p1 :> f1) @@ (p2 :> f1) @@ (p3 :> NoFile)
=============================================================================
