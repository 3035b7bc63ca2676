----------------------------- MODULE MCProjects -----------------------------
(* Instances of the project lifecycle for TLC.                             *)
EXTENDS ProjectSafety

CONSTANTS p1, t1, t2

OneProject == {p1}
Tasks == [p \in {p1} |-> {t1, t2}]
Roots == [p \in {p1} |-> t1]
=============================================================================
