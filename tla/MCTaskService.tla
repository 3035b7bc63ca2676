--------------------------- MODULE MCTaskService ---------------------------
(* Instances of the task service for TLC.                                  *)
EXTENDS TaskInvariant, TLC

Symm == Permutations(Task) \cup Permutations(Agent) \cup Permutations(Run)
          \cup Permutations(Handoff) \cup Permutations(Proc)
          \cup Permutations(Job)

(* What a create may carry: nothing, any parent, one dependency at most.   *)
NoParent == {None}
AnyParent == Task \cup {None}
NoDeps == {{}}
OneDep == {ds \in SUBSET Task : Cardinality(ds) <= 1}

=============================================================================
