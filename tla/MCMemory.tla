------------------------------ MODULE MCMemory ------------------------------
(* Instances of the memory worker for TLC.                                 *)
EXTENDS MemoryInvariant, TLC

Symm == Permutations(Syncable \ Result) \cup Permutations(Event \ Syncable)
          \cup Permutations(Worker)

=============================================================================
