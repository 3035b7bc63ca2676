----------------------------- MODULE MCProfiles -----------------------------
(* Two processes of the command line on one machine.                       *)
EXTENDS ProfilesSafety, TLC

Symm == Permutations(Proc) \cup Permutations(Token)

=============================================================================
