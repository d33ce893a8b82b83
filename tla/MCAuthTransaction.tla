-------------------------- MODULE MCAuthTransaction --------------------------
(* Symmetry for the safety run of AuthTransaction. *)
EXTENDS AuthTransaction, TLC

Symmetry == Permutations(Procs) \cup Permutations(Names)
=============================================================================
