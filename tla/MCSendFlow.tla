----------------------------- MODULE MCSendFlow -----------------------------
(* Symmetry for the safety runs of SendFlow. *)
EXTENDS SendFlow, TLC

Symmetry == Permutations(Sends) \cup Permutations(Texts)
=============================================================================
