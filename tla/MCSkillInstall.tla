--------------------------- MODULE MCSkillInstall ---------------------------
(* Symmetry for the runs of SkillInstall. *)
EXTENDS SkillInstall, TLC

Symmetry == Permutations(Procs) \cup Permutations(Versions)
=============================================================================
