-------------------------- MODULE MCPolicyRegistry --------------------------
(* Symmetry for the runs of PolicyRegistry. *)
EXTENDS PolicyRegistry, TLC

Symmetry == Permutations(Procs) \cup Permutations(Names) \cup Permutations(Convs)
              \cup Permutations(Statuses)
=============================================================================
