------------------------------ MODULE MCPools ------------------------------
(* Pools for TLC: settings, roles and requests are interchangeable. *)
EXTENDS Pools, TLC

Symmetry == Permutations(Settings) \cup Permutations(Roles) \cup Permutations(Reqs)
=============================================================================
