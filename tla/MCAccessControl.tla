-------------------------- MODULE MCAccessControl --------------------------
(* AccessControl for TLC: two clients and two replicas, which are alike. *)
EXTENDS AccessControl, TLC

Symmetry == Permutations(Clients) \cup Permutations(Replicas)

============================================================================
