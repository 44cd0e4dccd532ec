-------------------------- MODULE MCNodeLifecycle --------------------------
(* The instance of NodeLifecycle that TLC explores. *)
EXTENDS NodeLifecycle, TLC

\* Workers and tags are interchangeable; no property is a liveness property.
Symmetry == Permutations(Workers) \cup Permutations(Tags)

============================================================================
