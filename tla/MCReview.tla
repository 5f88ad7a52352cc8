------------------------------ MODULE MCReview ------------------------------
(* Instances of Review for TLC. *)
EXTENDS Review, TLC

Symmetry == Permutations(Connections) \cup Permutations(Nodes)
=============================================================================
