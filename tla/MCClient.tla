------------------------------ MODULE MCClient ------------------------------
(* Instances of Client for TLC. *)
EXTENDS Client, TLC

Symmetric == Permutations(Calls \ Downloads) \cup Permutations(Inner)
=============================================================================
