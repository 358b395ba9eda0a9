----------------------------- MODULE MCZohoAuth -----------------------------
(* Instances of ZohoAuth for TLC. *)
EXTENDS ZohoAuth, TLC

Symmetric == Permutations(Callers)
=============================================================================
