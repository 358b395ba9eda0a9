---------------------------- MODULE MCLegacySDK ----------------------------
(* Instances of LegacySDK for TLC. *)
EXTENDS LegacySDK, TLC

Symmetric == Permutations(Requests) \cup Permutations(Grants)
=============================================================================
