------------------------------ MODULE MCPlugins ------------------------------
(* Instances of Plugins for TLC. *)
EXTENDS Plugins, TLC

Symmetric == Permutations(Names) \cup Permutations(Uses)
             \cup Permutations(Removals) \cup Permutations(Runs)
=============================================================================
