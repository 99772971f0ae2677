---------------------------- MODULE MCModelConfig ----------------------------
(* ModelConfig for TLC: configurations and administrators are symmetric, and *)
(* none of the properties checked with this module is a liveness property.   *)
EXTENDS ModelConfig, TLC

Symmetry == Permutations(Configs) \union Permutations(Admins)
=============================================================================
