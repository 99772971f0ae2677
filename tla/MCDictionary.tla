----------------------------- MODULE MCDictionary -----------------------------
(* Dictionary for TLC: entries, terms and administrators are symmetric, and  *)
(* none of the properties checked with this module is a liveness property.   *)
EXTENDS Dictionary, TLC

Symmetry ==
    Permutations(Ids) \union Permutations(Terms) \union Permutations(Admins)
=============================================================================
