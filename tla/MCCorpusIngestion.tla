-------------------------- MODULE MCCorpusIngestion --------------------------
(* CorpusIngestion for TLC: the calls are symmetric; the two adopted         *)
(* documents have ids that differ in a replaced character only, so that      *)
(* their objects have the same key.                                          *)
EXTENDS CorpusIngestion, TLC

SharedKey == CHOOSE k \in Keys : TRUE
MCAdoptionKey == [d \in Docs |-> SharedKey]

CallSymmetry == Permutations(Calls)
=============================================================================
