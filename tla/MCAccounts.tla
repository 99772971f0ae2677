------------------------------- MODULE MCAccounts -------------------------------
(* Two accounts and three requests; no request is told from another. *)
EXTENDS Accounts, TLC

Symmetry == Permutations(Requests)
=============================================================================
