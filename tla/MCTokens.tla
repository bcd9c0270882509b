----------------------------- MODULE MCTokens ------------------------------
(* Small instances of Tokens for TLC. *)
EXTENDS Tokens, TLC

Symmetry ==
  Permutations(Accounts) \cup Permutations(Logins) \cup Permutations(Refreshes)
=============================================================================
