----------------------------- MODULE MCAccounts -----------------------------
(* Accounts with two accounts, two addresses and two subjects.             *)
EXTENDS Accounts, TLC

Symmetry == Permutations(Accounts) \cup Permutations(Subjects)

=============================================================================
