----------------------------- MODULE MCAccounts -----------------------------
(* Accounts for TLC: names and passwords are interchangeable.              *)
EXTENDS Accounts, TLC

Symmetry == Permutations(Names) \cup Permutations(Passwords)
=============================================================================
