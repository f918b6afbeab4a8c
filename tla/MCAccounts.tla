----------------------------- MODULE MCAccounts -----------------------------
(* Instances of Accounts for TLC. *)
EXTENDS Accounts, TLC

Alike == Permutations(Tasks) \union Permutations(Browsers) \union Permutations(Users)
           \union Permutations(Passwords) \union Permutations(Attempts)
=============================================================================
