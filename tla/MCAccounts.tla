------------------------------ MODULE MCAccounts ------------------------------
(* A small instance of Accounts: the configured admin and one other person.   *)
EXTENDS Accounts, TLC

Symmetry == Permutations(Requests)
=============================================================================
