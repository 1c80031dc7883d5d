----------------------------- MODULE MCAccounts -----------------------------
(* Two sessions on the account of the administrator and the row with the   *)
(* empty name, which a User nobody read leaves behind.                     *)
EXTENDS Accounts, TLC

Sessions == Permutations(Session)
=============================================================================
