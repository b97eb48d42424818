------------------------------ MODULE MCAccounts ------------------------------
(* Instances of Accounts for TLC *)
EXTENDS Accounts, TLC

CONSTANTS ada, lower, mixed

SeededAda == <<ada, mixed>> :> "admin"
Symmetries == Permutations(Passwords) \cup Permutations(Clients)
=============================================================================
