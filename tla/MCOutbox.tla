------------------------------ MODULE MCOutbox ------------------------------
(* Outbox on small instances *)
EXTENDS Outbox, TLC

ProcessSymmetry == Permutations(Publishers) \cup Permutations(Consumers)
=============================================================================
