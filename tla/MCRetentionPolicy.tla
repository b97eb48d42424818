-------------------------- MODULE MCRetentionPolicy --------------------------
(* Instances of RetentionPolicy for TLC *)
EXTENDS RetentionPolicy, TLC

RunSymmetry == Permutations(Runs)
OneToThree == 1..3
=============================================================================
