----------------------------- MODULE MCEditorial -----------------------------
(* Instances of Editorial for TLC: the values of its constants.             *)
EXTENDS Editorial, TLC

RequestSymmetry == Permutations(Requests)
OneToThree == 1..3
OneToFour == 1..4
=============================================================================
