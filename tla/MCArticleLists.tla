---------------------------- MODULE MCArticleLists ----------------------------
(* Instances of ArticleLists for TLC *)
EXTENDS ArticleLists, TLC

Symmetries == Permutations(Mine) \cup Permutations(Articles \ Mine)
=============================================================================
