-------------------------- MODULE MCArticleMigration --------------------------
(* Instances of ArticleMigration for TLC *)
EXTENDS ArticleMigration, TLC

OneToFour == 1..4
=============================================================================
