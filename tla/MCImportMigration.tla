-------------------------- MODULE MCImportMigration --------------------------
(* Instances of ImportMigration for TLC *)
EXTENDS ImportMigration, TLC

Symmetries == Permutations(Slugs) \cup Permutations(Workers)
=============================================================================
