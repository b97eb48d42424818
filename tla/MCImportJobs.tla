---------------------------- MODULE MCImportJobs ----------------------------
(* ImportJobs on small instances *)
EXTENDS ImportJobs, TLC

Symmetries == Permutations(Jobs) \cup Permutations(Slugs) \cup Permutations(Workers)
=============================================================================
