---------------------------- MODULE MCArticleReads ----------------------------
(* Instances of ArticleReads for TLC: the values of its constants.          *)
EXTENDS ArticleReads, TLC

OneToFour == 1..4
=============================================================================
