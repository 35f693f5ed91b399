---------------------------- MODULE MCConsistency ----------------------------
(***************************************************************************)
(* The chain of MCIndexer, with a check of its poll beside the indexer.    *)
(***************************************************************************)
EXTENDS MCIndexer, Consistency
=============================================================================
