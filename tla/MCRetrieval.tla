---------------------------- MODULE MCRetrieval ----------------------------
(* Small instances of Retrieval.                                           *)
EXTENDS Retrieval, TLC

ReaderSymmetry == Permutations(Readers)
=============================================================================
