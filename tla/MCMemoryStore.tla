---------------------------- MODULE MCMemoryStore ----------------------------
(* A small instance of MemoryStore: two ids compete for one (handler, key);  *)
(* ids are interchangeable.                                                  *)
EXTENDS MemoryStore, TLC

IdSymmetry == Permutations(JobId)
=============================================================================
