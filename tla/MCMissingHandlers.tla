-------------------------- MODULE MCMissingHandlers --------------------------
(* A small instance of MissingHandlers: rows, their keys and replicas are    *)
(* interchangeable.                                                          *)
EXTENDS MissingHandlers, TLC

MissingSymmetry == Permutations(Replica) \cup Permutations(JobId) \cup Permutations(Key)
=============================================================================
