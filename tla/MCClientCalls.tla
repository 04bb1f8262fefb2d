---------------------------- MODULE MCClientCalls ----------------------------
(* A small instance of ClientCalls: the clients are interchangeable.         *)
EXTENDS ClientCalls, TLC

ClientSymmetry == Permutations(Client)
=============================================================================
