--------------------------- MODULE MCPostgresStore ---------------------------
(* A small instance of PostgresStore: the sessions are interchangeable.      *)
EXTENDS PostgresStore, TLC

SessionSymmetry == Permutations(Session)
=============================================================================
