---------------------------- MODULE MCPollWorkers ----------------------------
(* Small instances of PollWorkers.  Workers are interchangeable where no     *)
(* liveness is checked.                                                      *)
EXTENDS PollWorkers, TLC

WorkerSymmetry == Permutations(Worker)
=============================================================================
