---------------------------- MODULE MCPollingLoop ----------------------------
(* A small instance of PollingLoop: two lives, and as many chains per loop.  *)
EXTENDS PollingLoop
=============================================================================
