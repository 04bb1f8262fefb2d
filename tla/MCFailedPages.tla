---------------------------- MODULE MCFailedPages ----------------------------
(* A small instance of FailedPages.  The order of ids matters, so there is   *)
(* no symmetry, and one key makes the rows fail one after the other.         *)
EXTENDS FailedPages
=============================================================================
