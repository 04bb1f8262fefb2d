---------------------------- MODULE MCWakeDelivery ----------------------------
(* A small instance of WakeDelivery.  Liveness is checked, so the hooks are   *)
(* not made symmetric.                                                        *)
EXTENDS WakeDelivery
=============================================================================
