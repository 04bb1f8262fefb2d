------------------------------ MODULE WebhookRow ------------------------------
(***************************************************************************)
(* What the two models of the webhook execution path have in common: the   *)
(* row that hooks wake, and the bounds on what clients ask and what fails. *)
(***************************************************************************)
EXTENDS JobRow, FiniteSets

CONSTANTS
    Kinds,                                  \* kinds of the row
    MaxRequests, MaxFaults, MaxVersion      \* bounds of the model

VARIABLES
    job,        \* the row, None before its insert
    requests,   \* requests of clients so far, and what else is bounded with them
    faults      \* crashes, failed calls and lost answers so far

Exists == job # None
Active == Exists /\ IsActive(job)

Request == requests < MaxRequests /\ requests' = requests + 1
Fault == faults < MaxFaults /\ faults' = faults + 1
=============================================================================
