----------------------------- MODULE MCHookBudget -----------------------------
(* A small instance of HookBudget.                                           *)
EXTENDS HookBudget
=============================================================================
