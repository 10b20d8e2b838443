---------------------------- MODULE MCBSPExecutor ----------------------------
(***************************************************************************)
(* Small instances of BSPExecutor for TLC.                                 *)
(***************************************************************************)
EXTENDS BSPExecutor

BudgetSet == {-1, 0, 1, 2}

=============================================================================
