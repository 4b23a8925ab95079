--------------------------- MODULE MCCaptureWatch ---------------------------
(***************************************************************************)
(* CaptureWatch for TLC: budgets of outside events.                        *)
(***************************************************************************)
EXTENDS CaptureWatch

BudgetWatch == [request |-> 2, suspend |-> 1, fault |-> 1]
=============================================================================
