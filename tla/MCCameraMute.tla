---------------------------- MODULE MCCameraMute ----------------------------
(***************************************************************************)
(* CameraMute for TLC: one camera path, and budgets of outside events.     *)
(***************************************************************************)
EXTENDS CameraMute

Events(switch, sense, reset) ==
  [k \in Kinds |-> IF k = "switch" THEN switch
                   ELSE IF k = "sense" THEN sense ELSE reset]

BudgetAll  == Events(2, 1, 1)
=============================================================================
