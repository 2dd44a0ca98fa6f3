------------------------------ MODULE MCBudget ------------------------------
(* Small instances of the budget for TLC. *)
EXTENDS BudgetProperties

MCGrants == {-1, 1}
OpenOnly == {FALSE}
BothWays == {TRUE, FALSE}
=============================================================================
