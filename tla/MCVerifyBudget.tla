--------------------------- MODULE MCVerifyBudget ---------------------------
(* Instances of VerifyBudget for TLC.                                      *)
EXTENDS VerifyBudget
=============================================================================
