--------------------------- MODULE MCConfirmations ---------------------------
(* Instances of Confirmations for TLC: every row is of one address, so that *)
(* a row may follow a verdict on the one before.                           *)
EXTENDS Confirmations

MCTo == [s \in Sub |-> CHOOSE a \in Address : TRUE]
=============================================================================
