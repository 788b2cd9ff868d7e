------------------------- MODULE MCSubscriptionTerm -------------------------
(* Instances of SubscriptionTerm for TLC: terms of a few days. *)
EXTENDS SubscriptionTerm

=============================================================================
